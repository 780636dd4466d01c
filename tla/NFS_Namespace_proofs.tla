------------------------ MODULE NFS_Namespace_proofs -------------------------
(***************************************************************************)
(* The clients composed with the server implement NFS_Namespace, for all   *)
(* values of the constants: any number of clients and workers, any faults, *)
(* any tree.  The invariant the steps need is TInv: an RPC that is         *)
(* outstanding belongs to the callback its thread is running, so an RPC    *)
(* that the server executes for a caller is a mutation that is pending,    *)
(* one whose caller is gone is a mutation that was given up on, and one    *)
(* that was answered is never sent again.                                  *)
(*                                                                         *)
(* The lemmas say what the refinement mapping does of a thread (PhaseOf,   *)
(* WishOf), first for the steps of the server, then for those of a client. *)
(***************************************************************************)
EXTENDS NFS_Client_FS_proofs

\* The refinement mapping at one thread.
PhaseOf(t) == IF Unsettled(t) THEN "pending" ELSE IF Mutating(t) THEN "over" ELSE "idle"
WishOf(t)  == IF Unsettled(t)
                THEN [op |-> call[t].op, path |-> call[t].path, to |-> call[t].to]
                ELSE [op |-> "none", path |-> Root, to |-> Root]

\* The step does not change what the abstract specification sees of thread t.
Kept(t) == PhaseOf(t)' = PhaseOf(t) /\ WishOf(t)' = WishOf(t)

\* The two specifications have the same vocabulary.
LEMMA SameVocabulary ==
  /\ Namespace!Files = Files /\ Namespace!Paths = Paths /\ Namespace!Threads = Threads
  /\ \A f : Namespace!Dir(f) = Dir(f)
  BY DEF Namespace!Files, Namespace!Paths, Namespace!Threads, Namespace!Dir,
         Files, Paths, Threads, Dir

\* A thread is seen through its callback and whether its mutation is on its way.
LEMMA KeptThread ==
  ASSUME NEW t \in Threads,
         call'[t].op = call[t].op, call'[t].path = call[t].path, call'[t].to = call[t].to,
         call'[t].pc \in {"idle", "gone"} <=> call[t].pc \in {"idle", "gone"},
         call'[t].pc = "start" <=> call[t].pc = "start",
         (rpc'[t].st = "sent" /\ rpc'[t].op \in MutationRpcs)
           <=> (rpc[t].st = "sent" /\ rpc[t].op \in MutationRpcs)
  PROVE  Kept(t)
  BY DEF Kept, PhaseOf, WishOf, Unsettled, Mutating, Running

\* A thread whose callback changes no directory is never seen.
LEMMA UnseenThread ==
  ASSUME NEW t \in Threads, call[t].op \notin DirChanging, call'[t].op \notin DirChanging
  PROVE  Kept(t)
  BY DEF Kept, PhaseOf, WishOf, Unsettled, Mutating

\* The mutations whose callers are gone.
LateWishes == {LateWish(x) : x \in {y \in late : y.op \in MutationRpcs}}

LEMMA LateSeen ==
  LateWishes' = {LateWish(x) : x \in {y \in late' : y.op \in MutationRpcs}}
  BY DEF LateWishes, LateWish, Asked

\* A step that keeps every thread and the tree is a stutter of the namespace.
LEMMA NamesStutter ==
  ASSUME UNCHANGED <<tree, late>>, \A t \in Threads : Kept(t)
  PROVE  UNCHANGED Namespace!nvars
<1>1. LateWishes' = LateWishes
  BY LateSeen DEF LateWishes
<1> QED BY <1>1 DEF tree, Kept, PhaseOf, WishOf, LateWishes, Namespace!nvars

\* The mutations of the threads of T are over, and nothing else is seen.
Ends(T) == /\ \A t \in T : Unsettled(t) /\ ~Unsettled(t)' /\ Mutating(t)'
           /\ \A t \in Threads \ T : Kept(t)

LEMMA EndsSettle ==
  ASSUME NEW T \in SUBSET Threads, Ends(T)
  PROVE  Namespace!Settle(T)
<1>1. \A t \in T : PhaseOf(t) = "pending" /\ PhaseOf(t)' = "over"
  BY DEF Ends, PhaseOf
<1>2. \A t \in T : WishOf(t)' = Namespace!NoWish
  BY DEF Ends, WishOf, Namespace!NoWish
<1>3. \A t \in Threads \ T : PhaseOf(t)' = PhaseOf(t) /\ WishOf(t)' = WishOf(t)
  BY DEF Ends, Kept
<1>4. [t \in Threads |-> PhaseOf(t)]' =
        [t \in Threads |-> IF t \in T THEN "over" ELSE [u \in Threads |-> PhaseOf(u)][t]]
  BY <1>1, <1>3
<1>5. [t \in Threads |-> WishOf(t)]' =
        [t \in Threads |-> IF t \in T THEN Namespace!NoWish ELSE [u \in Threads |-> WishOf(u)][t]]
  BY <1>2, <1>3
<1>6. \A t \in T : [u \in Threads |-> PhaseOf(u)][t] = "pending"
  BY <1>1
<1> QED BY <1>4, <1>5, <1>6, SameVocabulary DEF Namespace!Settle, PhaseOf, WishOf

\* The mutations that are given up on when the threads of T are.
Wished(T) == {<<t, WishOf(t)>> : t \in {u \in T : Unsettled(u)}}

LEMMA WishedPending ==
  ASSUME NEW T \in SUBSET Threads
  PROVE  Namespace!Pending(T) = Wished(T)
<1>1. \A t \in T : /\ [u \in Threads |-> PhaseOf(u)][t] = "pending" <=> Unsettled(t)
                   /\ [u \in Threads |-> WishOf(u)][t] = WishOf(t)
  BY DEF PhaseOf
<1> QED BY <1>1 DEF Namespace!Pending, Wished, PhaseOf, WishOf

LEMMA GivesUp ==
  ASSUME NEW T \in SUBSET Threads, UNCHANGED tree,
         LateWishes' \subseteq LateWishes \cup Wished(T)
  PROVE  Namespace!GiveUp(T)
  BY WishedPending DEF Namespace!GiveUp, Namespace!names, tree, LateWishes

\* With the tree as it was, they are mutations without their effect, or with one
\* that may come later.
LEMMA EndsNoEffect ==
  ASSUME NEW T \in SUBSET Threads, Ends(T), UNCHANGED tree,
         LateWishes' \subseteq LateWishes \cup Wished(T)
  PROVE  Namespace!NNext
<1>1. Namespace!Abandon(T)
  BY EndsSettle, GivesUp DEF Namespace!Abandon
<1> QED BY <1>1, SameVocabulary DEF Namespace!NNext

\* With the tree changed as one of them asked, it is that one's effect.
LEMMA EndsTakeEffect ==
  ASSUME NEW t \in Threads, Ends({t}), UNCHANGED late,
         NEW m, m = [op |-> call[t].op, path |-> call[t].path, to |-> call[t].to],
         Namespace!Effect(m)
  PROVE  Namespace!NNext
<1>1. Namespace!Settle({t})
  <2>1. PICK T : T = {t}
    OBVIOUS
  <2>2. Namespace!Settle(T)
    BY <2>1, EndsSettle
  <2> QED BY <2>1, <2>2
<1>2. [u \in Threads |-> WishOf(u)][t] = m
  BY DEF Ends, WishOf
<1>3. Namespace!Effect([u \in Threads |-> WishOf(u)][t])
  BY <1>2
<1>4. LateWishes' = LateWishes
  BY LateSeen DEF LateWishes
<1>5. Namespace!TakeEffect(t)
  BY <1>1, <1>3, <1>4 DEF Namespace!TakeEffect, WishOf, LateWishes
<1> QED BY <1>5, SameVocabulary DEF Namespace!NNext

\* A thread with an RPC outstanding is past the start of its callback.
LEMMA OutstandingThread ==
  ASSUME TInv, NEW t \in Threads, rpc[t].st # "none"
  PROVE  /\ call[t].pc \notin {"idle", "start", "open", "done", "gone"}
         /\ call[t].op # "none" /\ IssuedBy(rpc[t].op, call[t].op)
         /\ rpc[t].path = call[t].path /\ rpc[t].to = call[t].to
         /\ CallShape(call[t])
  BY DEF TInv, ShapeOK, RpcShape

\* A mutation the server still has when its caller is gone was given up on.
LEMMA LeftBehindWished ==
  ASSUME TInv, NEW T \in SUBSET Threads, late' = late \cup LeftBehind(T)
  PROVE  LateWishes' \subseteq LateWishes \cup Wished(T)
<1> SUFFICES ASSUME NEW x \in LeftBehind(T), x.op \in MutationRpcs
             PROVE  LateWish(x) \in Wished(T)
  BY LateSeen DEF LateWishes
<1> DEFINE t == x.thread
<1>1. /\ t \in T /\ rpc[t].st = "sent"
      /\ x.op = rpc[t].op /\ x.path = rpc[t].path /\ x.to = rpc[t].to
  BY LeftBehindShape
<1>2. /\ call[t].pc \notin {"idle", "gone"}
      /\ IssuedBy(rpc[t].op, call[t].op)
      /\ rpc[t].path = call[t].path /\ rpc[t].to = call[t].to
  <2>1. CallShape(call[t]) /\ RpcShape(call[t], rpc[t])
    BY <1>1 DEF TInv, ShapeOK
  <2> QED BY <1>1, <2>1 DEF RpcShape
<1>3. Unsettled(t) /\ Asked(x.op) = call[t].op
  BY <1>1, <1>2 DEF IssuedBy, MutationRpcs, Unsettled, Mutating, Running, DirChanging, Asked
<1>4. LateWish(x) = <<t, WishOf(t)>>
  BY <1>1, <1>2, <1>3 DEF LateWish, WishOf
<1> QED BY <1>1, <1>3, <1>4 DEF Wished

LEMMA NothingWished ==
  ASSUME late' \subseteq late, NEW T
  PROVE  LateWishes' \subseteq LateWishes \cup Wished(T)
  BY LateSeen DEF LateWishes

-----------------------------------------------------------------------------
(* Steps of the server.                                                    *)

\* The mutations among the requests of A that were still to be answered.
Answered(A) == {t \in A : Unsettled(t)}

\* An answer is the end of a mutation, whatever it says and whoever gives it.
LEMMA AnswersSettle ==
  ASSUME TInv, UNCHANGED clientVars, NEW A \in SUBSET Threads,
         \A t \in A : rpc[t].st # "none" /\ rpc'[t].st = "replied",
         \A t \in Threads \ A : rpc'[t] = rpc[t]
  PROVE  Ends(Answered(A))
<1>1. call' = call
  BY DEF clientVars
<1>2. ASSUME NEW t \in Answered(A)
      PROVE  Unsettled(t) /\ ~Unsettled(t)' /\ Mutating(t)'
  BY <1>1, <1>2, OutstandingThread DEF Answered, Unsettled, Mutating, Running
<1>3. ASSUME NEW t \in Threads \ Answered(A)
      PROVE  Kept(t)
  <2>1. CASE t \in A
    <3>1. ~Unsettled(t)
      BY <1>3, <2>1 DEF Answered
    <3>2. ~Unsettled(t)'
      BY <1>1, <2>1, OutstandingThread DEF Unsettled
    <3> QED BY <1>1, <3>1, <3>2 DEF Kept, PhaseOf, WishOf, Mutating, Running
  <2>2. CASE t \notin A
    BY <1>1, <1>3, <2>2, KeptThread
  <2> QED BY <2>1, <2>2
<1>4. Answered(A) \in SUBSET Threads
  BY DEF Answered
<1> QED BY <1>2, <1>3, <1>4 DEF Ends

LEMMA ReplySettles ==
  ASSUME TInv, UNCHANGED clientVars, NEW t \in Threads, rpc[t].st # "none",
         NEW s, NEW h, NEW d, Reply(t, s, h, d)
  PROVE  Ends(Answered({t}))
<1>1. rpc[t] \in Rpc /\ rpc \in [Threads -> Rpc]
  BY DEF TInv, TypeOK, ServerTypeOK
<1>2. rpc' = [rpc EXCEPT ![t] = Answer(rpc[t], s, h, d)]
  BY DEF Reply
<1>3. Answer(rpc[t], s, h, d).st = "replied"
  BY <1>1 DEF Answer, Rpc
<1>4. rpc'[t].st = "replied" /\ \A u \in Threads \ {t} : rpc'[u] = rpc[u]
  BY <1>1, <1>2, <1>3
<1> QED BY <1>4, AnswersSettle

LEMMA ReplyNoEffect ==
  ASSUME TInv, UNCHANGED clientVars, UNCHANGED tree, NEW t \in Threads, rpc[t].st # "none",
         late' = late \/ late' = late \cup LeftBehind({t}),
         NEW s, NEW h, NEW d, Reply(t, s, h, d)
  PROVE  Namespace!NNext
<1>1. PICK T : T = {t}
  OBVIOUS
<1>2. LateWishes' \subseteq LateWishes \cup Wished(T)
  BY <1>1, LeftBehindWished, NothingWished
<1>3. Answered(T) \in SUBSET Threads /\ Wished(Answered(T)) = Wished(T)
  BY <1>1 DEF Answered, Wished
<1>4. Ends(Answered(T))
  BY <1>1, ReplySettles
<1> QED BY <1>2, <1>3, <1>4, EndsNoEffect

LEMMA ExitNoEffect ==
  ASSUME TInv, UNCHANGED clientVars, Exit
  PROVE  Namespace!NNext
<1> DEFINE A == {t \in Threads : rpc[t].st = "sent"}
<1>1. rpc \in [Threads -> Rpc]
  BY DEF TInv, TypeOK, ServerTypeOK
<1>2. rpc' = [t \in Threads |->
              IF rpc[t].st = "sent" THEN Answer(rpc[t], "UNAVAILABLE", EmptyHandle, 0)
                                    ELSE rpc[t]]
  BY DEF Exit
<1>3. \A t \in A : rpc[t].st # "none" /\ rpc'[t].st = "replied"
  BY <1>1, <1>2 DEF Answer, Rpc
<1>4. \A t \in Threads \ A : rpc'[t] = rpc[t]
  BY <1>2
<1>5. UNCHANGED tree /\ late' \subseteq late
  BY DEF Exit
<1>6. Answered(A) \in SUBSET Threads /\ Ends(Answered(A))
  BY <1>3, <1>4, AnswersSettle DEF Answered
<1> QED BY <1>5, <1>6, NothingWished, EndsNoEffect

\* The handler of a mutation changes the tree: the mutation of t takes effect.
LEMMA ReplyTakesEffect ==
  ASSUME TInv, UNCHANGED <<clientVars, late>>, NEW t \in Threads,
         rpc[t].st = "sent", rpc[t].op \in MutationRpcs,
         NEW s, NEW h, NEW d, Reply(t, s, h, d),
         NEW m, m = [op |-> call[t].op, path |-> rpc[t].path, to |-> rpc[t].to],
         Namespace!Effect(m)
  PROVE  Namespace!NNext
<1>1. /\ call[t].pc \notin {"idle", "gone"} /\ rpc[t].path = call[t].path /\ rpc[t].to = call[t].to
      /\ IssuedBy(rpc[t].op, call[t].op)
  BY OutstandingThread
<1>2. Unsettled(t)
  BY <1>1 DEF IssuedBy, MutationRpcs, Unsettled, Mutating, Running, DirChanging
<1>3. Ends({t})
  <2>1. Answered({t}) = {t}
    BY <1>2 DEF Answered
  <2> QED BY <2>1, ReplySettles
<1> QED BY <1>1, <1>3, EndsTakeEffect

\* A directory without files is one in which no name resolves.
LEMMA EmptyDirectory ==
  ASSUME NEW d \in Dirs
  PROVE  IsEmpty(d) <=> \A n \in Names : entry[<<d, n>>] = NoInode
<1>1. \A n \in Names : <<d, n>> \in Files /\ Dir(<<d, n>>) = d
  BY DEF Files, Dir
<1>2. \A f \in Files : f = <<Dir(f), f[2]>> /\ f[2] \in Names
  BY DEF Files, Dir
<1>3. ASSUME IsEmpty(d)
      PROVE  \A n \in Names : entry[<<d, n>>] = NoInode
  BY <1>1, <1>3 DEF IsEmpty
<1>4. ASSUME \A n \in Names : entry[<<d, n>>] = NoInode, NEW f \in Files, Dir(f) = d
      PROVE  entry[f] = NoInode
  BY <1>2, <1>4
<1> QED BY <1>3, <1>4 DEF IsEmpty

\* The rename of a file is MoveFile, and that of a directory is MoveDir.
LEMMA FileMoved ==
  ASSUME TInv, NEW p \in Files, NEW q \in Files, Move(p, q)
  PROVE  Namespace!MoveFile(p, q)
<1>1. p \notin Dirs /\ q \notin Dirs
  BY ProtoAssumption
<1>2. \A f \in Files : /\ Under(f, q) <=> f = q
                       /\ Under(f, p) <=> f = p
                       /\ Under(f, q) => Image(f, q, p) = p
  BY <1>1 DEF Under, Image, Dir, Files
<1>3. entry' = [f \in Files |-> IF f = q THEN entry[p] ELSE IF f = p THEN NoInode ELSE entry[f]]
  BY <1>2 DEF Move
<1>4. entry \in [Files -> Inodes \cup {NoInode}]
  BY DEF TInv, TypeOK, ServerTypeOK
<1>5. entry' = [entry EXCEPT ![p] = NoInode, ![q] = entry[p]]
  BY <1>3, <1>4
<1>6. entry[p] # NoInode /\ UNCHANGED <<dirs, born>>
  BY <1>1 DEF Move, Renamable, Present
<1> QED BY <1>5, <1>6, SameVocabulary DEF Namespace!MoveFile

LEMMA DirMoved ==
  ASSUME TInv, NEW p \in Dirs, NEW q \in Dirs, Move(p, q)
  PROVE  Namespace!MoveDir(p, q)
<1>1. \A f \in Files : f # p /\ f # q
  BY ProtoAssumption
<1>2. \A f \in Files : /\ Under(f, q) <=> Dir(f) = q
                       /\ Under(f, p) <=> Dir(f) = p
                       /\ Under(f, q) => Image(f, q, p) = <<p, f[2]>>
  BY <1>1 DEF Under, Image
<1>3. entry' = [f \in Files |-> IF Dir(f) = q THEN entry[<<p, f[2]>>]
                                ELSE IF Dir(f) = p THEN NoInode ELSE entry[f]]
  BY <1>2 DEF Move
<1>4. p \in dirs /\ dirs' = (dirs \ {p}) \cup {q} /\ UNCHANGED born
  BY DEF Move, Renamable, Present
<1>5. \A n \in Names : entry[<<q, n>>] = NoInode
  BY EmptyDirectory DEF Move, Renamable
<1> QED BY <1>3, <1>4, <1>5, SameVocabulary DEF Namespace!MoveDir

\* What the handlers of the mutations do to the tree is an effect of
\* NFS_Namespace, whether or not somebody waits for them.
LEMMA MakeFileEffect ==
  ASSUME NEW p \in Files, NEW q, MakeFile(p)
  PROVE  Namespace!Effect([op |-> "create", path |-> p, to |-> q])
  BY SameVocabulary DEF MakeFile, Namespace!Effect, Namespace!Create

LEMMA RemoveFileEffect ==
  ASSUME NEW p \in Files, NEW q, RemoveFile(p)
  PROVE  Namespace!Effect([op |-> "unlink", path |-> p, to |-> q])
  BY SameVocabulary DEF RemoveFile, Namespace!Effect, Namespace!Remove

LEMMA MakeDirectoryEffect ==
  ASSUME NEW p \in Dirs, NEW q, MakeDirectory(p)
  PROVE  Namespace!Effect([op |-> "mkdir", path |-> p, to |-> q])
  BY DEF MakeDirectory, Namespace!Effect, Namespace!MakeDir

LEMMA RemoveDirectoryEffect ==
  ASSUME NEW p \in Dirs, NEW q, RemoveDirectory(p)
  PROVE  Namespace!Effect([op |-> "rmdir", path |-> p, to |-> q])
<1>1. \A n \in Names : entry[<<p, n>>] = NoInode
  BY EmptyDirectory DEF RemoveDirectory
<1> QED BY <1>1 DEF RemoveDirectory, Namespace!Effect, Namespace!RemoveDir

LEMMA MoveEffect ==
  ASSUME TInv, NEW p \in Paths, NEW q \in Paths, p \in Files <=> q \in Files, Move(p, q)
  PROVE  Namespace!Effect([op |-> "rename", path |-> p, to |-> q])
<1>1. CASE p \in Files /\ q \in Files
  <2>1. Namespace!MoveFile(p, q)
    BY <1>1, FileMoved
  <2> QED BY <2>1 DEF Namespace!Effect, Namespace!MoveFile
<1>2. CASE p \in Dirs /\ q \in Dirs
  <2>1. Namespace!MoveDir(p, q)
    BY <1>2, DirMoved
  <2> QED BY <2>1 DEF Namespace!Effect, Namespace!MoveDir
<1> QED BY <1>1, <1>2 DEF Paths

\* The handler of a mutation answers with its effect or without it.
LEMMA CreateImplemented ==
  ASSUME TInv, UNCHANGED clientVars, NEW t \in Threads, CreateFile(t)
  PROVE  Namespace!NNext
<1> DEFINE p == rpc[t].path
<1>1. /\ rpc[t].st = "sent" /\ rpc[t].op = "CreateFile" /\ UNCHANGED late
      /\ call[t].op = "create" /\ p \in Files
  BY OutstandingThread DEF CreateFile, Requested, IssuedBy, CallShape
<1>2. CASE UNCHANGED tree
  BY <1>1, <1>2, ReplyNoEffect DEF CreateFile
<1>3. CASE MakeFile(p) /\ Reply(t, "OK", EmptyHandle, 0)
  BY <1>1, <1>3, MakeFileEffect, ReplyTakesEffect DEF MutationRpcs
<1> QED BY <1>2, <1>3 DEF CreateFile

LEMMA DeleteImplemented ==
  ASSUME TInv, UNCHANGED clientVars, NEW t \in Threads, DeleteFile(t)
  PROVE  Namespace!NNext
<1> DEFINE p == rpc[t].path
<1>1. /\ rpc[t].st = "sent" /\ rpc[t].op = "DeleteFile" /\ UNCHANGED late
      /\ call[t].op = "unlink" /\ p \in Files
  BY OutstandingThread DEF DeleteFile, Requested, IssuedBy, CallShape
<1>2. CASE UNCHANGED tree
  BY <1>1, <1>2, ReplyNoEffect DEF DeleteFile
<1>3. CASE RemoveFile(p) /\ Reply(t, "OK", EmptyHandle, 0)
  BY <1>1, <1>3, RemoveFileEffect, ReplyTakesEffect DEF MutationRpcs
<1> QED BY <1>2, <1>3 DEF DeleteFile

LEMMA MakeDirImplemented ==
  ASSUME TInv, UNCHANGED clientVars, NEW t \in Threads, CreateDirectory(t)
  PROVE  Namespace!NNext
<1> DEFINE p == rpc[t].path
<1>1. /\ rpc[t].st = "sent" /\ rpc[t].op = "CreateDirectory" /\ UNCHANGED late
      /\ call[t].op = "mkdir" /\ p \in Dirs
  BY OutstandingThread DEF CreateDirectory, Requested, IssuedBy, CallShape
<1>2. CASE UNCHANGED tree
  BY <1>1, <1>2, ReplyNoEffect DEF CreateDirectory
<1>3. CASE MakeDirectory(p) /\ Reply(t, "OK", EmptyHandle, 0)
  BY <1>1, <1>3, MakeDirectoryEffect, ReplyTakesEffect DEF MutationRpcs
<1> QED BY <1>2, <1>3 DEF CreateDirectory

LEMMA RemoveDirImplemented ==
  ASSUME TInv, UNCHANGED clientVars, NEW t \in Threads, DeleteDirectory(t)
  PROVE  Namespace!NNext
<1> DEFINE p == rpc[t].path
<1>1. /\ rpc[t].st = "sent" /\ rpc[t].op = "DeleteDirectory" /\ UNCHANGED late
      /\ call[t].op = "rmdir" /\ p \in Dirs
  BY OutstandingThread DEF DeleteDirectory, Requested, IssuedBy, CallShape
<1>2. CASE UNCHANGED tree
  BY <1>1, <1>2, ReplyNoEffect DEF DeleteDirectory
<1>3. CASE RemoveDirectory(p) /\ Reply(t, "OK", EmptyHandle, 0)
  BY <1>1, <1>3, RemoveDirectoryEffect, ReplyTakesEffect DEF MutationRpcs
<1> QED BY <1>2, <1>3 DEF DeleteDirectory

LEMMA RenameImplemented ==
  ASSUME TInv, UNCHANGED clientVars, NEW t \in Threads, RenameFile(t)
  PROVE  Namespace!NNext
<1> DEFINE p == rpc[t].path
           q == rpc[t].to
<1>1. /\ rpc[t].st = "sent" /\ rpc[t].op = "RenameFile" /\ UNCHANGED late
      /\ call[t].op = "rename" /\ rpc[t] \in Rpc
      /\ p \in Files <=> q \in Files
  BY OutstandingThread DEF RenameFile, Requested, IssuedBy, CallShape, TInv, TypeOK, ServerTypeOK
<1>2. p \in Paths /\ q \in Paths
  BY <1>1 DEF Rpc
<1>3. CASE UNCHANGED tree
  BY <1>1, <1>3, ReplyNoEffect DEF RenameFile
<1>4. CASE Move(p, q) /\ Reply(t, "OK", EmptyHandle, 0)
  BY <1>1, <1>2, <1>4, MoveEffect, ReplyTakesEffect DEF MutationRpcs
<1> QED BY <1>3, <1>4 DEF RenameFile

LEMMA ServeImplemented ==
  ASSUME TInv, UNCHANGED clientVars, NEW t \in Threads, Serve(t)
  PROVE  Namespace!NNext
<1>1. rpc[t].st = "sent"
  BY DEF Serve, Lookup, Read, Write_Async, Fsync, Readdir, Getattr, CreateFile, DeleteFile,
         CreateDirectory, DeleteDirectory, RenameFile, Requested
<1>2. CASE open_mount_path_by_id(t) \/ open_by_handle_at(t)
  BY <1>1, <1>2, ReplyNoEffect, ExitNoEffect DEF open_mount_path_by_id, open_by_handle_at
<1>3. CASE ~(open_mount_path_by_id(t) \/ open_by_handle_at(t)) /\ (Read(t) \/ Write_Async(t) \/ Fsync(t))
  BY <1>1, <1>3, ReplyNoEffect DEF Read, Write_Async, Fsync, tree
<1>4. CASE Lookup(t) \/ Getattr(t)
  BY <1>1, <1>4, ReplyNoEffect DEF Lookup, Getattr, tree
<1>5. CASE Readdir(t)
  BY <1>1, <1>5, ReplyNoEffect, ExitNoEffect DEF Readdir, tree
<1> QED
  BY <1>2, <1>3, <1>4, <1>5, CreateImplemented, DeleteImplemented, MakeDirImplemented,
     RemoveDirImplemented, RenameImplemented DEF Serve

\* A step that leaves the callbacks and the RPCs alone keeps every thread.
LEMMA AllKept ==
  ASSUME UNCHANGED <<rpc, call>>
  PROVE  \A t \in Threads : Kept(t)
  BY DEF Kept, PhaseOf, WishOf, Unsettled, Mutating, Running

\* Requests of one thread for different mutations are different wishes.
LEMMA LateWishOnce ==
  ASSUME TInv, NEW x \in late, NEW y \in late,
         x.op \in MutationRpcs, y.op \in MutationRpcs, LateWish(x) = LateWish(y)
  PROVE  x = y
<1>1. x \in Late /\ y \in Late
  BY DEF TInv, TypeOK, ServerTypeOK
<1>2. /\ x.thread = y.thread /\ Asked(x.op) = Asked(y.op)
      /\ x.path = y.path /\ x.to = y.to
  BY DEF LateWish
<1>3. x.op = y.op
  BY <1>2 DEF Asked, MutationRpcs
<1> QED BY <1>1, <1>2, <1>3 DEF Late

\* The handler of a mutation that was given up on.
LEMMA LateEffectImplemented ==
  ASSUME TInv, NEW x \in late, LateEffect(x), late' = late \ {x}, UNCHANGED <<rpc, call>>
  PROVE  Namespace!NNext
<1> DEFINE m == LateWish(x)
<1>1. x \in Late /\ LateShape(x) /\ x.op \in MutationRpcs
  BY DEF TInv, TypeOK, ServerTypeOK, ShapeOK, LateEffect, MutationRpcs
<1>2. x.path \in Paths /\ x.to \in Paths
  BY <1>1 DEF Late
<1>3. Namespace!Effect([op |-> Asked(x.op), path |-> x.path, to |-> x.to])
  <2>1. CASE x.op = "CreateFile"
    <3>1. Asked(x.op) = "create" /\ x.path \in Files /\ MakeFile(x.path)
      BY <1>1, <2>1 DEF LateEffect, LateShape, Asked
    <3>2. Namespace!Effect([op |-> "create", path |-> x.path, to |-> x.to])
      BY <3>1, MakeFileEffect
    <3> QED BY <3>1, <3>2
  <2>2. CASE x.op = "DeleteFile"
    <3>1. Asked(x.op) = "unlink" /\ x.path \in Files /\ RemoveFile(x.path)
      BY <1>1, <2>2 DEF LateEffect, LateShape, Asked
    <3>2. Namespace!Effect([op |-> "unlink", path |-> x.path, to |-> x.to])
      BY <3>1, RemoveFileEffect
    <3> QED BY <3>1, <3>2
  <2>3. CASE x.op = "CreateDirectory"
    <3>1. Asked(x.op) = "mkdir" /\ x.path \in Dirs /\ MakeDirectory(x.path)
      BY <1>1, <2>3 DEF LateEffect, LateShape, Asked
    <3>2. Namespace!Effect([op |-> "mkdir", path |-> x.path, to |-> x.to])
      BY <3>1, MakeDirectoryEffect
    <3> QED BY <3>1, <3>2
  <2>4. CASE x.op = "DeleteDirectory"
    <3>1. Asked(x.op) = "rmdir" /\ x.path \in Dirs /\ RemoveDirectory(x.path)
      BY <1>1, <2>4 DEF LateEffect, LateShape, Asked
    <3>2. Namespace!Effect([op |-> "rmdir", path |-> x.path, to |-> x.to])
      BY <3>1, RemoveDirectoryEffect
    <3> QED BY <3>1, <3>2
  <2>5. CASE x.op = "RenameFile"
    <3>1. Asked(x.op) = "rename" /\ Move(x.path, x.to) /\ (x.path \in Files <=> x.to \in Files)
      BY <1>1, <2>5 DEF LateEffect, LateShape, Asked
    <3>2. Namespace!Effect([op |-> "rename", path |-> x.path, to |-> x.to])
      BY <1>2, <3>1, MoveEffect
    <3> QED BY <3>1, <3>2
  <2> QED BY <1>1, <2>1, <2>2, <2>3, <2>4, <2>5 DEF MutationRpcs
<1>4. m \in LateWishes /\ m[2] = [op |-> Asked(x.op), path |-> x.path, to |-> x.to]
  BY <1>1 DEF LateWishes, LateWish
<1>5. LateWishes' = LateWishes \ {m}
  BY LateSeen, LateWishOnce, <1>1 DEF LateWishes
<1>6. \A t \in Threads : PhaseOf(t)' = PhaseOf(t) /\ WishOf(t)' = WishOf(t)
  BY AllKept DEF Kept
<1>7. /\ [t \in Threads |-> PhaseOf(t)]' = [t \in Threads |-> PhaseOf(t)]
      /\ [t \in Threads |-> WishOf(t)]' = [t \in Threads |-> WishOf(t)]
  BY <1>6
<1>8. Namespace!Effect(m[2])
  BY <1>3, <1>4
<1>9. Namespace!TakeEffectLate(m)
  BY <1>5, <1>7, <1>8 DEF Namespace!TakeEffectLate, PhaseOf, WishOf, LateWishes
<1> QED BY <1>4, <1>9 DEF Namespace!NNext, LateWishes

LEMMA ServeLateImplemented ==
  ASSUME TInv, UNCHANGED clientVars, NEW x \in late, ServeLate(x)
  PROVE  Namespace!NNext
<1>1. CASE Exit
  BY <1>1, ExitNoEffect
<1>2. CASE late' = late \ {x} /\ LateEffect(x) /\ UNCHANGED rpc
  BY <1>2, LateEffectImplemented DEF clientVars
<1>3. CASE late' = late \ {x} /\ UNCHANGED <<tree, rpc>>
  <2>1. PICK T \in SUBSET Threads : T = {}
    OBVIOUS
  <2>2. Ends(T)
    BY <1>3, <2>1, AllKept DEF Ends, clientVars
  <2> QED BY <1>3, <2>2, NothingWished, EndsNoEffect
<1> QED BY <1>1, <1>2, <1>3 DEF ServeLate

LEMMA ServerStepImplemented ==
  ASSUME TInv, ServerStep
  PROVE  Namespace!NNext \/ UNCHANGED Namespace!nvars
<1>1. UNCHANGED clientVars
  BY DEF ServerStep
<1>2. ASSUME NEW t \in Threads, Refuse(t) \/ LoseRpc(t) \/ RpcUnavailable(t)
      PROVE  Namespace!NNext
  BY <1>1, <1>2, ReplyNoEffect DEF Refuse, LoseRpc, RpcUnavailable, tree
<1>3. CASE ServerCrash
  BY <1>1, <1>3, ExitNoEffect DEF ServerCrash
<1>4. CASE RunServer
  <2>1. UNCHANGED <<tree, late, rpc, call>>
    BY <1>1, <1>4 DEF RunServer, clientVars
  <2> QED BY <2>1, AllKept, NamesStutter
<1> QED BY <1>1, <1>2, <1>3, <1>4, ServeImplemented, ServeLateImplemented DEF ServerStep

-----------------------------------------------------------------------------
(* Steps of a client.                                                      *)

\* A step of thread t: the other threads lose an iterator at most.
LEMMA OthersKept ==
  ASSUME TInv, NEW t \in Threads,
         \A u \in Threads \ {t} :
            /\ rpc'[u] = rpc[u]
            /\ call'[u] = call[u] \/ call'[u] = [call[u] EXCEPT !.itr = FALSE]
  PROVE  \A u \in Threads \ {t} : Kept(u)
<1> SUFFICES ASSUME NEW u \in Threads \ {t} PROVE Kept(u)
  OBVIOUS
<1>1. call[u] \in Call
  BY DEF TInv, TypeOK
<1>2. /\ call'[u].op = call[u].op /\ call'[u].path = call[u].path
      /\ call'[u].to = call[u].to /\ call'[u].pc = call[u].pc
      /\ rpc'[u] = rpc[u]
  BY <1>1 DEF Call
<1> QED BY <1>2, KeptThread

\* A mutation is on its way once its stub is called, and not by another stub.
LEMMA SendStutters ==
  ASSUME TInv, NEW t \in Threads, NEW op \in RpcOps, NEW fh, NEW itr \in BOOLEAN,
         call[t].pc \in {"start", "open"},
         call[t].op \in DirChanging => (call[t].pc = "start" <=> op \in MutationRpcs),
         Send(t, op, fh, itr)
  PROVE  UNCHANGED Namespace!nvars
<1>1. /\ call \in [Threads -> Call] /\ rpc \in [Threads -> Rpc] /\ call[t] \in Call
  BY DEF TInv, TypeOK, ServerTypeOK
<1>2. /\ rpc' = [rpc EXCEPT ![t] =
               [NoRpc EXCEPT !.st = "sent", !.op = op, !.path = call[t].path,
                             !.to = call[t].to, !.flags = call[t].flags, !.fh = fh]]
      /\ call' = [call EXCEPT ![t] = [[call[t] EXCEPT !.pc = "rpc"] EXCEPT !.itr = itr]]
      /\ UNCHANGED <<tree, late>>
  BY <1>1 DEF Send, tree
<1>3. \A u \in Threads \ {t} : rpc'[u] = rpc[u] /\ call'[u] = call[u]
  BY <1>1, <1>2
<1>4. /\ rpc'[t].st = "sent" /\ rpc'[t].op = op
      /\ call'[t].op = call[t].op /\ call'[t].path = call[t].path
      /\ call'[t].to = call[t].to /\ call'[t].pc = "rpc"
  BY <1>1, <1>2 DEF NoRpc, Call
<1>5. rpc[t].st = "none"
  BY OutstandingThread
<1>6. Kept(t)
  <2>1. CASE call[t].op \in DirChanging
    BY <1>4, <1>5, <2>1 DEF Kept, PhaseOf, WishOf, Unsettled, Mutating, Running
  <2>2. CASE call[t].op \notin DirChanging
    BY <1>4, <2>2, UnseenThread
  <2> QED BY <2>1, <2>2
<1> QED BY <1>2, <1>3, <1>6, OthersKept, NamesStutter

\* A callback that changes a directory leaves a stub only when it was answered.
LEMMA LeaveStutters ==
  ASSUME TInv, NEW t \in Threads, NEW pc, NEW ret, NEW m,
         call[t].op \in DirChanging =>
           /\ {call[t].pc, pc} \cap {"idle", "gone", "start"} = {}
           /\ rpc[t].st # "sent",
         Leave(t, pc, ret, m)
  PROVE  UNCHANGED Namespace!nvars
<1>1. call \in [Threads -> Call] /\ rpc \in [Threads -> Rpc] /\ call[t] \in Call
  BY DEF TInv, TypeOK, ServerTypeOK
<1>2. /\ \A u \in Threads \ {t} : call'[u] = call[u] \/ call'[u] = [call[u] EXCEPT !.itr = FALSE]
      /\ call'[t] = [call[t] EXCEPT !.pc = pc, !.itr = FALSE, !.tries = 0, !.ret = ret]
  BY DEF Leave
<1>3. /\ rpc'[t] = NoRpc /\ \A u \in Threads \ {t} : rpc'[u] = rpc[u]
      /\ UNCHANGED <<tree, late>>
  BY <1>1 DEF Leave, tree
<1>4. /\ call'[t].op = call[t].op /\ call'[t].path = call[t].path
      /\ call'[t].to = call[t].to /\ call'[t].pc = pc /\ rpc'[t].st = "none"
  BY <1>1, <1>2, <1>3 DEF Call, NoRpc
<1>5. Kept(t)
  <2>1. CASE call[t].op \in DirChanging
    BY <1>4, <2>1, KeptThread
  <2>2. CASE call[t].op \notin DirChanging
    BY <1>4, <2>2, UnseenThread
  <2> QED BY <2>1, <2>2
<1> QED BY <1>2, <1>3, <1>5, OthersKept, NamesStutter

LEMMA ReconnectStutters ==
  ASSUME TInv, NEW t \in Threads, EnterReconnect(t) \/ Reconnect_To_Server(t)
  PROVE  UNCHANGED Namespace!nvars
<1>1. call \in [Threads -> Call] /\ call[t] \in Call
  BY DEF TInv, TypeOK
<1>2. UNCHANGED <<tree, late, rpc>> /\ call[t].pc \in {"rpc", "reconnect"}
  BY DEF EnterReconnect, Reconnect_To_Server, serverVars, tree
<1>3. /\ \A u \in Threads \ {t} : call'[u] = call[u]
      /\ call'[t].op = call[t].op /\ call'[t].path = call[t].path
      /\ call'[t].to = call[t].to /\ call'[t].pc \in {"rpc", "reconnect", "resume"}
  <2>1. CASE call' = [call EXCEPT ![t].pc = "reconnect"] \/ call' = [call EXCEPT ![t].pc = "resume"]
    BY <1>1, <2>1 DEF Call
  <2>2. CASE call' = [call EXCEPT ![t].tries = @ + 1]
    BY <1>1, <1>2, <2>2 DEF Call
  <2> QED BY <2>1, <2>2 DEF EnterReconnect, Reconnect_To_Server
<1>4. Kept(t)
  BY <1>2, <1>3, KeptThread
<1> QED BY <1>2, <1>3, <1>4, OthersKept, NamesStutter

\* The threads of a process that dies vanish, wherever their mutations were.
LEMMA DieVanishes ==
  ASSUME TInv, NEW c \in Clients, NEW k, k.op = "none", NEW D, Die(c, k, D)
  PROVE  Namespace!NNext
<1>1. PICK T : T = {c} \X Workers
  OBVIOUS
<1>2. T \in SUBSET Threads /\ T = {t \in Threads : ClientOf(t) = c}
  BY <1>1 DEF Threads, ClientOf
<1>3. /\ call' = [t \in Threads |-> IF t \in T THEN k ELSE call[t]]
      /\ rpc' = [t \in Threads |-> IF t \in T THEN NoRpc ELSE rpc[t]]
      /\ late' = late \cup LeftBehind(T)
      /\ UNCHANGED tree
  BY <1>2 DEF Die, tree
<1>4. \A t \in T : PhaseOf(t)' = "idle" /\ WishOf(t)' = Namespace!NoWish
  BY <1>2, <1>3 DEF PhaseOf, WishOf, Unsettled, Mutating, DirChanging, Namespace!NoWish
<1>5. \A t \in Threads \ T : PhaseOf(t)' = PhaseOf(t) /\ WishOf(t)' = WishOf(t)
  BY <1>3 DEF PhaseOf, WishOf, Unsettled, Mutating, Running
<1>6. [t \in Threads |-> PhaseOf(t)]' =
        [t \in Threads |-> IF t \in T THEN "idle" ELSE [u \in Threads |-> PhaseOf(u)][t]]
  BY <1>4, <1>5
<1>7. [t \in Threads |-> WishOf(t)]' =
        [t \in Threads |-> IF t \in T THEN Namespace!NoWish
                           ELSE [u \in Threads |-> WishOf(u)][t]]
  BY <1>4, <1>5
<1>8. Namespace!GiveUp(T)
  BY <1>2, <1>3, LeftBehindWished, GivesUp
<1>9. Namespace!Vanish(T)
  BY <1>6, <1>7, <1>8, SameVocabulary DEF Namespace!Vanish, PhaseOf, WishOf
<1> QED BY <1>1, <1>9 DEF Namespace!NNext

LEMMA RemountVanishes ==
  ASSUME TInv, NEW c \in Clients, Remount(c)
  PROVE  Namespace!NNext
  BY DieVanishes, IdleFields DEF Remount

LEMMA AbortVanishes ==
  ASSUME TInv, NEW c \in Clients, Abort(c)
  PROVE  Namespace!NNext
<1>1. PICK k : k = [IdleCall EXCEPT !.pc = "gone"]
  OBVIOUS
<1>2. k.op = "none"
  BY <1>1, IdleCallType, IdleFields DEF Call
<1> QED BY <1>1, <1>2, DieVanishes DEF Abort

\* A call of a callback that changes a directory is the call of its mutation.
LEMMA DispatchAsks ==
  ASSUME TInv, NEW t \in Threads, NEW op \in PathOps \cup HandleOps,
         NEW p \in Paths, NEW q \in Paths, NEW flags, Dispatch(t, op, p, q, flags)
  PROVE  Namespace!NNext \/ UNCHANGED Namespace!nvars
<1>1. /\ call \in [Threads -> Call] /\ call[t].pc = "idle"
      /\ call' = [call EXCEPT ![t] = Started(op, p, q, flags, FALSE)]
      /\ UNCHANGED <<tree, late, rpc>>
  BY DEF TInv, TypeOK, Dispatch, serverVars, tree
<1>2. /\ \A u \in Threads \ {t} : call'[u] = call[u]
      /\ call'[t].op = op /\ call'[t].path = p /\ call'[t].to = q /\ call'[t].pc = "start"
  BY <1>1 DEF Started
<1>3. \A u \in Threads \ {t} : Kept(u)
  BY <1>1, <1>2, OthersKept
<1>4. PhaseOf(t) = "idle" /\ WishOf(t) = Namespace!NoWish
  BY <1>1 DEF PhaseOf, WishOf, Unsettled, Mutating, Running, Namespace!NoWish
<1>5. CASE op \in DirChanging
  <2>1. PhaseOf(t)' = "pending" /\ WishOf(t)' = [op |-> op, path |-> p, to |-> q]
    BY <1>2, <1>5 DEF PhaseOf, WishOf, Unsettled, Mutating, Running
  <2>2. [op |-> op, path |-> p, to |-> q] \in Namespace!Wishes
    BY <1>5, SameVocabulary DEF Namespace!Wishes, Namespace!Mutations, DirChanging
  <2>3. [u \in Threads |-> PhaseOf(u)]' = [[u \in Threads |-> PhaseOf(u)] EXCEPT ![t] = "pending"]
    BY <1>3, <2>1 DEF Kept
  <2>4. [u \in Threads |-> WishOf(u)]' =
          [[u \in Threads |-> WishOf(u)] EXCEPT ![t] = [op |-> op, path |-> p, to |-> q]]
    BY <1>3, <2>1 DEF Kept
  <2>5. [u \in Threads |-> PhaseOf(u)][t] = "idle"
    BY <1>4
  <2>6. LateWishes' = LateWishes
    BY <1>1, LateSeen DEF LateWishes
  <2>7. Namespace!Ask(t)
    BY <1>1, <2>2, <2>3, <2>4, <2>5, <2>6
    DEF Namespace!Ask, Namespace!names, tree, PhaseOf, WishOf, LateWishes
  <2> QED BY <2>7, SameVocabulary DEF Namespace!NNext
<1>6. CASE op \notin DirChanging
  <2>1. Kept(t)
    BY <1>2, <1>4, <1>6 DEF Kept, PhaseOf, WishOf, Unsettled, Mutating, Namespace!NoWish
  <2> QED BY <1>1, <1>3, <2>1, NamesStutter
<1> QED BY <1>5, <1>6

LEMMA KernelAsks ==
  ASSUME TInv, NEW t \in Threads, Kernel(t)
  PROVE  Namespace!NNext \/ UNCHANGED Namespace!nvars
<1>1. PICK op \in PathOps \cup HandleOps, p \in Paths, q \in Paths,
           flags \in RenameFlags \cup {"none"} : Dispatch(t, op, p, q, flags)
  <2>1. ASSUME NEW f \in Files, DispatchFile(t, f) \/ DispatchIO(t, f)
        PROVE  \E op \in PathOps \cup HandleOps : Dispatch(t, op, f, f, "none")
    BY <2>1 DEF DispatchFile, DispatchIO, PathOps
  <2>2. ASSUME NEW d \in Dirs, DispatchDir(t, d)
        PROVE  \E op \in PathOps \cup HandleOps : Dispatch(t, op, d, d, "none")
    BY <2>2 DEF DispatchDir, PathOps
  <2>3. ASSUME NEW p \in Paths, NEW q \in Paths, DispatchRename(t, p, q)
        PROVE  \E flags \in RenameFlags : Dispatch(t, "rename", p, q, flags)
    BY <2>3 DEF DispatchRename
  <2>4. "rename" \in PathOps \cup HandleOps
    BY DEF PathOps
  <2> QED BY <2>1, <2>2, <2>3, <2>4 DEF Kernel, Paths
<1> QED BY <1>1, DispatchAsks

\* The return of such a callback is the answer to its mutation.
LEMMA FinishAnswers ==
  ASSUME TInv, NEW t \in Threads, Finish(t)
  PROVE  Namespace!NNext \/ UNCHANGED Namespace!nvars
<1>1. /\ call \in [Threads -> Call] /\ call[t] \in Call /\ call[t].pc = "done"
      /\ UNCHANGED <<tree, late, rpc>> /\ rpc[t].st = "none"
  BY OutstandingThread DEF TInv, TypeOK, Finish, serverVars, tree
<1>2. /\ \A u \in Threads \ {t} : call'[u] = call[u]
      /\ call'[t].op \in {"none", "getattr", "release"}
  BY <1>1, IdleFields DEF Finish, Started
<1>3. \A u \in Threads \ {t} : Kept(u)
  BY <1>1, <1>2, OthersKept
<1>4. PhaseOf(t)' = "idle" /\ WishOf(t)' = Namespace!NoWish
  BY <1>2 DEF PhaseOf, WishOf, Unsettled, Mutating, DirChanging, Namespace!NoWish
<1>5. CASE call[t].op \in DirChanging
  <2>1. PhaseOf(t) = "over" /\ WishOf(t) = Namespace!NoWish
    BY <1>1, <1>5 DEF PhaseOf, WishOf, Unsettled, Mutating, Running, Namespace!NoWish
  <2>2. [u \in Threads |-> PhaseOf(u)]' = [[u \in Threads |-> PhaseOf(u)] EXCEPT ![t] = "idle"]
    BY <1>3, <1>4 DEF Kept
  <2>3. [u \in Threads |-> WishOf(u)]' = [u \in Threads |-> WishOf(u)]
    BY <1>3, <1>4, <2>1 DEF Kept
  <2>4. [u \in Threads |-> PhaseOf(u)][t] = "over"
    BY <2>1
  <2>5. LateWishes' = LateWishes
    BY <1>1, LateSeen DEF LateWishes
  <2>6. Namespace!Answer(t)
    BY <1>1, <2>2, <2>3, <2>4, <2>5
    DEF Namespace!Answer, Namespace!names, tree, PhaseOf, WishOf, LateWishes
  <2> QED BY <2>6, SameVocabulary DEF Namespace!NNext
<1>6. CASE call[t].op \notin DirChanging
  <2>1. Kept(t)
    BY <1>2, <1>6, UnseenThread DEF DirChanging
  <2> QED BY <1>1, <1>3, <2>1, NamesStutter
<1> QED BY <1>5, <1>6

\* A callback that was answered returns, or goes on to open, without a trace.
LEMMA RepliedStutters ==
  ASSUME TInv, NEW t \in Threads, NEW op, Replied(t, op),
         NEW pc \in {"open", "done"}, NEW ret, NEW m, Leave(t, pc, ret, m)
  PROVE  UNCHANGED Namespace!nvars
  BY LeaveStutters DEF Replied

\* Callbacks that change no directory send and leave without a trace, unless
\* their process aborts on an iterator that dangles.
LEMMA HandleStutters ==
  ASSUME TInv, NEW t \in Threads, read(t) \/ write(t) \/ fsync(t)
  PROVE  Namespace!NNext \/ UNCHANGED Namespace!nvars
<1>1. CASE call[t].pc = "start" /\ call[t].op \in HandleOps
  <2>1. rpc[t].st # "replied" /\ call[t].op \notin DirChanging
    BY <1>1, OutstandingThread DEF HandleOps, DirChanging
  <2>2. \/ \E ret, m : Leave(t, "done", ret, m)
        \/ \E op \in RpcOps, itr \in BOOLEAN : \E fh : Send(t, op, fh, itr)
    BY <2>1 DEF read, write, fsync, Replied, Return, Read_File, Write_File_Async, Fsync_File, RpcOps
  <2> QED BY <1>1, <2>1, <2>2, LeaveStutters, SendStutters
<1>2. CASE \E op \in {"Read", "Write_Async", "Fsync"} : Replied(t, op)
  <2>1. call[t].op \notin DirChanging
    BY <1>2, OutstandingThread DEF Replied, IssuedBy, DirChanging
  <2>2. call[t].pc # "start"
    BY <1>2, OutstandingThread DEF Replied
  <2>3. CASE DropStale(t)
    BY <2>1, <2>3, LeaveStutters, AbortVanishes, ThreadClient DEF DropStale
  <2>4. CASE \E ret, m : Leave(t, "done", ret, m)
    BY <2>1, <2>4, LeaveStutters
  <2> QED BY <2>2, <2>3, <2>4 DEF read, write, fsync, At, Return
<1> QED BY <1>1, <1>2 DEF read, write, fsync, At, HandleOps

LEMMA OpenStutters ==
  ASSUME TInv, NEW t \in Threads, open(t)
  PROVE  UNCHANGED Namespace!nvars
<1>1. CASE At(t, "open", "start") \/ call[t].pc = "open"
  <2>1. /\ rpc[t].st = "none"
        /\ call[t].op \in DirChanging => call[t].op = "create" /\ call[t].pc = "open"
    BY <1>1, OutstandingThread DEF At, DirChanging, TInv, ShapeOK, CallShape, HandleOps
  <2>2. CASE Send(t, "Lookup", EmptyHandle, FALSE)
    BY <1>1, <2>1, <2>2, SendStutters DEF At, RpcOps, MutationRpcs
  <2>3. CASE \E m : Leave(t, IF call[t].op \in {"open", "create"} THEN "done" ELSE "start", "zero", m)
    BY <2>1, <2>3, LeaveStutters
  <2>4. ~Replied(t, "Lookup")
    BY <2>1 DEF Replied
  <2> QED BY <2>2, <2>3, <2>4 DEF open, Lookup_File
<1>2. CASE Replied(t, "Lookup")
  <2>1. /\ call[t].op \in DirChanging => call[t].op = "create"
        /\ call[t].pc \notin {"idle", "start", "open"}
        /\ rpc[t].st = "replied"
    BY <1>2, OutstandingThread DEF Replied, IssuedBy, DirChanging, HandleOps
  <2>2. \E m : Leave(t, IF call[t].op \in {"open", "create"} THEN "done" ELSE "start", "zero", m)
    BY <2>1 DEF open, At
  <2> QED BY <2>1, <2>2, LeaveStutters
<1> QED BY <1>1, <1>2 DEF open

LEMMA CallbackImplemented ==
  ASSUME TInv, NEW t \in Threads, Callback(t)
  PROVE  Namespace!NNext \/ UNCHANGED Namespace!nvars
<1>1. ASSUME call[t].pc = "start", call[t].op \notin DirChanging,
             NEW op \in RpcOps, Send(t, op, EmptyHandle, FALSE)
      PROVE  UNCHANGED Namespace!nvars
  BY <1>1, SendStutters
<1>2. ASSUME call[t].pc = "start", NEW op \in MutationRpcs, Send(t, op, EmptyHandle, FALSE)
      PROVE  UNCHANGED Namespace!nvars
  BY <1>2, SendStutters DEF MutationRpcs, RpcOps
<1>3. CASE getattr(t)
  <2>1. CASE At(t, "getattr", "start") /\ Send(t, "Getattr", EmptyHandle, FALSE)
    BY <1>1, <2>1 DEF At, RpcOps, DirChanging
  <2> QED BY <1>3, <2>1, RepliedStutters DEF getattr, Get_File_Attributes, Return
<1>4. CASE readdir(t)
  <2>1. CASE At(t, "readdir", "start") /\ Send(t, "Readdir", EmptyHandle, FALSE)
    BY <1>1, <2>1 DEF At, RpcOps, DirChanging
  <2> QED BY <1>4, <2>1, RepliedStutters DEF readdir, Read_Directory, Return
<1>5. CASE create(t)
  BY <1>2, <1>5, RepliedStutters DEF create, At, Create_File, Return, MutationRpcs
<1>6. CASE unlink(t)
  BY <1>2, <1>6, RepliedStutters DEF unlink, At, Delete_File, Return, MutationRpcs
<1>7. CASE mkdir(t)
  BY <1>2, <1>7, RepliedStutters DEF mkdir, At, Create_Directory, Return, MutationRpcs
<1>8. CASE rmdir(t)
  BY <1>2, <1>8, RepliedStutters DEF rmdir, At, Delete_Directory, Return, MutationRpcs
<1>9. CASE rename(t)
  BY <1>2, <1>9, RepliedStutters DEF rename, At, Rename_File, Return, MutationRpcs
<1> QED
  BY <1>3, <1>4, <1>5, <1>6, <1>7, <1>8, <1>9, HandleStutters, OpenStutters,
     ReconnectStutters DEF Callback

LEMMA NextImplemented ==
  TInv /\ [Next]_vars => [Namespace!NNext]_(Namespace!nvars)
<1> SUFFICES ASSUME TInv, [Next]_vars
             PROVE  Namespace!NNext \/ UNCHANGED Namespace!nvars
  OBVIOUS
<1>1. ASSUME NEW t \in Threads, ClientStep(t)
      PROVE  Namespace!NNext \/ UNCHANGED Namespace!nvars
  BY <1>1, KernelAsks, CallbackImplemented, FinishAnswers DEF ClientStep
<1>2. ASSUME NEW c \in Clients, ClientCrash(c)
      PROVE  Namespace!NNext
  BY <1>2, RemountVanishes DEF ClientCrash
<1>3. CASE UNCHANGED vars
  <2>1. UNCHANGED <<tree, late, rpc, call>>
    BY <1>3 DEF vars, serverVars, clientVars, tree
  <2> QED BY <2>1, AllKept, NamesStutter
<1> QED BY <1>1, <1>2, <1>3, ServerStepImplemented DEF Next

LEMMA InitImplemented == Init => Namespace!NInit
<1> SUFFICES ASSUME Init PROVE Namespace!NInit
  OBVIOUS
<1>1. \A t \in Threads : PhaseOf(t) = "idle" /\ WishOf(t) = Namespace!NoWish
  BY IdleFields DEF Init, PhaseOf, WishOf, Unsettled, Mutating, DirChanging, Namespace!NoWish
<1>2. /\ [t \in Threads |-> PhaseOf(t)] = [t \in Threads |-> "idle"]
      /\ [t \in Threads |-> WishOf(t)] = [t \in Threads |-> Namespace!NoWish]
  BY <1>1
<1>3. /\ entry \in [Files -> Inodes \cup {NoInode}]
      /\ dirs \in SUBSET Dirs
      /\ born = {entry[f] : f \in Files} \ {NoInode}
      /\ LateWishes = {}
  BY DEF Init, ServerInit, LateWishes
<1> QED BY <1>2, <1>3, SameVocabulary DEF Namespace!NInit, PhaseOf, WishOf, LateWishes

\* Every behaviour of the clients and the server is one of NFS_Namespace: with
\* any number of clients and workers, lost connections, stale handles and
\* crashes of either side, a create, unlink, mkdir, rmdir or rename takes effect
\* at most once and in one step, and nothing else changes the tree.  It does so
\* while its callback runs, unless its connection was lost or its client died
\* with the request at the server: then its handler may still do it later.
THEOREM NamespaceImplemented == Spec => MutationsAtMostOnce
<1>1. Init => TInv /\ Namespace!NInit
  BY InitTInv, InitImplemented
<1>2. TInv /\ [Next]_vars => TInv' /\ [Namespace!NNext]_(Namespace!nvars)
  BY NextTInv, NextImplemented
<1> QED BY <1>1, <1>2, PTL DEF Spec, MutationsAtMostOnce, Namespace!NSpec
=============================================================================
