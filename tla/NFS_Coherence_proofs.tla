------------------------ MODULE NFS_Coherence_proofs -------------------------
(***************************************************************************)
(* One client, any number of workers, a flat tree and no fault: handles    *)
(* cached for a path are of that path, no callback makes the server exit,  *)
(* and a callback that reports success has succeeded.  The invariant RInv  *)
(* says what each callback can rely on while the kernel and libfuse hold   *)
(* their locks for it; the lemmas first say what the locks exclude, then   *)
(* that each kind of step (a handler, a stub, a callback, the kernel)      *)
(* keeps what every callback relies on, until one of them erases an        *)
(* iterator that dangles and the process aborts.  From then on (Gone) only *)
(* the handlers it left behind run.                                        *)
(***************************************************************************)
EXTENDS NFS_Client_FS_proofs

LEMMA SameClient ==
  ASSUME OneClient, NEW t \in Threads
  PROVE  /\ Clients = {ClientOf(t)}
         /\ \A u \in Threads : ClientOf(u) = ClientOf(t)
         /\ Peers(t) = Threads \ {t}
  BY ThreadClient DEF OneClient, Peers

\* In a flat tree every file is in the root, and no path is below a file.
LEMMA FlatPaths ==
  ASSUME FlatTree
  PROVE  /\ \A p \in Paths : Parent(p) = Root
         /\ \A p \in Paths : p \in Files \/ p = Root
         /\ Root \notin Files
         /\ \A f \in Files : \A p : Under(p, f) <=> p = f
<1>1. \A f \in Files : Dir(f) = Root
  BY DEF FlatTree, Files, Dir
<1>2. Root \notin Files
  BY ProtoAssumption
<1> QED BY <1>1, <1>2 DEF FlatTree, Paths, Parent, Under

\* What the locks of two callbacks that run together exclude.
LEMMA LockedOut ==
  ASSUME RInv, Alone, NEW t \in Threads, NEW u \in Threads, t # u, Running(t), Running(u)
  PROVE  /\ call[t].op \in TreeLocking => NamesOf(t) \cap NamesOf(u) = {}
         /\ call[t].op \in DirChanging => call[u].op \notin DirChanging
         /\ call[t].op \in DirChanging /\ call[u].op = "getattr" => call[t].path # call[u].path
         /\ call[t].op = "release" /\ call[u].op \in HandleOps => call[t].path # call[u].path
<1>1. ~Excludes(call[t].op, NamesOf(t), call[u].op, NamesOf(u))
  BY SameClient DEF RInv, Relies, LocksHeld, Alone
<1>2. NamesOf(t) \subseteq Paths /\ NamesOf(u) \subseteq Paths
  BY DEF RInv, TInv, TypeOK, NamesOf, Call
<1>3. \A p \in Paths : Parent(p) = Root /\ Under(p, p)
  BY FlatPaths DEF Under, Alone
<1>4. call[t].path \in NamesOf(t) /\ call[u].path \in NamesOf(u)
  BY DEF NamesOf
<1>5. call[t].op \in TreeLocking => NamesOf(t) \cap NamesOf(u) = {}
  BY <1>1, <1>2, <1>3 DEF Excludes, Overlaps
<1>6. call[t].op \in DirChanging => call[u].op \notin DirChanging
  BY <1>1, <1>2, <1>3, <1>4 DEF Excludes
<1>7. call[t].op \in DirChanging /\ call[u].op = "getattr" => call[t].path # call[u].path
  BY <1>1, <1>4 DEF Excludes
<1>8. call[t].op = "release" /\ call[u].op \in HandleOps => call[t].path # call[u].path
  BY <1>1, <1>4 DEF Excludes, HandleOps
<1> QED BY <1>5, <1>6, <1>7, <1>8

\* A callback is running exactly when it has a name.
LEMMA RunningOp ==
  ASSUME RInv, NEW t \in Threads
  PROVE  Running(t) <=> call[t].op # "none"
  BY DEF RInv, Relies, CallRelies, Running

\* A file that a callback is about to change is of no other callback.
LEMMA OwnNames ==
  ASSUME RInv, Alone, NEW t \in Threads, NEW u \in Threads, t # u, Running(t), Running(u),
         \/ call[t].op \in {"unlink", "rename"}
         \/ call[t].op = "create" /\ ~Over(t)
  PROVE  \A f \in Files : f \in NamesOf(t) => f \notin NamesOf(u)
<1>1. CASE call[t].op \in TreeLocking
  BY <1>1, LockedOut
<1>2. CASE call[t].op = "create" /\ ~Over(t)
  <2> DEFINE f == call[t].path
  <2>1. /\ CallRelies(t) /\ CallRelies(u) /\ CallShape(call[t]) /\ CallShape(call[u])
        /\ call[u] \in Call
    BY DEF RInv, TInv, TypeOK, ShapeOK, Relies
  <2>2. f \in Files /\ entry[f] = NoInode /\ call[t].to = f
    BY <1>2, <2>1 DEF CallRelies, CallShape
  <2>3. call[u].op \notin DirChanging /\ (call[u].op = "getattr" => call[u].path # f)
    BY <1>2, LockedOut DEF DirChanging
  <2>4. call[u].op \in {"open"} \cup HandleOps => call[u].path # f
    BY <2>1, <2>2 DEF CallRelies
  <2>5. call[u].op = "readdir" => call[u].path # f
    BY <2>1, <2>2, ProtoAssumption DEF CallShape
  <2>6. call[u].op \in PathOps \cup HandleOps
    BY <2>1, RunningOp DEF Call
  <2>7. call[u].to = call[u].path /\ call[u].path # f
    BY <2>1, <2>3, <2>4, <2>5, <2>6 DEF CallRelies, PathOps, DirChanging
  <2> QED BY <2>2, <2>7 DEF NamesOf
<1> QED BY <1>1, <1>2 DEF TreeLocking

-----------------------------------------------------------------------------
(* Steps of the server.                                                    *)

\* The paths of the tree that are there, when only files come and go.
LEMMA PresentKept ==
  ASSUME RInv, UNCHANGED dirs, NEW p \in Paths, p \in Files => entry'[p] = entry[p]
  PROVE  Present(p)' <=> Present(p)
  BY DEF Present, Paths

\* A handler answers t, and changes no file but those t is changing.
LEMMA ServedRelies ==
  ASSUME RInv, Alone, UNCHANGED clientVars, UNCHANGED <<dirs, up, late>>, NEW t \in Threads,
         \A u \in Threads \ {t} : rpc'[u] = rpc[u],
         \A f \in Files : entry'[f] # entry[f] => Touches(t, f),
         \A u \in Threads \ {t} : Running(u) =>
            \A f \in Files : f \in NamesOf(u) => entry'[f] = entry[f],
         TreeSound', CallRelies(t)', RpcRelies(t)',
         \A f \in Files : HandleRelies(f, file_handle_map_[ClientOf(t)][f])'
  PROVE  Relies'
<1>1. call' = call /\ file_handle_map_' = file_handle_map_ /\ dentry' = dentry /\ opened' = opened
  BY DEF clientVars
<1>2. Relies /\ up' /\ late' = {}
  BY DEF RInv, Relies
<1>3. LocksHeld'
  BY <1>1, <1>2 DEF Relies, LocksHeld, Running, NamesOf, Peers
<1>4. ASSUME NEW u \in Threads \ {t}
      PROVE  CallRelies(u)' /\ RpcRelies(u)'
  <2> DEFINE k == call[u]
  <2>1. /\ k \in Call /\ CallRelies(u) /\ RpcRelies(u) /\ CallShape(k) /\ RpcShape(k, rpc[u])
        /\ rpc[u] \in Rpc
    BY <1>2 DEF RInv, TInv, TypeOK, ServerTypeOK, ShapeOK, Relies
  <2>2. Over(u)' <=> Over(u)
    BY <1>1 DEF Over, Mutating, Unsettled, Running
  <2>3. CASE Running(u)
    <3>1. \A p \in NamesOf(u) : p \in Paths /\ (p \in Files => entry'[p] = entry[p])
      BY <2>1, <2>3 DEF NamesOf, Call
    <3>2. \A p \in NamesOf(u) : Present(p)' <=> Present(p)
      BY <3>1, PresentKept
    <3>3. /\ k.path \in NamesOf(u) /\ k.to \in NamesOf(u)
          /\ rpc[u].st # "none" => rpc[u].path = k.path
      BY <2>1 DEF NamesOf, RpcShape
    <3>4. k.op \in {"open", "create", "unlink", "rename"} \cup HandleOps => entry'[k.path] = entry[k.path]
      BY <2>1, <3>1, <3>3 DEF CallShape, CallRelies
    <3>5. k.op = "rename" => entry'[k.to] = entry[k.to]
      BY <2>1, <3>1, <3>3 DEF CallRelies
    <3>6. CallRelies(u)'
      BY <1>1, <2>1, <2>2, <3>2, <3>3, <3>4, <3>5 DEF CallRelies
    <3>7. rpc[u].st # "none" /\ rpc[u].op = "Lookup" => k.op \in {"open", "create"} \cup HandleOps
      BY <2>1 DEF RpcShape, IssuedBy
    <3>8. RpcRelies(u)'
      BY <1>1, <2>1, <3>2, <3>3, <3>4, <3>7 DEF RpcRelies
    <3> QED BY <3>6, <3>8
  <2>4. CASE ~Running(u)
    <3>1. k.op = "none" /\ k.pc = "idle" /\ rpc[u].st = "none" /\ ~k.chain
      BY <2>1, <2>4 DEF Running, CallRelies, RpcShape
    <3>2. CallRelies(u)'
      BY <1>1, <2>1, <3>1 DEF CallRelies, HandleOps
    <3>3. RpcRelies(u)'
      BY <3>1 DEF RpcRelies
    <3> QED BY <3>2, <3>3
  <2> QED BY <2>3, <2>4
<1>5. ASSUME NEW c \in Clients
      PROVE  NamesRely(c)'
  <2>1. \A u \in Threads, f \in Files : Touches(u, f)' <=> Touches(u, f)
    BY <1>1 DEF Touches, NamesOf
  <2> QED BY <1>1, <1>2, <2>1 DEF NamesRely, Relies
<1>6. \A c \in Clients : c = ClientOf(t)
  BY SameClient DEF Alone
<1> QED BY <1>2, <1>3, <1>4, <1>5, <1>6 DEF Relies

LEMMA ReplyFields ==
  ASSUME RInv, NEW t \in Threads, rpc[t].st = "sent", NEW s, NEW h, NEW d, Reply(t, s, h, d)
  PROVE  /\ \A u \in Threads \ {t} : rpc'[u] = rpc[u]
         /\ rpc'[t].st = "replied" /\ rpc'[t].op = rpc[t].op
         /\ rpc'[t].path = rpc[t].path /\ rpc'[t].status = s
         /\ rpc'[t].fh = IF s = "OK" THEN h ELSE EmptyHandle
         /\ rpc'[t].data = IF s = "OK" THEN d ELSE 0
<1>1. rpc \in [Threads -> Rpc] /\ rpc[t] \in Rpc
  BY DEF RInv, TInv, TypeOK, ServerTypeOK
<1>2. rpc' = [rpc EXCEPT ![t] = Answer(rpc[t], s, h, d)]
  BY DEF Reply
<1>3. rpc'[t] = Answer(rpc[t], s, h, d) /\ \A u \in Threads \ {t} : rpc'[u] = rpc[u]
  BY <1>1, <1>2
<1> QED BY <1>1, <1>3 DEF Answer, Rpc

\* The callback behind a request that the server executes.
LEMMA RequestFacts ==
  ASSUME RInv, NEW t \in Threads, rpc[t].st # "none"
  PROVE  /\ call[t] \in Call /\ rpc[t] \in Rpc
         /\ CallShape(call[t]) /\ CallRelies(t) /\ RpcRelies(t)
         /\ Running(t) /\ call[t].pc = "rpc" /\ IssuedBy(rpc[t].op, call[t].op)
         /\ rpc[t].path = call[t].path /\ rpc[t].to = call[t].to
         /\ call[t].op \in DirChanging => (Over(t) <=> ~(rpc[t].st = "sent" /\ rpc[t].op \in MutationRpcs))
         /\ file_handle_map_[ClientOf(t)] \in [Paths -> Handles \cup {NoEntry}]
<1>1. /\ call[t] \in Call /\ rpc[t] \in Rpc
      /\ CallShape(call[t]) /\ CallRelies(t) /\ RpcRelies(t) /\ RpcShape(call[t], rpc[t])
      /\ file_handle_map_ \in [Clients -> [Paths -> Handles \cup {NoEntry}]]
  BY DEF RInv, TInv, TypeOK, ServerTypeOK, ShapeOK, Relies
<1>2. call[t].pc = "rpc"
  BY <1>1 DEF RpcShape, CallRelies
<1> QED BY <1>1, <1>2, ThreadClient DEF RpcShape, Running, Over, Mutating, Unsettled

\* An answer that comes with no change of the tree.
LEMMA QuietReply ==
  ASSUME RInv, Alone, UNCHANGED clientVars, UNCHANGED <<tree, up, late>>, NEW t \in Threads,
         rpc[t].st = "sent", NEW s, NEW h, NEW d, Reply(t, s, h, d),
         s # "UNAVAILABLE", s = "OK" => d = 0,
         rpc[t].op \notin {"CreateFile", "DeleteFile", "RenameFile"},
         rpc[t].op = "Lookup" => s = "OK" /\ h = entry[rpc[t].path],
         rpc[t].op = "Getattr" => (s = "OK" <=> Present(rpc[t].path))
  PROVE  Relies'
<1>1. /\ \A u \in Threads \ {t} : rpc'[u] = rpc[u]
      /\ rpc'[t].st = "replied" /\ rpc'[t].op = rpc[t].op
      /\ rpc'[t].path = rpc[t].path /\ rpc'[t].status = s
      /\ rpc'[t].fh = IF s = "OK" THEN h ELSE EmptyHandle
      /\ rpc'[t].data = 0
  BY ReplyFields
<1>2. /\ CallRelies(t) /\ IssuedBy(rpc[t].op, call[t].op) /\ rpc[t] \in Rpc /\ call[t].op # "rmdir"
      /\ Running(t)
  BY RequestFacts DEF CallRelies
<1>3. call' = call /\ file_handle_map_' = file_handle_map_ /\ dentry' = dentry /\ opened' = opened
      /\ entry' = entry /\ dirs' = dirs /\ born' = born
  BY DEF clientVars, tree
<1>4. call[t].op \in {"create", "unlink", "rename"} => rpc[t].op = "Lookup"
  BY <1>2 DEF IssuedBy, Rpc, RpcOps, HandleOps
<1>5. \A u \in Threads : call[u].op \in {"create", "unlink", "rename"} => (Over(u)' <=> Over(u))
  BY <1>1, <1>3, <1>4 DEF Over, Mutating, Unsettled, MutationRpcs, Running
<1>6. CallRelies(t)'
  BY <1>2, <1>3, <1>5 DEF CallRelies, Present
<1>7. RpcRelies(t)'
  BY <1>1, <1>3 DEF RpcRelies, Present
<1>8. ASSUME NEW f \in Files
      PROVE  HandleRelies(f, file_handle_map_[ClientOf(t)][f])'
  <2>1. HandleRelies(f, file_handle_map_[ClientOf(t)][f])
    BY ThreadClient DEF RInv, Relies
  <2>2. \A u \in Threads : Following(u, f)' <=> Following(u, f)
    BY <1>3, <1>5 DEF Following
  <2> QED BY <1>3, <2>1, <2>2 DEF HandleRelies, Linked
<1>9. TreeSound'
  BY <1>3 DEF RInv, Relies, TreeSound
<1> QED BY <1>1, <1>3, <1>6, <1>7, <1>8, <1>9, ServedRelies

\* With no fault left, the handlers that only answer.
LEMMA AnswerRelies ==
  ASSUME RInv, Alone, UNCHANGED clientVars, NEW t \in Threads,
         \/ Lookup(t) \/ Read(t) \/ Write_Async(t) \/ Fsync(t)
         \/ Readdir(t) \/ Getattr(t) \/ CreateDirectory(t) \/ DeleteDirectory(t)
  PROVE  Relies'
<1>1. rpc[t].st = "sent"
  BY DEF Lookup, Read, Write_Async, Fsync, Readdir, Getattr, CreateDirectory,
         DeleteDirectory, Requested
<1>2. /\ CallRelies(t) /\ RpcRelies(t) /\ CallShape(call[t]) /\ IssuedBy(rpc[t].op, call[t].op)
      /\ rpc[t].path = call[t].path
      /\ call[t].op \in DirChanging =>
            (Over(t) <=> ~(rpc[t].st = "sent" /\ rpc[t].op \in MutationRpcs))
  BY <1>1, RequestFacts
<1>3. Dirs = {Root} /\ Root \in dirs /\ ~(faults < MaxFaults) /\ dirs \subseteq Dirs
  BY DEF RInv, TInv, TypeOK, ServerTypeOK, Relies, TreeSound, Alone, FlatTree
<1>4. CASE Lookup(t)
  <2>1. entry[rpc[t].path] # NoInode
    BY <1>2, <1>4 DEF Lookup, Requested, IssuedBy, CallRelies, DirChanging, MutationRpcs
  <2> QED BY <1>1, <1>4, <2>1, QuietReply DEF Lookup, Requested, tree
<1>5. CASE Read(t) \/ Write_Async(t) \/ Fsync(t)
  <2>1. rpc[t].fh # EmptyHandle
    BY <1>1, <1>2, <1>5, ProtoAssumption DEF Read, Write_Async, Fsync, Requested, RpcRelies, HandleRpcs
  <2>2. open_by_handle_at(t)
    BY <1>3, <1>5, <2>1 DEF Read, Write_Async, Fsync, open_mount_path_by_id
  <2>3. rpc[t].op \in {"Read", "Write_Async", "Fsync"}
    BY <1>5 DEF Read, Write_Async, Fsync, Requested
  <2> QED BY <1>1, <2>2, <2>3, QuietReply DEF open_by_handle_at, tree
<1>6. CASE Readdir(t)
  <2>1. Present(rpc[t].path)
    BY <1>2, <1>3, <1>6 DEF Readdir, Requested, IssuedBy, CallShape, Present
  <2> QED BY <1>1, <1>6, <2>1, QuietReply DEF Readdir, Requested, tree
<1>7. CASE Getattr(t)
  BY <1>1, <1>7, QuietReply DEF Getattr, Requested, tree
<1>8. CASE CreateDirectory(t)
  <2>1. rpc[t].path \in dirs /\ rpc[t].op = "CreateDirectory"
    BY <1>2, <1>3, <1>8 DEF CreateDirectory, Requested, IssuedBy, CallShape
  <2>2. UNCHANGED <<tree, up, late>> /\ Reply(t, "CANCELLED", EmptyHandle, -1)
    BY <1>8, <2>1 DEF CreateDirectory, MakeDirectory, tree
  <2> QED BY <1>1, <2>1, <2>2, QuietReply
<1>9. CASE DeleteDirectory(t)
  BY <1>2, <1>9 DEF DeleteDirectory, Requested, IssuedBy, CallRelies
<1> QED BY <1>4, <1>5, <1>6, <1>7, <1>8, <1>9

\* While t changes the tree, no other callback has a handle to move.
LEMMA OneFollowing ==
  ASSUME RInv, Alone, NEW t \in Threads, Running(t), call[t].op \in DirChanging,
         NEW u \in Threads, NEW f, Following(u, f)
  PROVE  u = t
  BY LockedOut DEF Following, Over, Mutating

\* What is left to show of a handler that changes the tree for t.
LEMMA EffectRelies ==
  ASSUME RInv, Alone, UNCHANGED clientVars, UNCHANGED <<dirs, up, late>>, NEW t \in Threads,
         rpc[t].st = "sent", rpc[t].op \in {"CreateFile", "DeleteFile", "RenameFile"},
         Reply(t, "OK", EmptyHandle, 0),
         \A f \in Files : entry'[f] # entry[f] => f \in NamesOf(t),
         TreeSound',
         entry'[call[t].path] = NoInode <=> call[t].op # "create",
         call[t].op = "rename" => entry'[call[t].to] # NoInode,
         \A f \in Files : HandleRelies(f, file_handle_map_[ClientOf(t)][f])'
  PROVE  Relies'
<1>1. /\ \A u \in Threads \ {t} : rpc'[u] = rpc[u]
      /\ rpc'[t].st = "replied" /\ rpc'[t].op = rpc[t].op /\ rpc'[t].data = 0
      /\ rpc'[t].status = "OK"
  BY ReplyFields
<1>2. /\ CallRelies(t) /\ CallShape(call[t]) /\ IssuedBy(rpc[t].op, call[t].op)
      /\ Running(t) /\ call[t].pc = "rpc"
      /\ call[t].op \in DirChanging => ~Over(t)
  BY RequestFacts DEF MutationRpcs
<1>3. call[t].op \in {"create", "unlink", "rename"}
  BY <1>2 DEF IssuedBy
<1>4. call' = call /\ dentry' = dentry /\ opened' = opened
  BY DEF clientVars
<1>5. Over(t)'
  BY <1>1, <1>2, <1>3, <1>4 DEF Over, Mutating, Unsettled, Running, DirChanging
<1>6. CallRelies(t)'
  BY <1>2, <1>3, <1>4, <1>5 DEF CallRelies, HandleOps
<1>7. RpcRelies(t)'
  BY <1>1 DEF RpcRelies
<1>8. \A f \in Files : entry'[f] # entry[f] => Touches(t, f)
  BY <1>3 DEF Touches
<1>9. ASSUME NEW u \in Threads \ {t}, Running(u), NEW f \in Files, f \in NamesOf(u)
      PROVE  entry'[f] = entry[f]
  BY <1>2, <1>3, <1>9, OwnNames DEF DirChanging
<1> QED BY <1>1, <1>6, <1>7, <1>8, <1>9, ServedRelies

LEMMA CreateRelies ==
  ASSUME RInv, Alone, UNCHANGED clientVars, NEW t \in Threads, CreateFile(t)
  PROVE  Relies'
<1> DEFINE p == call[t].path
<1>1. /\ rpc[t].st = "sent" /\ rpc[t].op = "CreateFile" /\ rpc[t].path = p
      /\ call[t].op = "create" /\ p \in Files /\ CallRelies(t) /\ Running(t) /\ ~Over(t)
  BY RequestFacts DEF CreateFile, Requested, IssuedBy, CallShape, DirChanging, MutationRpcs
<1>2. /\ entry \in [Files -> Inodes \cup {NoInode}] /\ born \subseteq Inodes /\ TreeSound
      /\ NoInode \notin Inodes /\ Dirs = {Root}
  BY ProtoAssumption DEF RInv, TInv, TypeOK, ServerTypeOK, Relies, Alone, FlatTree
<1>3. entry[p] = NoInode /\ HasParent(p)
  BY <1>1, <1>2 DEF CallRelies, HasParent, TreeSound, Files, Dir
<1>4. PICK i \in Inodes \ born : /\ entry' = [entry EXCEPT ![p] = i]
                                 /\ born' = born \cup {i}
                                 /\ UNCHANGED <<dirs, up, late>>
                                 /\ Reply(t, "OK", EmptyHandle, 0)
  BY <1>1, <1>3 DEF CreateFile, MakeFile
<1>5. \A f \in Files : entry'[f] = IF f = p THEN i ELSE entry[f]
  BY <1>2, <1>4
<1>6. TreeSound'
  BY <1>2, <1>4, <1>5 DEF TreeSound
<1>7. ASSUME NEW f \in Files
      PROVE  HandleRelies(f, file_handle_map_[ClientOf(t)][f])'
  <2> DEFINE h == file_handle_map_[ClientOf(t)][f]
  <2>1. HandleRelies(f, h) /\ file_handle_map_' = file_handle_map_
    BY ThreadClient DEF RInv, Relies, clientVars
  <2>2. SUFFICES ASSUME h # NoEntry, Linked(h)' PROVE entry'[f] = h /\ h \in born
    BY <1>4, <2>1 DEF HandleRelies
  <2>3. h \in born /\ h # NoInode /\ h # i
    BY <1>2, <2>1, <2>2 DEF HandleRelies
  <2>4. Linked(h)
    BY <1>5, <2>2, <2>3, <2>1 DEF Linked
  <2>5. ~ \E u \in Threads : Following(u, f)
    BY <1>1, OneFollowing DEF DirChanging, Following
  <2> QED BY <1>3, <1>5, <2>1, <2>2, <2>3, <2>4, <2>5 DEF HandleRelies
<1>8. /\ \A f \in Files : entry'[f] # entry[f] => f \in NamesOf(t)
      /\ entry'[p] # NoInode
  BY <1>1, <1>2, <1>5 DEF NamesOf
<1> QED BY <1>1, <1>4, <1>6, <1>7, <1>8, EffectRelies

LEMMA DeleteRelies ==
  ASSUME RInv, Alone, UNCHANGED clientVars, NEW t \in Threads, DeleteFile(t)
  PROVE  Relies'
<1> DEFINE p == call[t].path
<1>1. /\ rpc[t].st = "sent" /\ rpc[t].op = "DeleteFile" /\ rpc[t].path = p
      /\ call[t].op = "unlink" /\ p \in Files /\ CallRelies(t) /\ Running(t) /\ ~Over(t)
  BY RequestFacts DEF DeleteFile, Requested, IssuedBy, CallShape, DirChanging, MutationRpcs
<1>2. entry \in [Files -> Inodes \cup {NoInode}] /\ born \subseteq Inodes /\ TreeSound
      /\ NoInode \notin Inodes
  BY ProtoAssumption DEF RInv, TInv, TypeOK, ServerTypeOK, Relies
<1>3. entry[p] # NoInode
  BY <1>1 DEF CallRelies
<1>4. /\ entry' = [entry EXCEPT ![p] = NoInode]
      /\ UNCHANGED <<dirs, up, born, late>>
      /\ Reply(t, "OK", EmptyHandle, 0)
  BY <1>1, <1>3 DEF DeleteFile, RemoveFile
<1>5. \A f \in Files : entry'[f] = IF f = p THEN NoInode ELSE entry[f]
  BY <1>2, <1>4
<1>6. TreeSound'
  BY <1>2, <1>4, <1>5 DEF TreeSound
<1>7. ASSUME NEW f \in Files
      PROVE  HandleRelies(f, file_handle_map_[ClientOf(t)][f])'
  <2> DEFINE h == file_handle_map_[ClientOf(t)][f]
  <2>1. HandleRelies(f, h) /\ file_handle_map_' = file_handle_map_
    BY ThreadClient DEF RInv, Relies, clientVars
  <2>2. SUFFICES ASSUME h # NoEntry, Linked(h)' PROVE entry'[f] = h /\ h \in born
    BY <1>4, <2>1 DEF HandleRelies
  <2>3. h \in born /\ h # NoInode
    BY <1>2, <2>1, <2>2 DEF HandleRelies
  <2>4. PICK g \in Files : g # p /\ entry[g] = h
    BY <1>5, <2>2, <2>3, <2>1 DEF Linked
  <2>5. ~ \E u \in Threads : Following(u, f)
    BY <1>1, OneFollowing DEF DirChanging, Following
  <2>6. entry[f] = h
    BY <2>1, <2>2, <2>4, <2>5 DEF HandleRelies, Linked
  <2>7. f # p
    BY <1>2, <2>3, <2>4, <2>6 DEF TreeSound
  <2> QED BY <1>5, <2>3, <2>6, <2>7
<1>8. /\ \A f \in Files : entry'[f] # entry[f] => f \in NamesOf(t)
      /\ entry'[p] = NoInode
  BY <1>1, <1>5 DEF NamesOf
<1> QED BY <1>1, <1>4, <1>6, <1>7, <1>8, EffectRelies

LEMMA RenameRelies ==
  ASSUME RInv, Alone, UNCHANGED clientVars, NEW t \in Threads, RenameFile(t)
  PROVE  Relies'
<1> DEFINE p == call[t].path
           q == call[t].to
<1>1. /\ rpc[t].st = "sent" /\ rpc[t].op = "RenameFile" /\ rpc[t].path = p /\ rpc[t].to = q
      /\ call[t].op = "rename" /\ CallRelies(t) /\ Running(t) /\ ~Over(t) /\ call[t].pc = "rpc"
  BY RequestFacts DEF RenameFile, Requested, IssuedBy, CallShape, DirChanging, MutationRpcs
<1>2. /\ entry \in [Files -> Inodes \cup {NoInode}] /\ born \subseteq Inodes /\ TreeSound
      /\ NoInode \notin Inodes /\ Dirs = {Root}
  BY ProtoAssumption DEF RInv, TInv, TypeOK, ServerTypeOK, Relies, Alone, FlatTree
<1>3. /\ p \in Files /\ q \in Files /\ p # q /\ entry[p] # NoInode
      /\ p \notin Dirs /\ q \notin Dirs
  BY <1>1, ProtoAssumption DEF CallRelies
<1>4. Renamable(p, q)
  BY <1>2, <1>3 DEF Renamable, Present, HasParent, TreeSound, Files, Dir
<1>5. /\ entry' = [f \in Files |-> IF Under(f, q) THEN entry[Image(f, q, p)]
                                   ELSE IF Under(f, p) THEN NoInode ELSE entry[f]]
      /\ UNCHANGED <<dirs, up, born, late>>
      /\ Reply(t, "OK", EmptyHandle, 0)
  BY <1>1, <1>3, <1>4 DEF RenameFile, Move
<1>6. \A f \in Files : entry'[f] = IF f = q THEN entry[p] ELSE IF f = p THEN NoInode ELSE entry[f]
  BY <1>3, <1>5, FlatPaths DEF Alone, Image
<1>7. TreeSound'
  BY <1>2, <1>3, <1>5, <1>6 DEF TreeSound
<1>8. Over(t)' /\ call' = call
  BY <1>1, ReplyFields, <1>5 DEF Over, Mutating, Unsettled, Running, DirChanging, clientVars
<1>9. ASSUME NEW f \in Files
      PROVE  HandleRelies(f, file_handle_map_[ClientOf(t)][f])'
  <2> DEFINE h == file_handle_map_[ClientOf(t)][f]
  <2>1. HandleRelies(f, h) /\ file_handle_map_' = file_handle_map_
    BY ThreadClient DEF RInv, Relies, clientVars
  <2>2. SUFFICES ASSUME h # NoEntry, Linked(h)'
                 PROVE  h \in born /\ (entry'[f] = h \/ (Following(t, f)' /\ entry'[q] = h))
    BY <1>5, <1>8, <2>1 DEF HandleRelies
  <2>3. h \in born /\ h # NoInode
    BY <1>2, <2>1, <2>2 DEF HandleRelies
  <2>4. PICK g \in Files : g # q /\ entry[g] = h
    BY <1>3, <1>6, <2>2, <2>3, <2>1 DEF Linked
  <2>5. ~ \E u \in Threads : Following(u, f)
    BY <1>1, OneFollowing DEF DirChanging, Following
  <2>6. entry[f] = h
    BY <2>1, <2>2, <2>4, <2>5 DEF HandleRelies, Linked
  <2>7. f # q
    BY <1>2, <2>3, <2>4, <2>6 DEF TreeSound
  <2>8. CASE f = p
    BY <1>1, <1>6, <1>8, <2>3, <2>6, <2>8, <1>3 DEF Following
  <2> QED BY <1>6, <2>3, <2>6, <2>7, <2>8
<1>10. /\ \A f \in Files : entry'[f] # entry[f] => f \in NamesOf(t)
       /\ entry'[p] = NoInode /\ entry'[q] # NoInode
  BY <1>3, <1>6 DEF NamesOf
<1> QED BY <1>1, <1>5, <1>7, <1>9, <1>10, EffectRelies

LEMMA ServerStepRelies ==
  ASSUME RInv, Alone, ServerStep
  PROVE  Relies'
<1>1. UNCHANGED clientVars /\ up /\ late = {} /\ ~(faults < MaxFaults)
  BY DEF ServerStep, RInv, TInv, TypeOK, ServerTypeOK, Relies, Alone
<1>2. PICK t \in Threads : Serve(t)
  BY <1>1 DEF ServerStep, Refuse, LoseRpc, RpcUnavailable, ServerCrash, RunServer
<1> QED BY <1>1, <1>2, AnswerRelies, CreateRelies, DeleteRelies, RenameRelies DEF Serve

-----------------------------------------------------------------------------
(* Steps of a callback.                                                    *)

LEMMA CallbackFacts ==
  ASSUME RInv, NEW t \in Threads
  PROVE  /\ call[t] \in Call /\ rpc[t] \in Rpc
         /\ call \in [Threads -> Call] /\ rpc \in [Threads -> Rpc]
         /\ CallShape(call[t]) /\ RpcShape(call[t], rpc[t])
         /\ CallRelies(t) /\ RpcRelies(t) /\ NamesRely(ClientOf(t))
         /\ file_handle_map_ \in [Clients -> [Paths -> Handles \cup {NoEntry}]]
         /\ Map(t) \in [Paths -> Handles \cup {NoEntry}]
         /\ \A f \in Files : HandleRelies(f, Map(t)[f])
  BY ThreadClient DEF RInv, TInv, TypeOK, ServerTypeOK, ShapeOK, Relies, Map

\* Another thread's callback, when t takes a step of its own.
LEMMA BystanderKept ==
  ASSUME RInv, NEW u \in Threads, rpc'[u] = rpc[u],
         call'[u] = call[u] \/ call'[u] = [call[u] EXCEPT !.itr = FALSE]
  PROVE  /\ call'[u].op = call[u].op /\ call'[u].path = call[u].path
         /\ call'[u].to = call[u].to /\ call'[u].pc = call[u].pc
         /\ call'[u].chain = call[u].chain /\ call'[u].ret = call[u].ret
         /\ call'[u].flags = call[u].flags
         /\ Over(u)' <=> Over(u)
<1>1. call[u] \in Call
  BY CallbackFacts
<1>2. /\ call'[u].op = call[u].op /\ call'[u].path = call[u].path
      /\ call'[u].to = call[u].to /\ call'[u].pc = call[u].pc
      /\ call'[u].chain = call[u].chain /\ call'[u].ret = call[u].ret
      /\ call'[u].flags = call[u].flags
  BY <1>1 DEF Call
<1> QED BY <1>2 DEF Over, Mutating, Unsettled, Running

\* The callback of t goes on; the kernel and the server are not concerned.
LEMMA CallStepRelies ==
  ASSUME RInv, Alone, NEW t \in Threads, UNCHANGED <<tree, up, late, dentry, opened>>,
         \A u \in Threads \ {t} :
            /\ rpc'[u] = rpc[u]
            /\ call'[u] = call[u] \/ call'[u] = [call[u] EXCEPT !.itr = FALSE],
         call'[t].op = call[t].op, call'[t].path = call[t].path,
         call'[t].to = call[t].to, call'[t].chain = call[t].chain,
         call[t].pc # "idle",
         CallRelies(t)', RpcRelies(t)',
         \A f \in Files : HandleRelies(f, file_handle_map_[ClientOf(t)][f])'
  PROVE  Relies'
<1>1. entry' = entry /\ dirs' = dirs /\ born' = born /\ dentry' = dentry /\ opened' = opened
  BY DEF tree
<1>2. Relies /\ up' /\ late' = {} /\ TreeSound'
  BY <1>1 DEF RInv, Relies, TreeSound
<1>3. \A u \in Threads : /\ call'[u].op = call[u].op /\ call'[u].path = call[u].path
                         /\ call'[u].to = call[u].to /\ call'[u].chain = call[u].chain
                         /\ Running(u)' => Running(u)
  BY BystanderKept, CallbackFacts DEF Running, CallRelies
<1>4. LocksHeld'
  BY <1>2, <1>3 DEF Relies, LocksHeld, NamesOf, Peers
<1>5. ASSUME NEW u \in Threads \ {t}
      PROVE  CallRelies(u)' /\ RpcRelies(u)'
  <2>1. CallRelies(u) /\ RpcRelies(u)
    BY CallbackFacts
  <2>2. /\ call'[u].op = call[u].op /\ call'[u].path = call[u].path
        /\ call'[u].to = call[u].to /\ call'[u].pc = call[u].pc
        /\ call'[u].chain = call[u].chain /\ call'[u].ret = call[u].ret
        /\ call'[u].flags = call[u].flags
        /\ Over(u)' <=> Over(u)
    BY BystanderKept
  <2>3. CallRelies(u)'
    BY <1>1, <2>1, <2>2 DEF CallRelies, Present
  <2>4. RpcRelies(u)'
    BY <1>1, <2>1 DEF RpcRelies, Present
  <2> QED BY <2>3, <2>4
<1>6. ASSUME NEW c \in Clients
      PROVE  NamesRely(c)'
  <2>1. \A u \in Threads, f \in Files : Touches(u, f)' <=> Touches(u, f)
    BY <1>3 DEF Touches, NamesOf
  <2> QED BY <1>1, <1>2, <2>1 DEF NamesRely, Relies
<1>7. \A c \in Clients : c = ClientOf(t)
  BY SameClient DEF Alone
<1> QED BY <1>2, <1>4, <1>5, <1>6, <1>7 DEF Relies

LEMMA SendRelies ==
  ASSUME RInv, Alone, NEW t \in Threads, NEW op \in RpcOps, NEW fh, NEW itr \in BOOLEAN,
         call[t].pc \in {"start", "open"},
         call[t].op \in DirChanging => (call[t].pc = "start" <=> op \in MutationRpcs),
         op \in HandleRpcs => fh \in Inodes,
         Send(t, op, fh, itr)
  PROVE  Relies'
<1>1. /\ call \in [Threads -> Call] /\ rpc \in [Threads -> Rpc] /\ call[t] \in Call
      /\ CallRelies(t) /\ RpcShape(call[t], rpc[t])
  BY CallbackFacts
<1>2. /\ rpc' = [rpc EXCEPT ![t] =
               [NoRpc EXCEPT !.st = "sent", !.op = op, !.path = call[t].path,
                             !.to = call[t].to, !.flags = call[t].flags, !.fh = fh]]
      /\ call' = [call EXCEPT ![t] = [[call[t] EXCEPT !.pc = "rpc"] EXCEPT !.itr = itr]]
      /\ UNCHANGED <<tree, up, late, dentry, opened>> /\ file_handle_map_' = file_handle_map_
  BY <1>1 DEF Send
<1>3. \A u \in Threads \ {t} : rpc'[u] = rpc[u] /\ call'[u] = call[u]
  BY <1>1, <1>2
<1>4. rpc'[t].st = "sent" /\ rpc'[t].op = op /\ rpc'[t].fh = fh
  BY <1>1, <1>2 DEF NoRpc
<1>5. /\ call'[t].op = call[t].op /\ call'[t].path = call[t].path
      /\ call'[t].to = call[t].to /\ call'[t].chain = call[t].chain
      /\ call'[t].flags = call[t].flags /\ call'[t].pc = "rpc"
  BY <1>1, <1>2 DEF Call
<1>6. rpc[t].st = "none"
  BY <1>1 DEF RpcShape
<1>7. call[t].op \in DirChanging => (Over(t)' <=> Over(t))
  BY <1>4, <1>5, <1>6 DEF Over, Mutating, Unsettled, Running
<1>8. entry' = entry /\ dirs' = dirs /\ born' = born /\ dentry' = dentry /\ opened' = opened
  BY <1>2 DEF tree
<1>9. CallRelies(t)'
  BY <1>1, <1>5, <1>7, <1>8 DEF CallRelies, DirChanging, Present
<1>10. RpcRelies(t)'
  BY <1>4 DEF RpcRelies
<1>11. ASSUME NEW f \in Files
       PROVE  HandleRelies(f, file_handle_map_[ClientOf(t)][f])'
  <2>1. HandleRelies(f, file_handle_map_[ClientOf(t)][f])
    BY CallbackFacts DEF Map
  <2>2. ASSUME NEW u \in Threads, Following(u, f)
        PROVE  Following(u, f)' /\ call'[u].to = call[u].to
    <3>1. CASE u = t
      BY <1>5, <1>7, <2>2, <3>1 DEF Following, DirChanging
    <3>2. CASE u # t
      BY <1>3, <2>2, <3>2, BystanderKept DEF Following
    <3> QED BY <3>1, <3>2
  <2> QED BY <1>2, <1>8, <2>1, <2>2 DEF HandleRelies, Linked
<1> QED BY <1>2, <1>3, <1>5, <1>9, <1>10, <1>11, CallStepRelies

\* t leaves a stub for pc, with m as the map of its client.
LEMMA LeaveRelies ==
  ASSUME RInv, Alone, NEW t \in Threads, Running(t),
         NEW pc \in {"start", "open", "done"}, NEW ret, NEW m \in [Paths -> Handles \cup {NoEntry}],
         call[t].op \in DirChanging =>
           /\ call[t].pc # "start" /\ pc # "start" /\ rpc[t].st # "sent",
         pc = "done" => IF call[t].op = "getattr"
                          THEN ret \in {"zero", "count"} <=> Present(call[t].path)
                        ELSE call[t].op \in DirChanging => ret = "zero",
         \A f \in Files : m[f] # NoEntry =>
            /\ m[f] \in born
            /\ Linked(m[f]) => \/ entry[f] = m[f]
                               \/ /\ call[t].op # "rename"
                                  /\ \E u \in Threads : Following(u, f) /\ entry[call[u].to] = m[f],
         Leave(t, pc, ret, m)
  PROVE  Relies'
<1>1. /\ call \in [Threads -> Call] /\ rpc \in [Threads -> Rpc] /\ call[t] \in Call
      /\ CallRelies(t) /\ file_handle_map_ \in [Clients -> [Paths -> Handles \cup {NoEntry}]]
  BY CallbackFacts
<1>2. /\ \A u \in Threads \ {t} : call'[u] = call[u] \/ call'[u] = [call[u] EXCEPT !.itr = FALSE]
      /\ call'[t] = [call[t] EXCEPT !.pc = pc, !.itr = FALSE, !.tries = 0, !.ret = ret]
      /\ UNCHANGED <<tree, up, late, dentry, opened>>
  BY DEF Leave
<1>3. /\ rpc'[t] = NoRpc /\ \A u \in Threads \ {t} : rpc'[u] = rpc[u]
      /\ file_handle_map_'[ClientOf(t)] = m
  BY <1>1, ThreadClient DEF Leave
<1>4. /\ call'[t].op = call[t].op /\ call'[t].path = call[t].path
      /\ call'[t].to = call[t].to /\ call'[t].chain = call[t].chain
      /\ call'[t].flags = call[t].flags /\ call'[t].pc = pc /\ call'[t].ret = ret
      /\ rpc'[t].st = "none"
  BY <1>1, <1>2, <1>3 DEF Call, NoRpc
<1>5. entry' = entry /\ dirs' = dirs /\ born' = born /\ dentry' = dentry /\ opened' = opened
  BY <1>2 DEF tree
<1>6. call[t].op \in DirChanging => (Over(t)' <=> Over(t))
  BY <1>4 DEF Over, Mutating, Unsettled, Running
<1>7. CallRelies(t)'
  <2>1. Present(call[t].path)' <=> Present(call[t].path)
    BY <1>4, <1>5 DEF Present
  <2> QED BY <1>1, <1>4, <1>5, <1>6, <2>1 DEF CallRelies, DirChanging, Running
<1>8. RpcRelies(t)'
  BY <1>4 DEF RpcRelies
<1>9. ASSUME NEW f \in Files
      PROVE  HandleRelies(f, file_handle_map_[ClientOf(t)][f])'
  <2>1. ASSUME NEW u \in Threads, Following(u, f), call[t].op # "rename"
        PROVE  Following(u, f)' /\ call'[u].to = call[u].to
    <3>1. u # t
      BY <2>1 DEF Following
    <3>2. /\ rpc'[u] = rpc[u]
          /\ call'[u] = call[u] \/ call'[u] = [call[u] EXCEPT !.itr = FALSE]
      BY <1>2, <1>3, <3>1
    <3>3. /\ call'[u].op = call[u].op /\ call'[u].path = call[u].path
          /\ call'[u].to = call[u].to /\ call'[u].pc = call[u].pc
          /\ Over(u)' <=> Over(u)
      BY <3>2, BystanderKept
    <3> QED BY <2>1, <3>3 DEF Following
  <2> QED BY <1>3, <1>5, <2>1 DEF HandleRelies, Linked
<1>10. call[t].pc # "idle"
  BY DEF Running
<1> QED BY <1>2, <1>3, <1>4, <1>7, <1>8, <1>9, <1>10, CallStepRelies

\* The map of a client as it is, or without an entry, is one LeaveRelies takes.
LEMMA MapFits ==
  ASSUME RInv, NEW t \in Threads, call[t].op # "rename", NEW f \in Files, NEW h,
         h = NoEntry \/ h = Map(t)[f], h # NoEntry
  PROVE  /\ h \in born
         /\ Linked(h) => \/ entry[f] = h
                         \/ /\ call[t].op # "rename"
                            /\ \E u \in Threads : Following(u, f) /\ entry[call[u].to] = h
  BY CallbackFacts DEF HandleRelies

LEMMA ReturnRelies ==
  ASSUME RInv, Alone, NEW t \in Threads, Running(t), call[t].op # "rename",
         NEW pc \in {"start", "open", "done"}, NEW ret,
         call[t].op \in DirChanging =>
           /\ call[t].pc # "start" /\ pc # "start" /\ rpc[t].st # "sent",
         pc = "done" => IF call[t].op = "getattr"
                          THEN ret \in {"zero", "count"} <=> Present(call[t].path)
                        ELSE call[t].op \in DirChanging => ret = "zero",
         Leave(t, pc, ret, Map(t)) \/ \E p \in Paths : Leave(t, pc, ret, Without(Map(t), p))
  PROVE  Relies'
<1>1. Map(t) \in [Paths -> Handles \cup {NoEntry}]
  BY CallbackFacts
<1>2. CASE Leave(t, pc, ret, Map(t))
  BY <1>1, <1>2, MapFits, LeaveRelies
<1>3. ASSUME NEW p \in Paths, Leave(t, pc, ret, Without(Map(t), p))
      PROVE  Relies'
  <2>1. PICK m : m = Without(Map(t), p)
    OBVIOUS
  <2>2. m \in [Paths -> Handles \cup {NoEntry}] /\ \A f \in Files : m[f] = NoEntry \/ m[f] = Map(t)[f]
    BY <1>1, <2>1 DEF Without, Paths
  <2> QED BY <1>3, <2>1, <2>2, MapFits, LeaveRelies
<1> QED BY <1>2, <1>3

\* A client that aborts leaves behind no request that could end the server.
LEMMA AbortGone ==
  ASSUME RInv, Alone, NEW c \in Clients, Abort(c)
  PROVE  Gone'
<1>1. Clients = {c} /\ {t \in Threads : ClientOf(t) = c} = Threads
  BY ThreadClient DEF Alone, OneClient
<1>2. /\ call' = [t \in Threads |-> [IdleCall EXCEPT !.pc = "gone"]]
      /\ rpc' = [t \in Threads |-> NoRpc]
      /\ file_handle_map_' = [file_handle_map_ EXCEPT ![c] = [p \in Paths |-> NoEntry]]
      /\ late' = late \cup LeftBehind(Threads)
      /\ UNCHANGED <<tree, up>>
  BY <1>1 DEF Abort, Die
<1>3. \A t \in Threads : call'[t].pc = "gone" /\ rpc'[t].st = "none"
  BY <1>2, IdleCallType DEF NoRpc, Call
<1>4. \A p \in Paths : file_handle_map_'[c][p] = NoEntry
  BY <1>2 DEF RInv, TInv, TypeOK
<1>5. up' /\ Root \in dirs' /\ late = {}
  BY <1>2 DEF RInv, Relies, TreeSound, tree
<1>6. ASSUME NEW x \in LeftBehind(Threads)
      PROVE  /\ x.op \notin HandleRpcs \cup {"DeleteDirectory"}
             /\ x.op = "RenameFile" => x.path \in Files
  <2> DEFINE t == x.thread
  <2>1. /\ t \in Threads /\ rpc[t].st = "sent" /\ LeavesTrace(rpc[t])
        /\ x.op = rpc[t].op /\ x.path = rpc[t].path
    BY LeftBehindShape DEF RInv
  <2>2. /\ CallRelies(t) /\ RpcRelies(t) /\ IssuedBy(rpc[t].op, call[t].op)
        /\ rpc[t].path = call[t].path
    BY <2>1, RequestFacts
  <2>3. x.op \notin HandleRpcs
    BY <2>1, <2>2, ProtoAssumption DEF RpcRelies, LeavesTrace, MutationRpcs, HandleRpcs
  <2> QED BY <2>1, <2>2, <2>3 DEF IssuedBy, CallRelies
<1> QED BY <1>1, <1>2, <1>3, <1>4, <1>5, <1>6 DEF Gone

LEMMA DropStaleRelies ==
  ASSUME RInv, Alone, NEW t \in Threads, Running(t), call[t].op \in HandleOps, DropStale(t)
  PROVE  Relies' \/ Gone'
<1>1. call[t].op # "rename" /\ call[t].op \notin DirChanging /\ call[t].path \in Paths
  BY CallbackFacts DEF HandleOps, DirChanging, Call
<1>2. CASE \E p \in Paths : Leave(t, "open", "zero", Without(Map(t), p))
  BY <1>1, <1>2, ReturnRelies
<1>3. CASE Abort(ClientOf(t))
  BY <1>3, ThreadClient, AbortGone
<1> QED BY <1>1, <1>2, <1>3 DEF DropStale

LEMMA OpenRelies ==
  ASSUME RInv, Alone, NEW t \in Threads, open(t)
  PROVE  Relies'
<1> DEFINE after == IF call[t].op \in {"open", "create"} THEN "done" ELSE "start"
<1>1. CallRelies(t) /\ CallShape(call[t]) /\ RpcShape(call[t], rpc[t])
  BY CallbackFacts
<1>2. CASE At(t, "open", "start") \/ call[t].pc = "open"
  <2>1. /\ rpc[t].st = "none" /\ Running(t) /\ call[t].op # "rename"
        /\ call[t].op \in DirChanging => call[t].op = "create" /\ call[t].pc = "open"
        /\ call[t].op # "getattr"
    BY <1>1, <1>2 DEF At, CallShape, RpcShape, DirChanging, HandleOps, Running
  <2>2. CASE Leave(t, after, "zero", Map(t))
    BY <2>1, <2>2, ReturnRelies
  <2>3. CASE Send(t, "Lookup", EmptyHandle, FALSE)
    BY <1>2, <2>1, <2>3, SendRelies DEF At, RpcOps, MutationRpcs, HandleRpcs
  <2>4. ~Replied(t, "Lookup")
    BY <2>1 DEF Replied
  <2> QED BY <1>2, <2>2, <2>3, <2>4 DEF open, Lookup_File
<1>3. CASE Replied(t, "Lookup")
  <2>1. /\ Running(t) /\ call[t].pc = "rpc" /\ rpc[t].st = "replied" /\ rpc[t].op = "Lookup"
        /\ call[t].op \in {"open", "create"} \cup HandleOps
        /\ rpc[t].path = call[t].path /\ RpcRelies(t)
        /\ call[t].op \in DirChanging => Over(t)
    BY <1>3, RequestFacts DEF Replied, IssuedBy
  <2>2. call[t].path \in Files /\ entry[call[t].path] # NoInode
    BY <1>1, <2>1 DEF CallShape, CallRelies, DirChanging
  <2>3. rpc[t].fh = entry[call[t].path] /\ rpc[t].fh \in born
    BY <2>1, <2>2 DEF RpcRelies, RInv, Relies, TreeSound
  <2>4. PICK m : m = [Map(t) EXCEPT ![call[t].path] = rpc[t].fh]
    OBVIOUS
  <2>5. Leave(t, after, "zero", m)
    BY <2>1, <2>4, <1>3 DEF open, At
  <2>6. rpc[t].fh \in Handles /\ Map(t) \in [Paths -> Handles \cup {NoEntry}] /\ call[t].path \in Paths
    BY <2>2, CallbackFacts DEF Rpc, Paths
  <2>7. /\ m \in [Paths -> Handles \cup {NoEntry}]
        /\ \A f \in Files : f # call[t].path => m[f] = Map(t)[f]
        /\ m[call[t].path] = rpc[t].fh
    BY <2>4, <2>6 DEF Paths
  <2>8. call[t].op # "rename" /\ call[t].op # "getattr"
    BY <2>1 DEF HandleOps
  <2>9. \A f \in Files : m[f] # NoEntry =>
            /\ m[f] \in born
            /\ Linked(m[f]) => \/ entry[f] = m[f]
                               \/ /\ call[t].op # "rename"
                                  /\ \E u \in Threads : Following(u, f) /\ entry[call[u].to] = m[f]
    BY <2>3, <2>7, <2>8, MapFits
  <2>10. call[t].op \in DirChanging => call[t].op = "create"
    BY <2>1 DEF HandleOps, DirChanging
  <2> QED BY <2>1, <2>5, <2>7, <2>8, <2>9, <2>10, LeaveRelies
<1> QED BY <1>2, <1>3 DEF open

LEMMA HandleOpRelies ==
  ASSUME RInv, Alone, NEW t \in Threads, read(t) \/ write(t) \/ fsync(t)
  PROVE  Relies' \/ Gone'
<1>1. CallRelies(t) /\ CallShape(call[t]) /\ RpcShape(call[t], rpc[t])
  BY CallbackFacts
<1>2. CASE call[t].pc = "start" /\ call[t].op \in HandleOps
  <2>1. /\ rpc[t].st = "none" /\ Running(t) /\ call[t].path \in Files
        /\ call[t].op # "rename" /\ call[t].op # "getattr" /\ call[t].op \notin DirChanging
    BY <1>1, <1>2 DEF RpcShape, CallShape, Running, HandleOps, DirChanging
  <2>2. Find(t) # NoEntry => Find(t) \in Inodes
    BY <2>1, CallbackFacts DEF HandleRelies, Find, RInv, TInv, TypeOK, ServerTypeOK
  <2>3. CASE \E ret : Leave(t, "done", ret, Map(t))
    BY <2>1, <2>3, ReturnRelies
  <2>4. CASE Find(t) # NoEntry /\ \E op \in HandleRpcs : Send(t, op, Find(t), TRUE)
    BY <1>2, <2>1, <2>2, <2>4, SendRelies DEF RpcOps, HandleRpcs
  <2>5. \A op : ~Replied(t, op)
    BY <2>1 DEF Replied
  <2> QED BY <2>3, <2>4, <2>5 DEF read, write, fsync, Return, Read_File, Write_File_Async,
                                  Fsync_File, HandleRpcs
<1>3. CASE \E op \in {"Read", "Write_Async", "Fsync"} : Replied(t, op)
  <2>1. /\ Running(t) /\ call[t].pc = "rpc"
        /\ call[t].op \in HandleOps
    BY <1>3, RequestFacts DEF Replied, IssuedBy, HandleOps
  <2>2. call[t].op # "rename" /\ call[t].op # "getattr" /\ call[t].op \notin DirChanging
    BY <2>1 DEF HandleOps, DirChanging
  <2>3. CASE DropStale(t)
    BY <2>1, <2>3, DropStaleRelies
  <2>4. CASE \E ret : Leave(t, "done", ret, Map(t))
    BY <2>1, <2>2, <2>4, ReturnRelies
  <2> QED BY <2>1, <2>3, <2>4 DEF read, write, fsync, At, Return
<1> QED BY <1>2, <1>3 DEF read, write, fsync, At, HandleOps

\* The handle follows its file, and the entry it replaces is of no file.
LEMMA MoveRelies ==
  ASSUME RInv, Alone, NEW t \in Threads, Replied(t, "RenameFile"),
         Leave(t, "done", "zero", MoveHandle(Map(t), call[t].path, call[t].to))
  PROVE  Relies'
<1> DEFINE p == call[t].path
           q == call[t].to
<1>1. /\ Running(t) /\ call[t].pc = "rpc" /\ call[t].op = "rename" /\ CallRelies(t)
      /\ Over(t) /\ rpc[t].st = "replied"
      /\ Map(t) \in [Paths -> Handles \cup {NoEntry}]
  BY RequestFacts DEF Replied, IssuedBy, DirChanging, Map
<1>2. /\ p \in Files /\ q \in Files /\ p # q /\ entry[p] = NoInode
  BY <1>1 DEF CallRelies
<1>3. PICK m : m = MoveHandle(Map(t), p, q)
  OBVIOUS
<1>4. /\ m \in [Paths -> Handles \cup {NoEntry}] /\ m[p] = NoEntry
      /\ \A f \in Files : f # p /\ f # q => m[f] = Map(t)[f]
      /\ m[q] = IF Map(t)[p] = NoEntry THEN Map(t)[q] ELSE Map(t)[p]
  BY <1>1, <1>2, <1>3 DEF MoveHandle, Paths
<1>5. ASSUME NEW f \in Files, Map(t)[f] # NoEntry
      PROVE  /\ Map(t)[f] \in born /\ Map(t)[f] # NoInode
             /\ Linked(Map(t)[f]) => IF f = p THEN entry[q] = Map(t)[f] ELSE entry[f] = Map(t)[f]
  <2>1. HandleRelies(f, Map(t)[f])
    BY CallbackFacts
  <2>2. Map(t)[f] \in born /\ Map(t)[f] # NoInode
    BY <2>1, <1>5, ProtoAssumption DEF HandleRelies, RInv, TInv, TypeOK, ServerTypeOK
  <2>3. ASSUME NEW u \in Threads, Following(u, f)
        PROVE  u = t /\ f = p
    BY <1>1, <2>3, OneFollowing DEF DirChanging, Following
  <2> QED BY <1>2, <1>5, <2>1, <2>2, <2>3 DEF HandleRelies
<1>6. \A f \in Files : m[f] # NoEntry => m[f] \in born /\ (Linked(m[f]) => entry[f] = m[f])
  BY <1>2, <1>4, <1>5
<1> QED BY <1>1, <1>3, <1>4, <1>6, LeaveRelies

LEMMA CallbackRelies ==
  ASSUME RInv, Alone, NEW t \in Threads, Callback(t)
  PROVE  Relies' \/ Gone'
<1>1. ASSUME call[t].pc = "start", call[t].op \notin DirChanging,
             NEW op \in RpcOps \ HandleRpcs, Send(t, op, EmptyHandle, FALSE)
      PROVE  Relies'
  BY <1>1, SendRelies
<1>2. ASSUME call[t].pc = "start", NEW op \in MutationRpcs, Send(t, op, EmptyHandle, FALSE)
      PROVE  Relies'
  BY <1>2, SendRelies DEF MutationRpcs, RpcOps, HandleRpcs
<1>3. ASSUME NEW op, Replied(t, op)
      PROVE  /\ Running(t) /\ call[t].pc = "rpc" /\ IssuedBy(op, call[t].op) /\ call[t].op # "rmdir"
             /\ rpc[t].st = "replied" /\ rpc[t].op = op /\ rpc[t].data = 0 /\ RpcRelies(t)
             /\ rpc[t].path = call[t].path /\ call[t].path \in Paths
  BY <1>3, RequestFacts DEF Replied, RpcRelies, CallRelies, Call
<1>4. CASE getattr(t)
  <2>1. CASE At(t, "getattr", "start") /\ Send(t, "Getattr", EmptyHandle, FALSE)
    BY <1>1, <2>1 DEF At, RpcOps, HandleRpcs, DirChanging
  <2>2. CASE Replied(t, "Getattr") /\ Return(t, IF Succeeded(t) THEN "zero" ELSE "ENOENT")
    <3>1. call[t].op = "getattr" /\ (Succeeded(t) <=> Present(call[t].path))
      BY <1>3, <2>2 DEF IssuedBy, RpcRelies, Succeeded
    <3>2. call[t].op \notin DirChanging /\ call[t].op # "rename"
      BY <3>1 DEF DirChanging
    <3> QED BY <1>3, <2>2, <3>1, <3>2, ReturnRelies DEF Return
  <2> QED BY <1>4, <2>1, <2>2 DEF getattr, Get_File_Attributes
<1>5. CASE readdir(t)
  <2>1. CASE At(t, "readdir", "start") /\ Send(t, "Readdir", EmptyHandle, FALSE)
    BY <1>1, <2>1 DEF At, RpcOps, HandleRpcs, DirChanging
  <2>2. CASE Replied(t, "Readdir") /\ Return(t, "zero")
    <3>1. call[t].op = "readdir"
      BY <1>3, <2>2 DEF IssuedBy
    <3> QED BY <1>3, <2>2, <3>1, ReturnRelies DEF Return, DirChanging
  <2> QED BY <1>5, <2>1, <2>2 DEF readdir, Read_Directory
<1>6. CASE create(t)
  <2>1. CASE Replied(t, "CreateFile")
    <3>1. call[t].op = "create" /\ (At(t, "create", "start") => FALSE) /\ ~(rpc[t].data < 0)
      BY <1>3, <2>1 DEF IssuedBy, At
    <3> QED BY <1>3, <1>6, <2>1, <3>1, ReturnRelies DEF create, DirChanging
  <2> QED BY <1>2, <1>6, <2>1 DEF create, At, Create_File, MutationRpcs
<1>7. CASE unlink(t)
  <2>1. CASE Replied(t, "DeleteFile")
    <3>1. call[t].op = "unlink" /\ (At(t, "unlink", "start") => FALSE)
      BY <1>3, <2>1 DEF IssuedBy, At
    <3> QED BY <1>3, <1>7, <2>1, <3>1, ReturnRelies DEF unlink, DirChanging
  <2> QED BY <1>2, <1>7, <2>1 DEF unlink, At, Delete_File, MutationRpcs
<1>8. CASE mkdir(t)
  <2>1. CASE Replied(t, "CreateDirectory")
    <3>1. call[t].op = "mkdir" /\ (At(t, "mkdir", "start") => FALSE) /\ ~(rpc[t].data < 0)
      BY <1>3, <2>1 DEF IssuedBy, At
    <3> QED BY <1>3, <1>8, <2>1, <3>1, ReturnRelies DEF mkdir, Return, DirChanging
  <2> QED BY <1>2, <1>8, <2>1 DEF mkdir, At, Create_Directory, MutationRpcs
<1>9. CASE rmdir(t)
  <2>1. call[t].op # "rmdir"
    BY CallbackFacts DEF CallRelies
  <2> QED BY <1>3, <1>9, <2>1 DEF rmdir, At, IssuedBy
<1>10. CASE rename(t)
  <2>1. CASE Replied(t, "RenameFile")
    <3>1. (At(t, "rename", "start") => FALSE) /\ ~(rpc[t].data < 0)
      BY <1>3, <2>1 DEF At
    <3> QED BY <1>10, <2>1, <3>1, MoveRelies DEF rename
  <2> QED BY <1>2, <1>10, <2>1 DEF rename, At, Rename_File, MutationRpcs
<1>11. ~EnterReconnect(t) /\ ~Reconnect_To_Server(t)
  BY CallbackFacts DEF EnterReconnect, Reconnect_To_Server, ConnectionLost, RpcRelies, CallRelies
<1> QED BY <1>4, <1>5, <1>6, <1>7, <1>8, <1>9, <1>10, <1>11, OpenRelies, HandleOpRelies DEF Callback

-----------------------------------------------------------------------------
(* Steps of the kernel.                                                    *)

LEMMA ExclusionIsMutual ==
  ASSUME NEW op, NEW op2, NEW P, NEW P2, Excludes(op2, P2, op, P)
  PROVE  Excludes(op, P, op2, P2)
  BY DEF Excludes, Overlaps

\* The callback of t is started or over; what t and the kernel rely on.
LEMMA KernelStepRelies ==
  ASSUME RInv, Alone, NEW t \in Threads, UNCHANGED <<serverVars, file_handle_map_>>,
         \A u \in Threads \ {t} : call'[u] = call[u],
         call[t].pc \in {"idle", "done"}, call'[t].pc \in {"idle", "start"},
         LocksHeld', \A u \in Threads : CallRelies(u)', NamesRely(ClientOf(t))'
  PROVE  Relies'
<1>1. entry' = entry /\ dirs' = dirs /\ born' = born /\ rpc' = rpc /\ up' = up /\ late' = late
  BY DEF serverVars, tree
<1>2. Relies /\ up' /\ late' = {} /\ TreeSound'
  BY <1>1 DEF RInv, Relies, TreeSound
<1>3. \A u \in Threads : RpcRelies(u)'
  BY <1>1, <1>2 DEF Relies, RpcRelies, Present
<1>4. ASSUME NEW f \in Files
      PROVE  HandleRelies(f, file_handle_map_[ClientOf(t)][f])'
  <2>1. HandleRelies(f, file_handle_map_[ClientOf(t)][f])
    BY <1>2, ThreadClient DEF Relies
  <2>2. ASSUME NEW u \in Threads, Following(u, f)
        PROVE  Following(u, f)' /\ call'[u].to = call[u].to
    <3>1. u # t
      BY <2>2 DEF Following, Over, Mutating, Running
    <3>2. Over(u)' <=> Over(u)
      BY <1>1, <3>1 DEF Over, Mutating, Unsettled, Running
    <3> QED BY <2>2, <3>1, <3>2 DEF Following
  <2> QED BY <1>1, <2>1, <2>2 DEF HandleRelies, Linked
<1>5. \A c \in Clients : c = ClientOf(t)
  BY SameClient DEF Alone
<1> QED BY <1>2, <1>3, <1>4, <1>5 DEF Relies

\* What the kernel believes of a name no running callback locks is so.
LEMMA Believed ==
  ASSUME RInv, Alone, NEW t \in Threads, call[t].pc = "idle",
         NEW f \in Files, NEW q, NEW op,
         \A u \in Peers(t) :
            Running(u) => ~Excludes(op, {f, q}, call[u].op, {call[u].path, call[u].to})
  PROVE  /\ op \in {"open", "unlink", "rename"} \cup HandleOps /\ f \in dentry[ClientOf(t)]
              => entry[f] # NoInode
         /\ op = "create" /\ f \notin dentry[ClientOf(t)] => entry[f] = NoInode
<1>1. f \in Paths /\ Under(f, f) /\ Parent(f) = Root
  BY FlatPaths DEF Alone, Paths, Under
<1>2. CASE \A u \in Threads : ~Touches(u, f)
  BY <1>2, CallbackFacts DEF NamesRely
<1>3. ASSUME NEW u \in Threads, Touches(u, f)
      PROVE  /\ op \in {"open", "unlink", "rename"} \cup HandleOps /\ f \in dentry[ClientOf(t)]
                  => entry[f] # NoInode
             /\ op # "create"
  <2>1. CallRelies(t) /\ CallRelies(u) /\ call[u] \in Call
    BY CallbackFacts
  <2>2. u # t /\ Running(u)
    BY <1>3, <2>1 DEF Touches, CallRelies, Running
  <2>3. ~Excludes(op, {f, q}, call[u].op, NamesOf(u)) /\ ClientOf(u) = ClientOf(t)
    BY <2>2, SameClient DEF NamesOf, Alone
  <2>4. f \in NamesOf(u)
    BY <1>3 DEF Touches
  <2>5. op \notin TreeLocking /\ call[u].op \notin TreeLocking
    BY <1>1, <2>3, <2>4 DEF Excludes, Overlaps
  <2>6. call[u].op = "create" \/ call[u].chain
    BY <1>3, <2>5 DEF Touches, TreeLocking
  <2>7. call[u].path = f
    BY <2>1, <2>4, <2>6 DEF CallRelies, NamesOf
  <2>8. op # "create"
    <3>1. CASE call[u].op = "create" /\ op = "create"
      BY <1>1, <2>3, <2>4, <3>1 DEF Excludes, DirChanging
    <3>2. CASE call[u].op = "getattr" /\ op = "create"
      BY <2>3, <2>4, <3>2 DEF Excludes, DirChanging
    <3> QED BY <2>1, <2>6, <3>1, <3>2 DEF CallRelies
  <2>9. CASE call[u].op = "create"
    BY <2>1, <2>3, <2>7, <2>8, <2>9 DEF CallRelies
  <2>10. CASE call[u].chain
    BY <2>1, <2>7, <2>8, <2>10, ProtoAssumption DEF CallRelies, Present
  <2> QED BY <2>6, <2>9, <2>10
<1> QED BY <1>2, <1>3

LEMMA DispatchRelies ==
  ASSUME RInv, Alone, NEW t \in Threads, NEW op \in PathOps \cup HandleOps,
         NEW p \in Paths, NEW q, NEW flags, Dispatch(t, op, p, q, flags),
         op # "rmdir", op # "rename" => q = p,
         op \in {"open", "create", "unlink", "rename"} \cup HandleOps => p \in Files,
         op = "create" => p \notin dentry[ClientOf(t)] \cup opened[ClientOf(t)],
         op \in {"open", "unlink", "rename"} \cup HandleOps => p \in dentry[ClientOf(t)],
         op = "unlink" => p \notin opened[ClientOf(t)],
         op = "rename" => /\ q \in Files /\ p # q /\ flags # "exchange"
                          /\ q \notin opened[ClientOf(t)]
  PROVE  Relies'
<1>1. /\ call \in [Threads -> Call] /\ call[t].pc = "idle"
      /\ call' = [call EXCEPT ![t] = Started(op, p, q, flags, FALSE)]
      /\ UNCHANGED <<serverVars, file_handle_map_, dentry, opened>>
      /\ \A u \in Peers(t) :
            Running(u) => ~Excludes(op, {p, q}, call[u].op, {call[u].path, call[u].to})
  BY CallbackFacts DEF Dispatch
<1>2. /\ \A u \in Threads \ {t} : call'[u] = call[u]
      /\ call'[t].op = op /\ call'[t].path = p /\ call'[t].to = q /\ call'[t].pc = "start"
      /\ call'[t].flags = flags /\ call'[t].chain = FALSE
  BY <1>1 DEF Started
<1>3. entry' = entry /\ dirs' = dirs /\ rpc' = rpc /\ dentry' = dentry /\ opened' = opened
  BY <1>1 DEF serverVars, tree
<1>4. /\ op \in {"open", "unlink", "rename"} \cup HandleOps => entry[p] # NoInode
      /\ op = "create" => entry[p] = NoInode
  <2>1. CASE p \in Files
    BY <1>1, <2>1, Believed
  <2>2. CASE p \notin Files
    BY <2>2
  <2> QED BY <2>1, <2>2
<1>5. ~Over(t)'
  BY <1>2 DEF Over, Mutating, Unsettled
<1>6. CallRelies(t)'
  <2>1. op # "none" /\ op \notin {"idle"}
    BY DEF PathOps, HandleOps
  <2> QED BY <1>2, <1>3, <1>4, <1>5, <2>1 DEF CallRelies, HandleOps
<1>7. ASSUME NEW u \in Threads \ {t}
      PROVE  CallRelies(u)'
  <2>1. CallRelies(u) /\ call'[u] = call[u]
    BY <1>2, CallbackFacts
  <2>2. Over(u)' <=> Over(u)
    BY <1>3, <2>1 DEF Over, Mutating, Unsettled, Running
  <2> QED BY <1>3, <2>1, <2>2 DEF CallRelies, Present
<1>8. LocksHeld'
  <2>1. ASSUME NEW u \in Threads, NEW v \in Threads, u # v, Running(u)', Running(v)'
        PROVE  ~Excludes(call'[u].op, NamesOf(u)', call'[v].op, NamesOf(v)')
    <3>1. CASE u = t
      <4>1. ~Excludes(op, {p, q}, call[v].op, NamesOf(v)) /\ call'[v] = call[v]
        BY <1>1, <1>2, <2>1, <3>1, SameClient DEF Alone, NamesOf, Running
      <4> QED BY <1>2, <3>1, <4>1 DEF NamesOf
    <3>2. CASE v = t
      <4>1. ~Excludes(op, {p, q}, call[u].op, NamesOf(u)) /\ call'[u] = call[u]
        BY <1>1, <1>2, <2>1, <3>2, SameClient DEF Alone, NamesOf, Running
      <4>2. ~Excludes(call[u].op, NamesOf(u), op, {p, q})
        BY <4>1, ExclusionIsMutual
      <4> QED BY <1>2, <3>2, <4>1, <4>2 DEF NamesOf
    <3>3. CASE u # t /\ v # t
      <4>1. call'[u] = call[u] /\ call'[v] = call[v]
        BY <1>2, <3>3
      <4>2. ~Excludes(call[u].op, NamesOf(u), call[v].op, NamesOf(v))
        BY <2>1, <4>1, SameClient DEF RInv, Relies, LocksHeld, Alone, Running
      <4> QED BY <4>1, <4>2 DEF NamesOf
    <3> QED BY <3>1, <3>2, <3>3
  <2> QED BY <2>1 DEF LocksHeld, Peers
<1>9. NamesRely(ClientOf(t))'
  <2>1. NamesRely(ClientOf(t)) /\ CallRelies(t)
    BY CallbackFacts
  <2>2. \A f \in Files, u \in Threads : Touches(u, f) => Touches(u, f)'
    BY <1>1, <1>2, <2>1 DEF Touches, NamesOf, CallRelies
  <2> QED BY <1>3, <2>1, <2>2 DEF NamesRely
<1> QED BY <1>1, <1>2, <1>6, <1>7, <1>8, <1>9, KernelStepRelies

LEMMA KernelRelies ==
  ASSUME RInv, Alone, NEW t \in Threads, Kernel(t)
  PROVE  Relies'
<1> DEFINE c == ClientOf(t)
<1>1. Dirs = {Root} /\ opened[c] \subseteq dentry[c] /\ "exchange" \notin RenameFlags
  BY CallbackFacts DEF Alone, FlatTree, NamesRely
<1>2. ASSUME NEW f \in Files, DispatchFile(t, f)
      PROVE  Relies'
  <2>1. f \in Paths
    BY DEF Paths
  <2>2. CASE Dispatch(t, "getattr", f, f, "none")
    BY <2>1, <2>2, DispatchRelies DEF PathOps, HandleOps
  <2>3. CASE /\ f \in dentry[c] \ opened[c]
             /\ Dispatch(t, "open", f, f, "none") \/ Dispatch(t, "unlink", f, f, "none")
    BY <2>1, <2>3, DispatchRelies DEF PathOps, HandleOps
  <2>4. CASE f \notin dentry[c] \cup opened[c] /\ Dispatch(t, "create", f, f, "none")
    BY <2>1, <2>4, DispatchRelies DEF PathOps, HandleOps
  <2> QED BY <1>2, <2>2, <2>3, <2>4 DEF DispatchFile
<1>3. ASSUME NEW f \in Files, DispatchIO(t, f)
      PROVE  Relies'
  <2>1. f \in Paths /\ f \in dentry[c]
    BY <1>1, <1>3 DEF Paths, DispatchIO
  <2>2. PICK op \in HandleOps : Dispatch(t, op, f, f, "none")
    BY <1>3 DEF DispatchIO
  <2>3. op \notin {"rmdir", "rename", "create", "unlink"}
    BY DEF HandleOps
  <2> QED BY <2>1, <2>2, <2>3, DispatchRelies
<1>4. ASSUME NEW d \in Dirs, DispatchDir(t, d)
      PROVE  Relies'
  <2>1. d = Root /\ d \in Paths
    BY <1>1 DEF Paths
  <2>2. Dispatch(t, "readdir", d, d, "none") \/ Dispatch(t, "mkdir", d, d, "none")
    BY <1>4, <2>1 DEF DispatchDir
  <2> QED BY <2>1, <2>2, DispatchRelies DEF PathOps, HandleOps
<1>5. ASSUME NEW p \in Paths, NEW q \in Paths, DispatchRename(t, p, q)
      PROVE  Relies'
  <2>1. p \in Files /\ q \in Files /\ p # q /\ p \in dentry[c]
    BY <1>1, <1>5 DEF DispatchRename, Paths
  <2>2. PICK flags \in RenameFlags : /\ flags # "exchange" /\ ~OpenBelow(c, q)
                                     /\ Dispatch(t, "rename", p, q, flags)
    BY <1>1, <1>5 DEF DispatchRename
  <2>3. q \notin opened[c]
    BY <2>2 DEF OpenBelow, Under
  <2> QED BY <2>1, <2>2, <2>3, DispatchRelies DEF PathOps, HandleOps
<1> QED BY <1>2, <1>3, <1>4, <1>5 DEF Kernel

\* Names removed and moved in a flat tree.
LEMMA FlatBelow ==
  ASSUME FlatTree, NEW f \in Files, NEW S
  PROVE  \A r : r \in S \ Below(S, f) <=> r \in S /\ r # f
  BY FlatPaths DEF Below

LEMMA FlatMoved ==
  ASSUME FlatTree, NEW f \in Files, NEW g, NEW S
  PROVE  \A r : r \in MovedNames(S, f, g) <=>
                   \/ r \in S /\ r # f /\ ~Under(r, g)
                   \/ r = g /\ f \in S
<1>1. \A r : Under(r, f) <=> r = f
  BY FlatPaths
<1>2. Image(f, f, g) = g
  BY DEF Image
<1> QED BY <1>1, <1>2 DEF MovedNames

\* How the return of a callback ends.
LEMMA FinishFacts ==
  ASSUME RInv, Alone, NEW t \in Threads, Finish(t)
  PROVE  /\ call[t].pc = "done" /\ rpc[t].st = "none" /\ Running(t)
         /\ UNCHANGED <<serverVars, file_handle_map_>>
         /\ \A u \in Threads \ {t} : call'[u] = call[u]
         /\ call[t].op \in DirChanging => Over(t)
         /\ call[t].chain => call[t].ret \in {"zero", "count"}
         /\ call'[t] = IF call[t].op \in {"create", "mkdir"}
                         THEN Started("getattr", call[t].path, call[t].path, "none", TRUE)
                         ELSE IdleCall
<1>1. /\ call \in [Threads -> Call] /\ call[t].pc = "done" /\ CallRelies(t)
      /\ RpcShape(call[t], rpc[t])
  BY CallbackFacts DEF Finish
<1>2. UNCHANGED <<serverVars, file_handle_map_>> /\ \A u \in Threads \ {t} : call'[u] = call[u]
  BY <1>1 DEF Finish
<1>3. rpc[t].st = "none" /\ Running(t)
  BY <1>1 DEF RpcShape, Running
<1>4. call[t].op \in DirChanging => Over(t)
  BY <1>1, <1>3 DEF Over, Mutating, Unsettled
<1>5. call[t].chain => call[t].ret \in {"zero", "count"}
  BY <1>1 DEF CallRelies
<1>6. call[t].op \in {"create", "mkdir"} => call[t].ret \in {"zero", "count"}
  BY <1>1 DEF CallRelies, DirChanging
<1>7. call'[t] = IF call[t].op \in {"create", "mkdir"}
                   THEN Started("getattr", call[t].path, call[t].path, "none", TRUE)
                   ELSE IdleCall
  <2>1. call' = [call EXCEPT ![t] =
                  IF call[t].op \in {"create", "mkdir"}
                    THEN Started("getattr", call[t].path, call[t].path, "none", TRUE)
                    ELSE IdleCall]
    BY <1>5, <1>6 DEF Finish
  <2> QED BY <1>1, <2>1
<1> QED BY <1>1, <1>2, <1>3, <1>4, <1>5, <1>7

\* What the kernel believes, and holds open, once the callback returned: it
\* changes at the callback's own names only.
Gains(t) == call[t].op = "getattr" /\ Present(call[t].path)
Loses(t) == \/ call[t].op = "getattr" /\ ~Present(call[t].path)
            \/ call[t].op = "unlink"

LEMMA FinishNames ==
  ASSUME RInv, Alone, NEW t \in Threads, Finish(t)
  PROVE  LET D == dentry[ClientOf(t)]
             O == opened[ClientOf(t)]
             p == call[t].path
             q == call[t].to
         IN
         /\ call[t].op = "rename" => \A r \in Paths :
              /\ r \in dentry'[ClientOf(t)] <=> (r \in D /\ r # p) \/ r = q
              /\ r \in opened'[ClientOf(t)] <=> (r \in O /\ r # p) \/ (r = q /\ p \in O)
         /\ call[t].op # "rename" => \A r \in Paths :
              /\ r \in dentry'[ClientOf(t)] <=>
                   (r \in D /\ ~(r = p /\ Loses(t))) \/ (r = p /\ Gains(t))
              /\ r \in opened'[ClientOf(t)] =>
                   r \in O \/ (r = p /\ (call[t].op = "open" \/ call[t].chain))
<1> DEFINE c == ClientOf(t)
           k == call[t]
           p == k.path
           q == k.to
           ok == k.ret \in {"zero", "count"}
<1>1. /\ CallRelies(t) /\ CallShape(k) /\ k \in Call /\ k.pc = "done"
      /\ dentry \in [Clients -> SUBSET Paths] /\ opened \in [Clients -> SUBSET Files]
      /\ c \in Clients
  BY CallbackFacts, ThreadClient DEF Finish, RInv, TInv, TypeOK
<1>2. CASE k.op = "rename"
  <2>1. ok /\ k.flags # "exchange" /\ p \in Files /\ q \in Files /\ p # q /\ p \in dentry[c]
    BY <1>1, <1>2 DEF CallRelies, DirChanging
  <2>2. /\ dentry'[c] = MovedNames(dentry[c], p, q)
        /\ opened'[c] = MovedNames(opened[c], p, q)
    <3>1. /\ dentry' = [dentry EXCEPT ![c] = MovedNames(@, p, q)]
          /\ opened' = [opened EXCEPT ![c] = MovedNames(@, p, q)]
      <4>1. k.chain = FALSE
        BY <1>1, <1>2 DEF CallRelies, Call
      <4> QED BY <1>2, <2>1, <4>1 DEF Finish
    <3> QED BY <1>1, <3>1
  <2>3. \A r : Under(r, q) <=> r = q
    BY <2>1, FlatPaths DEF Alone
  <2>4. \A r : r \in dentry'[c] <=> (r \in dentry[c] /\ r # p) \/ r = q
    BY <2>1, <2>2, <2>3, FlatMoved DEF Alone
  <2>5. \A r : r \in opened'[c] <=> (r \in opened[c] /\ r # p /\ r # q) \/ (r = q /\ p \in opened[c])
    BY <2>1, <2>2, <2>3, FlatMoved DEF Alone
  <2>6. q \notin opened[c]
    BY <1>1, <1>2 DEF CallRelies
  <2> QED BY <1>2, <2>4, <2>5, <2>6
<1>3. CASE k.op # "rename"
  <2>1. opened'[c] = IF (k.op = "open" \/ (k.chain /\ k.path \in Files)) /\ ok
                       THEN opened[c] \cup {p}
                     ELSE IF k.op = "release" THEN opened[c] \ {p}
                     ELSE opened[c]
    <3>1. opened' = [opened EXCEPT ![c] =
                       IF (k.op = "open" \/ (k.chain /\ k.path \in Files)) /\ ok
                         THEN @ \cup {p}
                       ELSE IF k.op = "release" THEN @ \ {p}
                       ELSE @]
      BY <1>3 DEF Finish
    <3> QED BY <1>1, <3>1
  <2>2. dentry'[c] = IF k.op = "getattr"
                       THEN IF ok THEN dentry[c] \cup {p} ELSE dentry[c] \ Below(dentry[c], p)
                     ELSE IF k.op \in {"unlink", "rmdir"} /\ ok THEN dentry[c] \ Below(dentry[c], p)
                     ELSE dentry[c]
    <3>1. dentry' = [dentry EXCEPT ![c] =
                       IF k.op = "getattr"
                         THEN IF ok THEN @ \cup {p} ELSE @ \ Below(@, p)
                       ELSE IF k.op \in {"unlink", "rmdir"} /\ ok THEN @ \ Below(@, p)
                       ELSE @]
      BY <1>3 DEF Finish
    <3> QED BY <1>1, <3>1
  <2>3. \A r : r \in opened'[c] => r \in opened[c] \/ (r = p /\ (k.op = "open" \/ k.chain))
    BY <2>1
  <2>4. \A r : r \in dentry'[c] <=> (r \in dentry[c] /\ ~(r = p /\ Loses(t))) \/ (r = p /\ Gains(t))
    <3>1. CASE k.op = "getattr" /\ ok
      BY <1>1, <2>2, <3>1 DEF CallRelies, Gains, Loses
    <3>2. CASE k.op = "getattr" /\ ~ok
      <4>1. ~Present(p) /\ p \in Paths
        BY <1>1, <3>2 DEF CallRelies, Call
      <4>2. p \in Files
        BY <4>1, FlatPaths, ProtoAssumption DEF Alone, Present, RInv, Relies, TreeSound
      <4>3. \A r : r \in dentry'[c] <=> r \in dentry[c] /\ r # p
        <5>1. dentry'[c] = dentry[c] \ Below(dentry[c], p)
          BY <2>2, <3>2
        <5> QED BY <4>2, <5>1, FlatBelow DEF Alone
      <4> QED BY <3>2, <4>1, <4>3 DEF Gains, Loses
    <3>3. CASE k.op = "unlink"
      <4>1. ok /\ p \in Files
        BY <1>1, <3>3 DEF CallRelies, CallShape, DirChanging
      <4>2. \A r : r \in dentry'[c] <=> r \in dentry[c] /\ r # p
        <5>1. dentry'[c] = dentry[c] \ Below(dentry[c], p)
          BY <2>2, <3>3, <4>1
        <5> QED BY <4>1, <5>1, FlatBelow DEF Alone
      <4> QED BY <3>3, <4>2 DEF Gains, Loses
    <3>4. CASE k.op \notin {"getattr", "unlink"}
      BY <1>1, <2>2, <3>4 DEF CallRelies, Gains, Loses
    <3> QED BY <3>1, <3>2, <3>3, <3>4
  <2> QED BY <1>3, <2>3, <2>4
<1> QED BY <1>2, <1>3

\* Another callback can still rely on what it knew.
LEMMA FinishBystander ==
  ASSUME RInv, Alone, NEW t \in Threads, Finish(t), NEW u \in Threads, u # t
  PROVE  CallRelies(u)'
<1> DEFINE c == ClientOf(t)
           p == call[u].path
           q == call[u].to
<1>1. /\ CallRelies(u) /\ CallRelies(t) /\ CallShape(call[u]) /\ call[u] \in Call
      /\ p \in Paths /\ q \in Paths /\ NamesOf(u) = {p, q}
      /\ ClientOf(u) = c /\ call'[u] = call[u]
      /\ entry' = entry /\ dirs' = dirs /\ rpc' = rpc
  <2>1. CallRelies(u) /\ CallRelies(t) /\ CallShape(call[u]) /\ call[u] \in Call
    BY CallbackFacts
  <2>2. call'[u] = call[u] /\ entry' = entry /\ dirs' = dirs /\ rpc' = rpc
    BY FinishFacts DEF serverVars, tree
  <2>3. ClientOf(u) = c
    BY SameClient DEF Alone
  <2> QED BY <2>1, <2>2, <2>3 DEF NamesOf, Call
<1>2. Over(u)' <=> Over(u)
  BY <1>1 DEF Over, Mutating, Unsettled, Running
<1>3. Running(t) /\ (Running(u) <=> call[u].op # "none")
  BY FinishFacts, RunningOp
<1>4. \A r \in Paths : r \notin NamesOf(t) =>
         (r \in dentry'[c] <=> r \in dentry[c]) /\ (r \in opened'[c] => r \in opened[c])
  BY FinishNames DEF NamesOf
<1>5. CASE call[u].op \in {"unlink", "rename"}
  <2>1. p \notin NamesOf(t) /\ q \notin NamesOf(t)
    BY <1>1, <1>3, <1>5, LockedOut DEF TreeLocking
  <2>2. /\ p \in dentry'[c] <=> p \in dentry[c]
        /\ p \in opened'[c] => p \in opened[c]
        /\ q \in opened'[c] => q \in opened[c]
    BY <1>1, <1>4, <2>1
  <2> QED BY <1>1, <1>2, <1>5, <2>2 DEF CallRelies, Present, HandleOps
<1>6. CASE call[u].op = "create"
  <2>1. p \in Files /\ p \notin dentry[c] /\ p \notin opened[c]
    BY <1>1, <1>6 DEF CallRelies, CallShape
  <2>2. call[t].op \notin DirChanging /\ (call[t].op = "getattr" => call[t].path # p)
    BY <1>3, <1>6, LockedOut DEF DirChanging
  <2>3. call[t].op = "open" => call[t].path # p
    BY <1>1, <2>1 DEF CallRelies
  <2>4. call[t].chain => call[t].path # p
    BY <1>1, <2>2 DEF CallRelies
  <2>5. p \notin dentry'[c] /\ p \notin opened'[c]
    <3>1. call[t].op # "rename"
      BY <2>2 DEF DirChanging
    <3> QED BY <1>1, <2>1, <2>2, <2>3, <2>4, <3>1, FinishNames DEF Gains
  <2> QED BY <1>1, <1>2, <1>6, <2>5 DEF CallRelies, Present, HandleOps
<1>7. CASE call[u].op \in {"open"} \cup HandleOps
  <2>1. p \in Files /\ p \in dentry[c] /\ entry[p] # NoInode /\ q = p
    BY <1>1, <1>7 DEF CallRelies, CallShape, HandleOps
  <2>2. call[t].op \in {"unlink", "rename"} => p \notin NamesOf(t)
    BY <1>1, <1>3, <1>7, LockedOut DEF TreeLocking, HandleOps
  <2>3. Present(p)
    BY <2>1, ProtoAssumption DEF Present
  <2>4. p \in dentry'[c]
    <3>1. CASE p \notin NamesOf(t)
      BY <1>1, <1>4, <2>1, <3>1
    <3>2. CASE call[t].op \notin {"unlink", "rename"}
      BY <1>1, <2>1, <2>3, <3>2, FinishNames DEF Loses
    <3> QED BY <2>2, <3>1, <3>2
  <2> QED BY <1>1, <1>2, <1>7, <2>4 DEF CallRelies, Present, HandleOps
<1>8. CASE call[u].op \notin {"unlink", "rename", "create", "open"} \cup HandleOps
  BY <1>1, <1>2, <1>8 DEF CallRelies, Present
<1> QED BY <1>5, <1>6, <1>7, <1>8

\* The locks are those of the callbacks that go on; a lookup that follows a
\* create or a mkdir takes none that was not held.
LEMMA FinishLocks ==
  ASSUME RInv, Alone, NEW t \in Threads, Finish(t)
  PROVE  LocksHeld'
<1> DEFINE p == call[t].path
<1>1. /\ Running(t) /\ \A u \in Threads \ {t} : call'[u] = call[u]
      /\ call'[t] = IF call[t].op \in {"create", "mkdir"}
                      THEN Started("getattr", p, p, "none", TRUE)
                      ELSE IdleCall
  BY FinishFacts
<1>2. ASSUME NEW u \in Threads, u # t, Running(u), Running(t)'
      PROVE  ~Excludes(call'[t].op, NamesOf(t)', call[u].op, NamesOf(u))
  <2>1. /\ call[t].op \in {"create", "mkdir"}
        /\ call'[t].op = "getattr" /\ NamesOf(t)' = {p}
    BY <1>1, <1>2 DEF Running, IdleCall, Started, NamesOf
  <2>2. call[u].op \notin DirChanging
    BY <1>1, <1>2, <2>1, LockedOut DEF DirChanging
  <2> QED BY <2>1, <2>2 DEF Excludes, DirChanging, TreeLocking, HandleOps
<1>3. ASSUME NEW u \in Threads, NEW v \in Threads, u # v, Running(u)', Running(v)'
      PROVE  ~Excludes(call'[u].op, NamesOf(u)', call'[v].op, NamesOf(v)')
  <2>1. CASE u = t
    <3>1. call'[v] = call[v]
      BY <1>1, <1>3, <2>1
    <3> QED BY <1>2, <1>3, <2>1, <3>1 DEF NamesOf, Running
  <2>2. CASE v = t
    <3>1. call'[u] = call[u]
      BY <1>1, <1>3, <2>2
    <3>2. ~Excludes(call'[t].op, NamesOf(t)', call[u].op, NamesOf(u))
      BY <1>2, <1>3, <2>2, <3>1 DEF Running
    <3>3. ~Excludes(call[u].op, NamesOf(u), call'[t].op, NamesOf(t)')
      BY <3>2, ExclusionIsMutual
    <3> QED BY <2>2, <3>1, <3>3 DEF NamesOf
  <2>3. CASE u # t /\ v # t
    <3>1. call'[u] = call[u] /\ call'[v] = call[v]
      BY <1>1, <2>3
    <3>2. ~Excludes(call[u].op, NamesOf(u), call[v].op, NamesOf(v))
      BY <1>3, <3>1, SameClient DEF RInv, Relies, LocksHeld, Alone, Running
    <3> QED BY <3>1, <3>2 DEF NamesOf
  <2> QED BY <2>1, <2>2, <2>3
<1> QED BY <1>3 DEF LocksHeld, Peers

\* The lookup that follows a create or a mkdir finds the name.
LEMMA FinishChain ==
  ASSUME RInv, Alone, NEW t \in Threads, Finish(t)
  PROVE  CallRelies(t)'
<1> DEFINE p == call[t].path
<1>1. /\ CallRelies(t) /\ CallShape(call[t]) /\ call[t] \in Call
      /\ call[t].op \in DirChanging => Over(t)
      /\ UNCHANGED <<serverVars, file_handle_map_>>
      /\ call'[t] = IF call[t].op \in {"create", "mkdir"}
                      THEN Started("getattr", p, p, "none", TRUE)
                      ELSE IdleCall
  BY CallbackFacts, FinishFacts
<1>2. entry' = entry /\ dirs' = dirs
  BY <1>1 DEF serverVars, tree
<1>3. CASE call[t].op \in {"create", "mkdir"}
  <2>1. CASE call[t].op = "create"
    <3>1. p \in Files /\ entry[p] # NoInode
      BY <1>1, <2>1 DEF CallRelies, CallShape, DirChanging
    <3> QED BY <1>1, <1>2, <2>1, <3>1, ProtoAssumption
            DEF CallRelies, Started, Present, HandleOps
  <2>2. CASE call[t].op = "mkdir"
    <3>1. p \in Dirs /\ p \in dirs
      BY <1>1, <2>2 DEF CallShape, Alone, FlatTree, RInv, Relies, TreeSound
    <3> QED BY <1>1, <1>2, <2>2, <3>1 DEF CallRelies, Started, Present, HandleOps
  <2> QED BY <1>3, <2>1, <2>2
<1>4. CASE call[t].op \notin {"create", "mkdir"}
  BY <1>1, <1>2, <1>4 DEF CallRelies, IdleCall, Started, HandleOps
<1> QED BY <1>3, <1>4

\* Nobody else is at work on a name that a lookup did not find.
LEMMA UnfoundUntouched ==
  ASSUME RInv, Alone, NEW t \in Threads, Finish(t), call[t].op = "getattr",
         NEW f \in Files, f = call[t].path, ~Present(f)
  PROVE  \A u \in Threads : ~Touches(u, f)
<1>1. Running(t) /\ CallRelies(t) /\ NamesOf(t) = {f}
  BY FinishFacts, CallbackFacts DEF CallRelies, NamesOf
<1>2. ~Touches(t, f)
  BY <1>1 DEF Touches, CallRelies
<1>3. ASSUME NEW u \in Threads, u # t, Touches(u, f)
      PROVE  FALSE
  <2>1. CallRelies(u) /\ f \in NamesOf(u)
    BY <1>3, CallbackFacts DEF Touches
  <2>2. Running(u)
    BY <1>3, <2>1, RunningOp DEF Touches, CallRelies
  <2>3. CASE call[u].op \in {"unlink", "rename"}
    BY <1>1, <1>3, <2>1, <2>2, <2>3, LockedOut DEF TreeLocking
  <2>4. CASE call[u].op = "create"
    <3>1. call[u].path = f
      BY <2>1, <2>4 DEF CallRelies, NamesOf
    <3> QED BY <1>1, <1>3, <2>2, <2>4, <3>1, LockedOut DEF DirChanging
  <2>5. CASE call[u].chain
    <3>1. call[u].path = f /\ Present(call[u].path)
      BY <2>1, <2>5 DEF CallRelies, NamesOf
    <3> QED BY <3>1
  <2> QED BY <1>3, <2>3, <2>4, <2>5 DEF Touches
<1> QED BY <1>2, <1>3

\* What the kernel believes is so once more, but for the names of those that go on.
LEMMA FinishNamesRely ==
  ASSUME RInv, Alone, NEW t \in Threads, Finish(t)
  PROVE  NamesRely(ClientOf(t))'
<1> DEFINE c == ClientOf(t)
           k == call[t]
           p == call[t].path
           q == call[t].to
<1>1. /\ CallRelies(t) /\ CallShape(k) /\ k \in Call /\ Running(t) /\ k.pc = "done"
      /\ NamesRely(c)
      /\ k.op \in DirChanging => Over(t)
      /\ \A u \in Threads \ {t} : call'[u] = call[u]
      /\ k.op = "create" => call'[t] = Started("getattr", p, p, "none", TRUE)
      /\ entry' = entry
  BY CallbackFacts, FinishFacts DEF serverVars, tree
<1>2. /\ opened'[c] \subseteq Files /\ Files \subseteq Paths /\ c \in Clients
      /\ \A f \in Files : Present(f) <=> entry[f] # NoInode
  <2>1. TypeOK'
    BY NextTInv DEF RInv, TInv, Next, ClientStep
  <2> QED BY <2>1, ThreadClient, ProtoAssumption DEF TypeOK, Paths, Present
<1>3. \A f \in Files : f \notin NamesOf(t) =>
         (f \in dentry'[c] <=> f \in dentry[c]) /\ (f \in opened'[c] => f \in opened[c])
  BY <1>2, FinishNames DEF NamesOf
<1>4. k.op # "rename" => NamesOf(t) = {p}
  BY <1>1 DEF CallRelies, NamesOf
<1>5. k.op = "rename" =>
        /\ p \in Files /\ q \in Files /\ p # q
        /\ p \notin dentry'[c] /\ q \in dentry'[c] /\ p \notin opened'[c]
        /\ entry[p] = NoInode /\ entry[q] # NoInode
  BY <1>1, <1>2, FinishNames DEF CallRelies, DirChanging
<1>6. k.op # "rename" => \A f \in Files :
        /\ f \in dentry'[c] <=> (f \in dentry[c] /\ ~(f = p /\ Loses(t))) \/ (f = p /\ Gains(t))
        /\ f \in opened'[c] => f \in opened[c] \/ (f = p /\ (k.op = "open" \/ k.chain))
  BY <1>2, FinishNames
<1>7. ASSUME NEW f \in opened'[c]
      PROVE  f \in dentry'[c]
  <2>1. f \in Files /\ f \in Paths
    BY <1>2
  <2>2. f \in opened[c] => f \in dentry[c]
    BY <1>1 DEF NamesRely
  <2>3. CASE f \notin NamesOf(t)
    BY <1>3, <2>1, <2>2, <2>3
  <2>4. CASE f \in NamesOf(t) /\ k.op = "rename"
    BY <1>5, <2>4 DEF NamesOf
  <2>5. CASE f \in NamesOf(t) /\ k.op # "rename"
    <3>1. f = p
      BY <1>4, <2>5
    <3>2. CASE k.op = "getattr" /\ Present(p)
      BY <1>6, <2>1, <2>5, <3>1, <3>2 DEF Gains
    <3>3. CASE k.op = "getattr" /\ ~Present(p)
      <4>1. f \in dentry[c]
        BY <1>1, <1>6, <2>1, <2>2, <2>5, <3>1, <3>3 DEF CallRelies
      <4>2. entry[f] # NoInode
        BY <1>1, <2>1, <3>1, <3>3, <4>1, UnfoundUntouched DEF NamesRely
      <4> QED BY <1>2, <2>1, <3>1, <3>3, <4>2
    <3>4. CASE k.op = "unlink"
      BY <1>1, <1>6, <2>1, <2>5, <3>1, <3>4 DEF CallRelies
    <3>5. CASE k.op = "open"
      BY <1>1, <1>6, <2>1, <3>1, <3>5 DEF CallRelies, Loses
    <3>6. CASE k.op \notin {"getattr", "unlink", "open"}
      BY <1>1, <1>6, <2>1, <2>2, <2>5, <3>1, <3>6 DEF CallRelies, Loses
    <3> QED BY <3>2, <3>3, <3>4, <3>5, <3>6
  <2> QED BY <2>3, <2>4, <2>5
<1>8. ASSUME NEW f \in Files, \A u \in Threads : ~Touches(u, f)'
      PROVE  f \in dentry'[c] <=> entry[f] # NoInode
  <2>1. \A u \in Threads \ {t} : ~Touches(u, f)
    BY <1>1, <1>8 DEF Touches, NamesOf
  <2>2. ~Touches(t, f) => (f \in dentry[c] <=> entry[f] # NoInode)
    BY <1>1, <2>1 DEF NamesRely
  <2>3. CASE f \notin NamesOf(t)
    BY <1>3, <2>2, <2>3 DEF Touches
  <2>4. CASE f \in NamesOf(t) /\ k.op = "rename"
    BY <1>5, <2>4 DEF NamesOf
  <2>5. CASE f \in NamesOf(t) /\ k.op # "rename"
    <3>1. f = p
      BY <1>4, <2>5
    <3>2. CASE k.op = "getattr"
      BY <1>2, <1>6, <2>5, <3>1, <3>2 DEF Gains, Loses
    <3>3. CASE k.op = "unlink"
      BY <1>1, <1>6, <2>5, <3>1, <3>3 DEF CallRelies, Gains, Loses, DirChanging
    <3>4. CASE k.op = "create"
      <4>1. Touches(t, f)'
        BY <1>1, <3>1, <3>4 DEF Touches, NamesOf, Started
      <4> QED BY <1>8, <4>1
    <3>5. CASE k.op \notin {"getattr", "unlink", "create"}
      <4>1. ~Touches(t, f)
        BY <1>1, <2>5, <3>5 DEF Touches, CallRelies
      <4> QED BY <1>6, <2>2, <2>5, <3>5, <4>1 DEF Gains, Loses
    <3> QED BY <3>2, <3>3, <3>4, <3>5
  <2> QED BY <2>3, <2>4, <2>5
<1> QED BY <1>1, <1>7, <1>8 DEF NamesRely

LEMMA FinishRelies ==
  ASSUME RInv, Alone, NEW t \in Threads, Finish(t)
  PROVE  Relies'
<1>1. /\ UNCHANGED <<serverVars, file_handle_map_>>
      /\ \A u \in Threads \ {t} : call'[u] = call[u]
      /\ call[t].pc = "done" /\ call'[t].pc \in {"idle", "start"}
  <2>1. /\ IdleCall.pc = "idle"
        /\ Started("getattr", call[t].path, call[t].path, "none", TRUE).pc = "start"
    BY IdleFields DEF Started
  <2> QED BY <2>1, FinishFacts
<1>2. \A u \in Threads : CallRelies(u)'
  BY FinishBystander, FinishChain
<1> QED BY <1>1, <1>2, FinishLocks, FinishNamesRely, KernelStepRelies

-----------------------------------------------------------------------------
(* The invariant, and what it shows.                                       *)

\* While the client runs, every step keeps what its callbacks rely on, or is its
\* end.
LEMMA NextRelies ==
  ASSUME Alone, RInv, [Next]_vars
  PROVE  Relies' \/ Gone'
<1>1. ASSUME NEW t \in Threads, ClientStep(t)
      PROVE  Relies' \/ Gone'
  BY <1>1, KernelRelies, CallbackRelies, FinishRelies DEF ClientStep
<1>2. ASSUME ServerStep
      PROVE  Relies'
  BY <1>2, ServerStepRelies
<1>3. ASSUME NEW c \in Clients, ClientCrash(c)
      PROVE  FALSE
  <2>1. faults \in 0..MaxFaults /\ MaxFaults = 0
    BY DEF RInv, TInv, TypeOK, ServerTypeOK, Alone
  <2> QED BY <1>3, <2>1 DEF ClientCrash
<1>4. CASE UNCHANGED vars
  <2>1. /\ call' = call /\ rpc' = rpc /\ file_handle_map_' = file_handle_map_
        /\ dentry' = dentry /\ opened' = opened /\ late' = late
        /\ entry' = entry /\ dirs' = dirs /\ born' = born /\ up' = up
    BY <1>4 DEF vars, serverVars, clientVars
  <2>2. LocksHeld' /\ TreeSound' /\ up' /\ late' = {}
    BY <2>1 DEF RInv, Relies, LocksHeld, Peers, Running, NamesOf, TreeSound
  <2>3. \A t \in Threads : Over(t)' <=> Over(t)
    BY <2>1 DEF Over, Mutating, Unsettled, Running
  <2>4. \A t \in Threads : CallRelies(t)' /\ RpcRelies(t)'
    BY <2>1, <2>3 DEF RInv, Relies, CallRelies, RpcRelies, Present
  <2>5. \A t \in Threads, f \in Files : Touches(t, f)' <=> Touches(t, f)
    BY <2>1 DEF Touches, NamesOf
  <2>6. \A c \in Clients : NamesRely(c)'
    BY <2>1, <2>5 DEF RInv, Relies, NamesRely
  <2>7. \A t \in Threads, f \in Files : Following(t, f)' <=> Following(t, f)
    BY <2>1, <2>3 DEF Following
  <2>8. \A c \in Clients, f \in Files : HandleRelies(f, file_handle_map_[c][f])'
    BY <2>1, <2>7 DEF RInv, Relies, HandleRelies, Linked
  <2> QED BY <2>2, <2>4, <2>6, <2>8 DEF Relies
<1> QED BY <1>1, <1>2, <1>3, <1>4 DEF Next

\* No thread of a client that is gone takes a step.
LEMMA GoneIdle ==
  ASSUME Gone, NEW t \in Threads
  PROVE  ~ClientStep(t)
<1>1. call[t].pc = "gone" /\ rpc[t].st = "none"
  BY DEF Gone
<1>2. ~Kernel(t)
  BY <1>1 DEF Kernel, DispatchFile, DispatchIO, DispatchDir, DispatchRename, Dispatch
<1>3. ~Finish(t)
  BY <1>1 DEF Finish
<1>4. ~Callback(t)
  BY <1>1 DEF Callback, getattr, readdir, open, read, write, fsync, create, unlink, mkdir,
              rmdir, rename, EnterReconnect, Reconnect_To_Server, At, Replied
<1> QED BY <1>2, <1>3, <1>4 DEF ClientStep

\* The handlers it left behind change files, and end.
LEMMA GoneKept ==
  ASSUME Alone, TInv, Gone, [Next]_vars
  PROVE  Gone'
<1>1. ~(faults < MaxFaults) /\ Dirs = {Root}
  BY DEF TInv, TypeOK, ServerTypeOK, Alone, FlatTree
<1>2. ASSUME UNCHANGED clientVars, UNCHANGED <<rpc, up>>, Root \in dirs', late' \subseteq late
      PROVE  Gone'
  BY <1>2 DEF Gone, clientVars
<1>3. ASSUME ServerStep
      PROVE  Gone'
  <2>1. PICK x \in late : ServeLate(x) /\ UNCHANGED clientVars
    BY <1>1, <1>3 DEF ServerStep, Gone, Serve, Lookup, Read, Write_Async, Fsync, Readdir, Getattr,
                      CreateFile, DeleteFile, CreateDirectory, DeleteDirectory, RenameFile,
                      Requested, Refuse, LoseRpc, RpcUnavailable, ServerCrash, RunServer
  <2>2. /\ x.op \notin HandleRpcs \cup {"DeleteDirectory"}
        /\ x.op = "RenameFile" => x.path \in Files
        /\ x.op = "Readdir" => x.path = Root
        /\ Root \in dirs /\ Root \in Dirs
    BY <1>1 DEF Gone, TInv, ShapeOK, LateShape
  <2>3. /\ late' = late \ {x} /\ UNCHANGED <<up, rpc>>
        /\ LateEffect(x) \/ UNCHANGED tree
    BY <2>1, <2>2 DEF ServeLate, Present
  <2>4. Root \in dirs'
    BY <2>2, <2>3, ProtoAssumption
    DEF LateEffect, MakeFile, RemoveFile, MakeDirectory, Move, tree
  <2> QED BY <1>2, <2>1, <2>3, <2>4
<1>4. ASSUME NEW c \in Clients, ClientCrash(c)
      PROVE  FALSE
  BY <1>1, <1>4 DEF ClientCrash
<1>5. CASE UNCHANGED vars
  <2>1. UNCHANGED clientVars /\ UNCHANGED <<rpc, up, dirs, late>>
    BY <1>5 DEF vars, serverVars
  <2> QED BY <1>2, <2>1 DEF Gone
<1> QED BY <1>3, <1>4, <1>5, GoneIdle DEF Next

\* Every step of a client alone keeps the invariant.
LEMMA NextCInv ==
  ASSUME Alone
  PROVE  CInv /\ [Next]_vars => CInv'
  BY NextTInv, NextRelies, GoneKept DEF CInv, RInv

LEMMA InitCInv ==
  ASSUME Alone, Init
  PROVE  CInv
<1>1. TInv
  BY InitTInv
<1>2. TreeSound /\ up /\ late = {}
  BY DEF Init, ServerInit, TreeSound
<1>3. /\ \A t \in Threads : call[t] = IdleCall /\ rpc[t] = NoRpc
      /\ \A c \in Clients : dentry[c] = Existing /\ opened[c] = {}
      /\ \A c \in Clients, f \in Files : file_handle_map_[c][f] = NoEntry
  BY DEF Init, ServerInit, Paths
<1>4. \A t \in Threads : CallRelies(t) /\ RpcRelies(t) /\ ~Running(t)
  <2> SUFFICES ASSUME NEW t \in Threads
               PROVE  CallRelies(t) /\ RpcRelies(t) /\ ~Running(t)
    OBVIOUS
  <2>1. /\ call[t].op = "none" /\ call[t].pc = "idle" /\ call[t].chain = FALSE
        /\ call[t].to = call[t].path /\ rpc[t].st = "none"
    BY <1>3, IdleFields DEF IdleCall, Started, NoRpc
  <2> QED BY <2>1 DEF CallRelies, RpcRelies, Running, HandleOps
<1>5. LocksHeld
  BY <1>4 DEF LocksHeld
<1>6. \A c \in Clients : NamesRely(c)
  <2>1. \A f \in Files : f \in Existing <=> entry[f] # NoInode
    BY ProtoAssumption DEF Existing, Present, Paths
  <2> QED BY <1>3, <2>1 DEF NamesRely
<1>7. \A c \in Clients : \A f \in Files : HandleRelies(f, file_handle_map_[c][f])
  BY <1>3 DEF HandleRelies
<1> QED BY <1>1, <1>2, <1>4, <1>5, <1>6, <1>7 DEF CInv, Relies

\* What the callbacks of a client that is alone rely on is so until it aborts.
THEOREM ReliedUponAlways ==
  ASSUME Alone
  PROVE  Spec => []CInv
<1>1. Init => CInv
  BY InitCInv
<1>2. CInv /\ [Next]_vars => CInv'
  BY NextCInv
<1> QED BY <1>1, <1>2, PTL DEF Spec

\* The server lives: no callback sends it an empty handle (a lookup is made only
\* for a file that is there), or asks it to list a directory that is gone.
THEOREM ServerOutlivesItsClient ==
  ASSUME Alone
  PROVE  Spec => []ServerSurvives
<1>1. CInv => ServerSurvives
  BY DEF CInv, Relies, Gone, ServerSurvives
<1> QED BY <1>1, ReliedUponAlways, PTL

\* Outside callbacks, a cached handle is one that the server gave out, and if its
\* file has a name, the name is the path the handle is cached for.
THEOREM CacheIsCoherent ==
  ASSUME Alone
  PROVE  Spec => []CacheCoherent
<1>1. ASSUME RInv
      PROVE  CacheCoherent
  <2> SUFFICES ASSUME NEW c \in Clients, NEW f \in Files,
                      Quiet(c, f), file_handle_map_[c][f] # NoEntry
               PROVE  LET h == file_handle_map_[c][f] IN
                      h # EmptyHandle /\ (Linked(h) => entry[f] = h)
    BY DEF CacheCoherent
  <2> DEFINE h == file_handle_map_[c][f]
  <2>1. HandleRelies(f, h)
    BY <1>1 DEF RInv, Relies
  <2>2. h # EmptyHandle
    BY <1>1, <2>1, ProtoAssumption DEF HandleRelies, RInv, TInv, TypeOK, ServerTypeOK
  <2>3. ASSUME NEW t \in Threads
        PROVE  ~Following(t, f)
    <3>1. ClientOf(t) = c
      BY ThreadClient DEF Alone, OneClient
    <3> QED BY <3>1 DEF Following, Over, Mutating, Quiet
  <2> QED BY <2>1, <2>2, <2>3 DEF HandleRelies
<1>2. Gone => CacheCoherent
  BY DEF Gone, CacheCoherent, Paths
<1>3. CInv => CacheCoherent
  BY <1>1, <1>2 DEF CInv, RInv
<1> QED BY <1>3, ReliedUponAlways, PTL

\* A callback that reports success did what it was asked to: create and mkdir
\* leave the name there, unlink leaves it gone, rename has moved it.
THEOREM SuccessIsWhatItSays ==
  ASSUME Alone
  PROVE  Spec => []SuccessIsReal
<1>1. ASSUME RInv
      PROVE  SuccessIsReal
  <2> SUFFICES ASSUME NEW t \in Threads, call[t].pc = "done", call[t].ret = "zero"
               PROVE  /\ call[t].op \in {"create", "mkdir"} => Present(call[t].path)
                      /\ call[t].op \in {"unlink", "rmdir"} => ~Present(call[t].path)
                      /\ call[t].op = "rename" => ~Present(call[t].path) /\ Present(call[t].to)
    BY DEF SuccessIsReal
  <2>1. CallRelies(t) /\ CallShape(call[t]) /\ RpcShape(call[t], rpc[t])
    BY <1>1, CallbackFacts
  <2>2. call[t].op \in DirChanging => Over(t)
    BY <2>1 DEF Over, Mutating, Unsettled, Running, RpcShape
  <2>3. \A f \in Files : Present(f) <=> entry[f] # NoInode
    BY ProtoAssumption DEF Present
  <2>4. call[t].op = "mkdir" => Present(call[t].path)
    BY <1>1, <2>1 DEF CallShape, Alone, FlatTree, RInv, Relies, TreeSound, Present
  <2> QED BY <2>1, <2>2, <2>3, <2>4 DEF CallRelies, CallShape, DirChanging
<1>2. Gone => SuccessIsReal
  BY DEF Gone, SuccessIsReal
<1>3. CInv => SuccessIsReal
  BY <1>1, <1>2 DEF CInv, RInv
<1> QED BY <1>3, ReliedUponAlways, PTL

\* ENOENT from getattr means that there is no such file.
THEOREM EnoentIsWhatItSays ==
  ASSUME Alone
  PROVE  Spec => []EnoentIsReal
<1>1. CInv => EnoentIsReal
  BY DEF CInv, Relies, CallRelies, Gone, EnoentIsReal, At
<1> QED BY <1>1, ReliedUponAlways, PTL

\* An open that finds a handle in the map, for open itself, for create or for a
\* callback that found its handle stale, finds the one of the file at its path.
THEOREM OpensTheFileAtThePath ==
  ASSUME Alone
  PROVE  Spec => CachedOpenIsCurrent
<1> DEFINE Reopens(t) == /\ At(t, "open", "start") \/ call[t].pc = "open"
                         /\ call'[t].pc \in {"start", "done"} /\ Linked(Find(t))
<1>1. ASSUME RInv, NEW t \in Threads, At(t, "open", "start") \/ call[t].pc = "open",
             Linked(Find(t))
      PROVE  Find(t) = entry[call[t].path]
  <2> DEFINE f == call[t].path
  <2>1. f \in Files /\ Running(t) /\ f \in NamesOf(t)
    BY <1>1, CallbackFacts DEF At, CallShape, Running, NamesOf, CallRelies
  <2>2. HandleRelies(f, Find(t))
    BY <1>1, <2>1, CallbackFacts DEF Find
  <2>3. ASSUME NEW u \in Threads, Following(u, f)
        PROVE  FALSE
    <3>1. /\ Running(u) /\ call[u].op \in TreeLocking /\ f \in NamesOf(u)
          /\ call[u].op = "rename" /\ call[u].pc # "done"
      BY <2>3 DEF Following, Over, Mutating, TreeLocking, NamesOf
    <3>2. u # t
      BY <1>1, <3>1, CallbackFacts DEF At, CallShape, HandleOps
    <3> QED BY <1>1, <2>1, <3>1, <3>2, LockedOut
  <2>4. Find(t) # NoEntry
    <3>1. \E g \in Files : entry[g] = Find(t)
      BY <1>1 DEF Linked
    <3>2. \A g \in Files : entry[g] \in Inodes \cup {NoInode}
      BY <1>1 DEF RInv, TInv, TypeOK, ServerTypeOK
    <3> QED BY <3>1, <3>2, ProtoAssumption DEF Handles
  <2> QED BY <1>1, <2>2, <2>3, <2>4 DEF HandleRelies
<1>2. CInv => (\A t \in Threads : Reopens(t) => Find(t) = entry[call[t].path])
  BY <1>1 DEF CInv, RInv, Gone, At
<1>3. CInv /\ [Next]_vars => [\A t \in Threads : Reopens(t) => Find(t) = entry[call[t].path]]_vars
  BY <1>2
<1> QED BY <1>3, ReliedUponAlways, PTL DEF Spec, CachedOpenIsCurrent
=============================================================================
