------------------------- MODULE NFS_Client_FS_proofs -------------------------
(***************************************************************************)
(* Theorems about the clients composed with the server, for all values of  *)
(* the constants: type correctness, by the invariant TInv, and that a file *)
(* held open keeps its handle, by HInv.  Each part has the same layout:    *)
(* lemmas on what the operators of the model return, then one lemma for    *)
(* each way a step can go (a server step, a stub, a callback, the kernel), *)
(* then the step and the theorem.                                          *)
(***************************************************************************)
EXTENDS NFS_Client_FS_inv, TLAPS

LEMMA ThreadClient ==
  ASSUME NEW t \in Threads
  PROVE  ClientOf(t) \in Clients
  BY DEF Threads, ClientOf

LEMMA NoRpcType == NoRpc \in Rpc
  BY ProtoAssumption DEF NoRpc, Rpc, RpcOps, Paths, Handles, Statuses

LEMMA TriesType == /\ 0 \in 0..RETRY_TIMEOUT
                   /\ Root \in Paths
  BY ProtoAssumption, SMT DEF Paths

LEMMA StartedType ==
  ASSUME NEW op \in {"none"} \cup PathOps \cup HandleOps,
         NEW p \in Paths, NEW q \in Paths,
         NEW flags \in {"none", "noreplace", "exchange"}, NEW chain \in BOOLEAN
  PROVE  Started(op, p, q, flags, chain) \in Call
  BY TriesType DEF Started, Call

LEMMA IdleCallType == IdleCall \in Call
<1>1. Started("none", Root, Root, "none", FALSE) \in Call
  BY StartedType, TriesType
<1> QED BY <1>1 DEF IdleCall, Call

LEMMA AnswerType ==
  ASSUME NEW r \in Rpc, NEW s \in Statuses, NEW h \in Handles, NEW d \in {-1, 0}
  PROVE  /\ Answer(r, s, h, d) \in Rpc
         /\ Answer(r, s, h, d).op = r.op
         /\ Answer(r, s, h, d).path = r.path
         /\ Answer(r, s, h, d).to = r.to
  BY DEF Answer, Rpc, Handles

LEMMA InitTInv == Init => TInv
<1> SUFFICES ASSUME Init PROVE TInv
  OBVIOUS
<1>1. ServerTypeOK
  BY ServerAssumption, NoRpcType DEF Init, ServerInit, ServerTypeOK
<1>2. TypeOK
  BY <1>1, IdleCallType DEF Init, TypeOK, Existing
<1>3. ShapeOK
  BY DEF Init, ServerInit, ShapeOK, CallShape, RpcShape, IdleCall, Started, NoRpc, HandleOps
<1> QED BY <1>2, <1>3 DEF TInv

-----------------------------------------------------------------------------
(* TInv is preserved by the steps of the server.                           *)

LateOK == late \in SUBSET Late /\ \A x \in late : LateShape(x)

LEMMA LateKept ==
  ASSUME TInv, late' \subseteq late
  PROVE  LateOK'
  BY DEF TInv, TypeOK, ServerTypeOK, ShapeOK, LateOK, LateShape

\* A request that is left behind is one a callback made, for its own paths.
LEMMA LeftBehindShape ==
  ASSUME TInv, NEW T \in SUBSET Threads, NEW x \in LeftBehind(T)
  PROVE  /\ x \in Late /\ LateShape(x)
         /\ x.thread \in T /\ up /\ rpc[x.thread].st = "sent" /\ LeavesTrace(rpc[x.thread])
         /\ x.op = rpc[x.thread].op /\ x.path = rpc[x.thread].path /\ x.to = rpc[x.thread].to
<1>1. PICK t \in T : /\ up /\ rpc[t].st = "sent" /\ LeavesTrace(rpc[t])
                      /\ x = [thread |-> t, op |-> rpc[t].op,
                              path |-> rpc[t].path, to |-> rpc[t].to]
  BY DEF LeftBehind
<1>2. /\ rpc[t] \in Rpc /\ CallShape(call[t]) /\ RpcShape(call[t], rpc[t])
  BY DEF TInv, TypeOK, ServerTypeOK, ShapeOK
<1>3. x \in Late
  BY <1>1, <1>2 DEF Late, Rpc
<1>4. LateShape(x)
  BY <1>1, <1>2 DEF LateShape, CallShape, RpcShape, IssuedBy, HandleOps
<1> QED BY <1>1, <1>3, <1>4

LEMMA LateGrown ==
  ASSUME TInv, NEW T \in SUBSET Threads, late' = late \cup LeftBehind(T)
  PROVE  LateOK'
<1>1. \A x \in late : x \in Late /\ LateShape(x)
  BY DEF TInv, TypeOK, ServerTypeOK, ShapeOK
<1>2. \A x \in LeftBehind(T) : x \in Late /\ LateShape(x)
  BY LeftBehindShape
<1> QED BY <1>1, <1>2 DEF LateOK, LateShape

TreeOK == /\ entry \in [Files -> Inodes \cup {NoInode}]
          /\ dirs \subseteq Dirs /\ born \subseteq Inodes

\* The effects of the calls on the tree.
LEMMA EffectType ==
  ASSUME TreeOK, NEW p \in Paths, NEW q \in Paths
  PROVE  /\ MakeFile(p) => TreeOK'
         /\ RemoveFile(p) => TreeOK'
         /\ MakeDirectory(p) /\ p \in Dirs => TreeOK'
         /\ RemoveDirectory(p) => TreeOK'
         /\ Move(p, q) /\ (p \in Files <=> q \in Files) => TreeOK'
<1>1. MakeFile(p) => TreeOK'
  BY DEF MakeFile, TreeOK
<1>2. RemoveFile(p) => TreeOK'
  BY DEF RemoveFile, TreeOK
<1>3. MakeDirectory(p) /\ p \in Dirs => TreeOK'
  BY DEF MakeDirectory, TreeOK
<1>4. RemoveDirectory(p) => TreeOK'
  BY DEF RemoveDirectory, TreeOK
<1>5. ASSUME Move(p, q), p \in Files <=> q \in Files
      PROVE  TreeOK'
  <2>1. \A f \in Files : Under(f, q) => Image(f, q, p) \in Files
    BY <1>5, ProtoAssumption DEF Under, Image, Dir, Files, Paths
  <2>2. entry' \in [Files -> Inodes \cup {NoInode}]
    BY <1>5, <2>1 DEF Move, TreeOK
  <2>3. dirs' \subseteq Dirs /\ born' \subseteq Inodes
    BY <1>5, ProtoAssumption DEF Move, Paths, TreeOK
  <2> QED BY <2>2, <2>3 DEF TreeOK
<1> QED BY <1>1, <1>2, <1>3, <1>4, <1>5

\* Answering outstanding RPCs, whatever the answers, keeps rpc in shape.
LEMMA AnsweredShape ==
  ASSUME TInv, UNCHANGED clientVars, LateOK',
         rpc' \in [Threads -> Rpc],
         \A t \in Threads : rpc'[t] # rpc[t] =>
           /\ rpc[t].st # "none"
           /\ rpc'[t].op = rpc[t].op /\ rpc'[t].path = rpc[t].path /\ rpc'[t].to = rpc[t].to
  PROVE  ShapeOK'
<1> SUFFICES ASSUME NEW t \in Threads
             PROVE  CallShape(call[t])' /\ RpcShape(call[t], rpc[t])'
  BY DEF ShapeOK, LateOK
<1>1. CallShape(call[t]) /\ RpcShape(call[t], rpc[t]) /\ call' = call
  BY DEF TInv, ShapeOK, clientVars
<1>2. CallShape(call[t])'
  BY <1>1 DEF CallShape
<1>3. RpcShape(call[t], rpc[t])'
  BY <1>1 DEF RpcShape
<1> QED BY <1>2, <1>3

LEMMA ReplyShape ==
  ASSUME TInv, UNCHANGED clientVars, LateOK', NEW t \in Threads, rpc[t].st # "none",
         NEW s \in Statuses, NEW h \in Handles, NEW d \in {-1, 0}, Reply(t, s, h, d)
  PROVE  rpc' \in [Threads -> Rpc] /\ ShapeOK'
<1>1. rpc \in [Threads -> Rpc]
  BY DEF TInv, TypeOK, ServerTypeOK
<1>2. /\ rpc' = [rpc EXCEPT ![t] = Answer(rpc[t], s, h, d)]
      /\ Answer(rpc[t], s, h, d) \in Rpc
      /\ Answer(rpc[t], s, h, d).op = rpc[t].op
      /\ Answer(rpc[t], s, h, d).path = rpc[t].path
      /\ Answer(rpc[t], s, h, d).to = rpc[t].to
  BY <1>1, AnswerType DEF Reply
<1>3. rpc' \in [Threads -> Rpc]
  BY <1>1, <1>2
<1>4. \A u \in Threads : rpc'[u] # rpc[u] => u = t
  BY <1>1, <1>2
<1>5. rpc'[t] = Answer(rpc[t], s, h, d)
  BY <1>1, <1>2
<1>6. \A u \in Threads : rpc'[u] # rpc[u] =>
           /\ rpc[u].st # "none"
           /\ rpc'[u].op = rpc[u].op /\ rpc'[u].path = rpc[u].path /\ rpc'[u].to = rpc[u].to
  BY <1>2, <1>4, <1>5
<1> QED BY <1>3, <1>6, AnsweredShape

LEMMA ExitShape ==
  ASSUME TInv, UNCHANGED clientVars, Exit
  PROVE  rpc' \in [Threads -> Rpc] /\ ShapeOK' /\ LateOK'
<1> DEFINE R(u) == IF rpc[u].st = "sent" THEN Answer(rpc[u], "UNAVAILABLE", EmptyHandle, 0)
                                         ELSE rpc[u]
<1>1. rpc \in [Threads -> Rpc]
  BY DEF TInv, TypeOK, ServerTypeOK
<1>2. rpc' = [u \in Threads |-> R(u)]
  BY DEF Exit
<1>3. \A u \in Threads : /\ R(u) \in Rpc
                         /\ R(u) # rpc[u] => rpc[u].st # "none"
                         /\ R(u).op = rpc[u].op /\ R(u).path = rpc[u].path
                         /\ R(u).to = rpc[u].to
  <2> SUFFICES ASSUME NEW u \in Threads
               PROVE  /\ R(u) \in Rpc
                      /\ R(u) # rpc[u] => rpc[u].st # "none"
                      /\ R(u).op = rpc[u].op /\ R(u).path = rpc[u].path
                      /\ R(u).to = rpc[u].to
    OBVIOUS
  <2>1. "UNAVAILABLE" \in Statuses /\ EmptyHandle \in Handles /\ 0 \in {-1, 0}
    BY DEF Statuses, Handles
  <2>2. CASE rpc[u].st = "sent"
    BY <2>1, <2>2, <1>1, AnswerType
  <2>3. CASE rpc[u].st # "sent"
    BY <2>3, <1>1
  <2> QED BY <2>2, <2>3
<1>4. rpc' \in [Threads -> Rpc] /\ \A u \in Threads : rpc'[u] = R(u)
  BY <1>2, <1>3
<1>5. LateOK'
  BY LateKept DEF Exit
<1> HIDE DEF R
<1> QED BY <1>3, <1>4, <1>5, AnsweredShape

\* The data of a handler's reply keep their types whatever its status is.
LEMMA ServeTInv ==
  ASSUME TInv, UNCHANGED clientVars, NEW t \in Threads, Serve(t)
  PROVE  TInv'
<1> DEFINE p == rpc[t].path
<1> DEFINE q == rpc[t].to
<1>1. /\ TreeOK /\ up \in BOOLEAN /\ faults \in 0..MaxFaults /\ rpc[t] \in Rpc
  BY DEF TInv, TypeOK, ServerTypeOK, TreeOK
<1>2. /\ p \in Paths /\ q \in Paths /\ rpc[t].fh \in Handles /\ EmptyHandle \in Handles
      /\ {"OK", "CANCELLED", "INVALID_ARGUMENT", "UNAVAILABLE"} \subseteq Statuses
  BY <1>1 DEF Rpc, Handles, Statuses
<1>3. CallShape(call[t]) /\ RpcShape(call[t], rpc[t])
  BY DEF TInv, ShapeOK
<1>4. SUFFICES /\ TreeOK' /\ up' \in BOOLEAN /\ faults' \in 0..MaxFaults
               /\ rpc' \in [Threads -> Rpc] /\ ShapeOK' /\ LateOK'
  BY DEF TInv, TypeOK, ServerTypeOK, TreeOK, LateOK, clientVars
\* A handler that only answers, or that has changed the tree as well.
<1>a. ASSUME rpc[t].st = "sent", TreeOK', UNCHANGED <<up, late>>, faults' \in 0..MaxFaults,
             NEW s \in {"OK", "CANCELLED", "INVALID_ARGUMENT"}, NEW h \in Handles,
             NEW d \in {-1, 0}, Reply(t, s, h, d)
      PROVE  /\ TreeOK' /\ up' \in BOOLEAN /\ faults' \in 0..MaxFaults
             /\ rpc' \in [Threads -> Rpc] /\ ShapeOK' /\ LateOK'
  BY <1>1, <1>2, <1>a, ReplyShape, LateKept
<1>b. ASSUME Exit, UNCHANGED faults
      PROVE  /\ TreeOK' /\ up' \in BOOLEAN /\ faults' \in 0..MaxFaults
             /\ rpc' \in [Threads -> Rpc] /\ ShapeOK' /\ LateOK'
  BY <1>1, <1>b, ExitShape DEF Exit, tree, TreeOK
<1>c. UNCHANGED tree => TreeOK'
  BY <1>1 DEF tree, TreeOK
<1>5. CASE Lookup(t)
  <2>1. p \in Files
    BY <1>3, <1>5 DEF Lookup, Requested, RpcShape, IssuedBy, CallShape, HandleOps
  <2>2. entry[p] # NoInode => entry[p] \in Handles
    BY <1>1, <2>1 DEF TreeOK, Handles
  <2> QED BY <1>1, <1>2, <1>a, <1>c, <2>1, <2>2, <1>5 DEF Lookup, Requested
<1>6. ASSUME rpc[t].st = "sent", open_mount_path_by_id(t) \/ open_by_handle_at(t)
      PROVE  /\ TreeOK' /\ up' \in BOOLEAN /\ faults' \in 0..MaxFaults
             /\ rpc' \in [Threads -> Rpc] /\ ShapeOK' /\ LateOK'
  BY <1>1, <1>2, <1>6, <1>a, <1>b, <1>c DEF open_mount_path_by_id, open_by_handle_at
<1>7. CASE Read(t)
  BY <1>6, <1>7 DEF Read, Requested
<1>8. CASE Write_Async(t)
  BY <1>6, <1>8 DEF Write_Async, Requested
<1>9. CASE Fsync(t)
  <2>1. CASE open_mount_path_by_id(t) \/ open_by_handle_at(t)
    BY <1>6, <1>9, <2>1 DEF Fsync, Requested
  <2>2. CASE ~(open_mount_path_by_id(t) \/ open_by_handle_at(t))
    <3>1. /\ rpc[t].st = "sent" /\ Reply(t, "OK", rpc[t].fh, -1)
          /\ faults < MaxFaults /\ faults' = faults + 1 /\ UNCHANGED <<tree, up, late>>
      BY <1>9, <2>2 DEF Fsync, Requested
    <3>2. faults' \in 0..MaxFaults
      BY <1>1, <3>1, ServerAssumption
    <3> QED BY <1>2, <1>a, <1>c, <3>1, <3>2
  <2> QED BY <2>1, <2>2
<1>10. CASE Readdir(t)
  BY <1>1, <1>2, <1>10, <1>a, <1>b, <1>c DEF Readdir, Requested
<1>11. CASE Getattr(t)
  BY <1>1, <1>2, <1>11, <1>a, <1>c DEF Getattr, Requested
<1>12. CASE CreateFile(t)
  BY <1>1, <1>2, <1>12, <1>a, <1>c, EffectType DEF CreateFile, Requested
<1>13. CASE DeleteFile(t)
  BY <1>1, <1>2, <1>13, <1>a, <1>c, EffectType DEF DeleteFile, Requested
<1>14. CASE CreateDirectory(t)
  <2>1. p \in Dirs
    BY <1>3, <1>14 DEF CreateDirectory, Requested, RpcShape, IssuedBy, CallShape, PathOps, HandleOps
  <2> QED BY <1>1, <1>2, <2>1, <1>14, <1>a, <1>c, EffectType DEF CreateDirectory, Requested
<1>15. CASE DeleteDirectory(t)
  BY <1>1, <1>2, <1>15, <1>a, <1>c, EffectType DEF DeleteDirectory, Requested
<1>16. CASE RenameFile(t)
  <2>1. p \in Files <=> q \in Files
    BY <1>3, <1>16 DEF RenameFile, Requested, RpcShape, IssuedBy, CallShape, PathOps, HandleOps
  <2> QED BY <1>1, <1>2, <2>1, <1>16, <1>a, <1>c, EffectType DEF RenameFile, Requested
<1> QED
  BY <1>5, <1>7, <1>8, <1>9, <1>10, <1>11, <1>12, <1>13, <1>14, <1>15, <1>16 DEF Serve

\* A handler without a caller.
LEMMA ServeLateTInv ==
  ASSUME TInv, UNCHANGED clientVars, NEW x \in late, ServeLate(x)
  PROVE  TInv'
<1>1. /\ TreeOK /\ x.path \in Paths /\ x.to \in Paths /\ LateShape(x)
      /\ rpc \in [Threads -> Rpc] /\ up \in BOOLEAN /\ faults \in 0..MaxFaults
  BY DEF TInv, TypeOK, ServerTypeOK, ShapeOK, TreeOK, Late
<1>2. SUFFICES /\ TreeOK' /\ up' \in BOOLEAN /\ faults' \in 0..MaxFaults
               /\ rpc' \in [Threads -> Rpc] /\ ShapeOK' /\ LateOK'
  BY DEF TInv, TypeOK, ServerTypeOK, TreeOK, LateOK, clientVars
<1>3. CASE Exit /\ UNCHANGED faults
  BY <1>1, <1>3, ExitShape DEF Exit, tree, TreeOK
<1>4. CASE /\ late' = late \ {x} /\ (LateEffect(x) \/ UNCHANGED tree)
           /\ UNCHANGED <<up, faults, rpc>>
  <2>1. UNCHANGED tree => TreeOK'
    BY <1>1 DEF tree, TreeOK
  <2>2. LateEffect(x) => TreeOK'
    BY <1>1, EffectType DEF LateEffect, LateShape
  <2>3. LateOK' /\ ShapeOK'
    BY <1>1, <1>4, LateKept, AnsweredShape
  <2> QED BY <1>1, <1>4, <2>1, <2>2, <2>3
<1> QED BY <1>3, <1>4 DEF ServeLate

LEMMA ServerStepTInv ==
  ASSUME TInv, ServerStep
  PROVE  TInv'
<1>1. /\ TreeOK /\ up \in BOOLEAN /\ faults \in 0..MaxFaults
      /\ faults < MaxFaults => faults + 1 \in 0..MaxFaults
      /\ {"OK", "CANCELLED", "UNAVAILABLE"} \subseteq Statuses /\ EmptyHandle \in Handles
  BY ServerAssumption DEF TInv, TypeOK, ServerTypeOK, TreeOK, Handles, Statuses
<1>2. UNCHANGED clientVars
  BY DEF ServerStep
<1>3. ASSUME UNCHANGED tree, up' \in BOOLEAN, faults' \in 0..MaxFaults,
             rpc' \in [Threads -> Rpc], ShapeOK', LateOK'
      PROVE  TInv'
  BY <1>1, <1>2, <1>3 DEF TInv, TypeOK, ServerTypeOK, TreeOK, LateOK, clientVars, tree
<1>4. ASSUME NEW t \in Threads, Serve(t)
      PROVE  TInv'
  BY <1>2, <1>4, ServeTInv
<1>5. ASSUME NEW t \in Threads, Refuse(t) \/ RpcUnavailable(t)
      PROVE  TInv'
  BY <1>1, <1>2, <1>3, <1>5, ReplyShape, LateKept DEF Refuse, RpcUnavailable
<1>6. ASSUME NEW t \in Threads, LoseRpc(t)
      PROVE  TInv'
  <2>1. LateOK'
    BY <1>6, LateGrown DEF LoseRpc
  <2> QED BY <1>1, <1>2, <1>3, <1>6, <2>1, ReplyShape DEF LoseRpc
<1>7. ASSUME NEW x \in late, ServeLate(x)
      PROVE  TInv'
  BY <1>2, <1>7, ServeLateTInv
<1>8. CASE ServerCrash
  BY <1>1, <1>2, <1>3, <1>8, ExitShape DEF ServerCrash, Exit
<1>9. CASE RunServer
  <2>1. rpc' = rpc /\ rpc \in [Threads -> Rpc] /\ LateOK' /\ ShapeOK'
    BY <1>2, <1>9, LateKept, AnsweredShape DEF RunServer, TInv, TypeOK, ServerTypeOK
  <2> QED BY <1>1, <1>3, <1>9, <2>1 DEF RunServer
<1> QED BY <1>4, <1>5, <1>6, <1>7, <1>8, <1>9 DEF ServerStep

-----------------------------------------------------------------------------
(* TInv is preserved by the steps of a client.                             *)

\* A step of thread t that leaves the server alone: what has to be shown.
LEMMA OneThread ==
  ASSUME TInv, NEW t \in Threads, UNCHANGED <<tree, up, faults, late>>,
         NEW k \in Call, NEW r \in Rpc, CallShape(k), RpcShape(k, r),
         call' \in [Threads -> Call], rpc' \in [Threads -> Rpc],
         call'[t] = k, rpc'[t] = r,
         \A u \in Threads \ {t} :
            /\ rpc'[u] = rpc[u]
            /\ call'[u] = call[u] \/ call'[u] = [call[u] EXCEPT !.itr = FALSE],
         file_handle_map_' \in [Clients -> [Paths -> Handles \cup {NoEntry}]],
         dentry' \in [Clients -> SUBSET Paths], opened' \in [Clients -> SUBSET Files]
  PROVE  TInv'
<1>1. TypeOK'
  BY DEF TInv, TypeOK, ServerTypeOK, tree
<1>2. ASSUME NEW u \in Threads
      PROVE  CallShape(call'[u]) /\ RpcShape(call'[u], rpc'[u])
  <2>1. CASE u = t
    BY <2>1
  <2>2. CASE u # t
    <3>1. CallShape(call[u]) /\ RpcShape(call[u], rpc[u]) /\ call[u] \in Call
      BY DEF TInv, ShapeOK, TypeOK
    <3>2. /\ call'[u].op = call[u].op /\ call'[u].path = call[u].path
          /\ call'[u].to = call[u].to /\ call'[u].pc = call[u].pc
          /\ rpc'[u] = rpc[u]
      BY <2>2, <3>1 DEF Call
    <3> QED BY <3>1, <3>2 DEF CallShape, RpcShape
  <2> QED BY <2>1, <2>2
<1>3. LateOK'
  BY LateKept
<1>4. ShapeOK'
  BY <1>2, <1>3 DEF ShapeOK, LateOK, CallShape, RpcShape
<1> QED BY <1>1, <1>4 DEF TInv

\* A step in which only t's own call moves.
LEMMA CallStepTInv ==
  ASSUME TInv, NEW t \in Threads, NEW k \in Call, CallShape(k), RpcShape(k, rpc[t]),
         call' = [call EXCEPT ![t] = k], UNCHANGED <<serverVars, file_handle_map_>>,
         dentry' \in [Clients -> SUBSET Paths], opened' \in [Clients -> SUBSET Files]
  PROVE  TInv'
<1>1. /\ call \in [Threads -> Call] /\ rpc \in [Threads -> Rpc]
      /\ file_handle_map_ \in [Clients -> [Paths -> Handles \cup {NoEntry}]]
  BY DEF TInv, TypeOK, ServerTypeOK
<1>2. /\ rpc' = rpc /\ file_handle_map_' = file_handle_map_ /\ UNCHANGED <<tree, up, faults, late>>
      /\ call' \in [Threads -> Call] /\ call'[t] = k
      /\ \A u \in Threads \ {t} : call'[u] = call[u]
  BY <1>1 DEF serverVars, tree
<1> QED BY <1>1, <1>2, OneThread

LEMMA SendTInv ==
  ASSUME TInv, NEW t \in Threads, NEW op \in RpcOps, NEW fh \in Handles, NEW itr \in BOOLEAN,
         call[t].op # "none", IssuedBy(op, call[t].op), Send(t, op, fh, itr)
  PROVE  TInv'
<1> DEFINE k == [call[t] EXCEPT !.pc = "rpc", !.itr = itr]
<1> DEFINE r == [NoRpc EXCEPT !.st = "sent", !.op = op, !.path = call[t].path,
                              !.to = call[t].to, !.flags = call[t].flags, !.fh = fh]
<1>1. /\ call \in [Threads -> Call] /\ call[t] \in Call /\ rpc \in [Threads -> Rpc]
      /\ CallShape(call[t])
      /\ file_handle_map_ \in [Clients -> [Paths -> Handles \cup {NoEntry}]]
      /\ dentry \in [Clients -> SUBSET Paths] /\ opened \in [Clients -> SUBSET Files]
  BY DEF TInv, TypeOK, ServerTypeOK, ShapeOK
<1>2. /\ k \in Call /\ k.pc = "rpc" /\ k.op = call[t].op
      /\ k.path = call[t].path /\ k.to = call[t].to
  BY <1>1 DEF Call
<1>3. /\ r \in Rpc /\ r.st = "sent" /\ r.op = op
      /\ r.path = call[t].path /\ r.to = call[t].to
  BY <1>1 DEF Rpc, NoRpc, Call, Statuses
<1>4. CallShape(k) /\ RpcShape(k, r)
  BY <1>1, <1>2, <1>3 DEF CallShape, RpcShape
<1>5. /\ call' \in [Threads -> Call] /\ call'[t] = k
      /\ \A u \in Threads \ {t} : call'[u] = call[u]
  BY <1>1, <1>2 DEF Send
<1>6. /\ rpc' \in [Threads -> Rpc] /\ rpc'[t] = r
      /\ \A u \in Threads \ {t} : rpc'[u] = rpc[u]
      /\ UNCHANGED <<tree, up, faults, late, file_handle_map_, dentry, opened>>
  BY <1>1, <1>3 DEF Send
<1> HIDE DEF k, r
<1> QED BY <1>1, <1>2, <1>3, <1>4, <1>5, <1>6, OneThread

LEMMA LeaveTInv ==
  ASSUME TInv, NEW t \in Threads, NEW pc \in {"start", "open", "done"},
         NEW ret \in {"zero", "count", "EPERM", "ENOENT", "EBADR"},
         NEW m \in [Paths -> Handles \cup {NoEntry}],
         pc = "open" => call[t].op \in {"create"} \cup HandleOps, Leave(t, pc, ret, m)
  PROVE  TInv'
<1> DEFINE k == [call[t] EXCEPT !.pc = pc, !.itr = FALSE, !.tries = 0, !.ret = ret]
<1> DEFINE D(u) == /\ u # t /\ ClientOf(u) = ClientOf(t)
                   /\ m[call[u].path] = NoEntry
<1> DEFINE K(u) == IF u = t THEN k ELSE IF D(u) THEN [call[u] EXCEPT !.itr = FALSE] ELSE call[u]
<1>1. /\ call \in [Threads -> Call] /\ call[t] \in Call /\ rpc \in [Threads -> Rpc]
      /\ CallShape(call[t]) /\ ClientOf(t) \in Clients
      /\ file_handle_map_ \in [Clients -> [Paths -> Handles \cup {NoEntry}]]
      /\ dentry \in [Clients -> SUBSET Paths] /\ opened \in [Clients -> SUBSET Files]
  BY ThreadClient DEF TInv, TypeOK, ServerTypeOK, ShapeOK
<1>2. k \in Call /\ k.pc = pc /\ k.op = call[t].op /\ k.path = call[t].path /\ k.to = call[t].to
  BY <1>1, TriesType DEF Call
<1>3. CallShape(k) /\ RpcShape(k, NoRpc)
  BY <1>1, <1>2 DEF CallShape, RpcShape, NoRpc
<1>4. \A u \in Threads : K(u) \in Call
  <2> SUFFICES ASSUME NEW u \in Threads PROVE K(u) \in Call
    OBVIOUS
  <2>1. [call[u] EXCEPT !.itr = FALSE] \in Call /\ call[u] \in Call
    BY <1>1 DEF Call
  <2> QED BY <2>1, <1>2
<1>5. /\ call' = [u \in Threads |-> K(u)]
      /\ rpc' = [rpc EXCEPT ![t] = NoRpc]
      /\ file_handle_map_' = [file_handle_map_ EXCEPT ![ClientOf(t)] = m]
      /\ UNCHANGED <<tree, up, faults, late, dentry, opened>>
  BY DEF Leave
<1>6. /\ call' \in [Threads -> Call] /\ call'[t] = k
      /\ \A u \in Threads \ {t} :
           call'[u] = call[u] \/ call'[u] = [call[u] EXCEPT !.itr = FALSE]
  BY <1>4, <1>5
<1>7. /\ rpc' \in [Threads -> Rpc] /\ rpc'[t] = NoRpc
      /\ \A u \in Threads \ {t} : rpc'[u] = rpc[u]
      /\ file_handle_map_' \in [Clients -> [Paths -> Handles \cup {NoEntry}]]
  BY <1>1, <1>5, NoRpcType
<1> HIDE DEF k, K
<1> QED BY <1>1, <1>2, <1>3, <1>5, <1>6, <1>7, NoRpcType, OneThread

LEMMA DieTInv ==
  ASSUME TInv, NEW c \in Clients, NEW k \in Call, k.op = "none", k.pc \in {"idle", "gone"},
         NEW D \in SUBSET Paths, Die(c, k, D), faults' \in 0..MaxFaults
  PROVE  TInv'
<1> DEFINE own == {u \in Threads : ClientOf(u) = c}
<1> DEFINE K(u) == IF u \in own THEN k ELSE call[u]
<1> DEFINE R(u) == IF u \in own THEN NoRpc ELSE rpc[u]
<1>1. /\ call \in [Threads -> Call] /\ rpc \in [Threads -> Rpc]
      /\ \A u \in Threads : CallShape(call[u]) /\ RpcShape(call[u], rpc[u])
      /\ file_handle_map_ \in [Clients -> [Paths -> Handles \cup {NoEntry}]]
      /\ dentry \in [Clients -> SUBSET Paths] /\ opened \in [Clients -> SUBSET Files]
      /\ entry \in [Files -> Inodes \cup {NoInode}] /\ dirs \in SUBSET Dirs
      /\ born \in SUBSET Inodes /\ up \in BOOLEAN
  BY DEF TInv, TypeOK, ServerTypeOK, ShapeOK
<1>2. /\ call' = [u \in Threads |-> K(u)] /\ rpc' = [u \in Threads |-> R(u)]
      /\ late' = late \cup LeftBehind(own) /\ UNCHANGED <<tree, up>>
  BY DEF Die
<1>3. /\ file_handle_map_' \in [Clients -> [Paths -> Handles \cup {NoEntry}]]
      /\ dentry' \in [Clients -> SUBSET Paths] /\ opened' \in [Clients -> SUBSET Files]
  <2>1. [p \in Paths |-> NoEntry] \in [Paths -> Handles \cup {NoEntry}]
    OBVIOUS
  <2> QED BY <1>1, <2>1 DEF Die
<1>4. \A u \in Threads : K(u) \in Call /\ R(u) \in Rpc
  BY <1>1, NoRpcType
<1>5. LateOK'
  BY <1>2, LateGrown
<1>6. TypeOK'
  BY <1>1, <1>2, <1>3, <1>4, <1>5 DEF TypeOK, ServerTypeOK, LateOK, tree
<1>7. ASSUME NEW u \in Threads
      PROVE  CallShape(K(u)) /\ RpcShape(K(u), R(u))
  <2>1. CASE u \in own
    BY <2>1 DEF CallShape, RpcShape, NoRpc, HandleOps
  <2>2. CASE u \notin own
    BY <2>2, <1>1
  <2> QED BY <2>1, <2>2
<1>8. \A u \in Threads : call'[u] = K(u) /\ rpc'[u] = R(u)
  BY <1>2
<1> HIDE DEF K, R, own
<1>9. ShapeOK'
  BY <1>5, <1>7, <1>8 DEF ShapeOK, LateOK, CallShape, RpcShape
<1> QED BY <1>6, <1>9 DEF TInv

LEMMA RemountTInv ==
  ASSUME TInv, NEW c \in Clients, Remount(c), faults' \in 0..MaxFaults
  PROVE  TInv'
<1>1. IdleCall \in Call /\ IdleCall.op = "none" /\ IdleCall.pc = "idle"
  BY IdleCallType DEF IdleCall, Started
<1>2. Existing \in SUBSET Paths
  BY DEF Existing
<1> QED BY <1>1, <1>2, DieTInv DEF Remount

LEMMA AbortTInv ==
  ASSUME TInv, NEW c \in Clients, Abort(c)
  PROVE  TInv'
<1> DEFINE k == [IdleCall EXCEPT !.pc = "gone"]
<1>1. k \in Call /\ k.op = "none" /\ k.pc = "gone"
  BY IdleCallType DEF IdleCall, Started, Call
<1>2. Die(c, k, {}) /\ faults' \in 0..MaxFaults
  BY DEF Abort, TInv, TypeOK, ServerTypeOK
<1>3. {} \in SUBSET Paths
  OBVIOUS
<1> HIDE DEF k
<1> QED BY <1>1, <1>2, <1>3, DieTInv

LEMMA DispatchTInv ==
  ASSUME TInv, NEW t \in Threads, NEW op \in PathOps \cup HandleOps,
         NEW p \in Paths, NEW q \in Paths, NEW flags \in {"none", "noreplace", "exchange"},
         op \in {"open", "create", "unlink"} \cup HandleOps => p \in Files,
         op \in {"mkdir", "rmdir", "readdir"} => p \in Dirs,
         op = "rename" => (p \in Files <=> q \in Files),
         Dispatch(t, op, p, q, flags)
  PROVE  TInv'
<1> DEFINE k == Started(op, p, q, flags, FALSE)
<1>1. /\ dentry \in [Clients -> SUBSET Paths] /\ opened \in [Clients -> SUBSET Files]
      /\ RpcShape(call[t], rpc[t]) /\ call[t].pc = "idle"
  BY DEF TInv, TypeOK, ShapeOK, Dispatch
<1>2. k \in Call
  BY StartedType
<1>3. CallShape(k) /\ RpcShape(k, rpc[t])
  BY <1>1 DEF CallShape, RpcShape, Started
<1>4. /\ call' = [call EXCEPT ![t] = k]
      /\ UNCHANGED <<serverVars, file_handle_map_, dentry, opened>>
  BY DEF Dispatch
<1> HIDE DEF k
<1> QED BY <1>1, <1>2, <1>3, <1>4, CallStepTInv

LEMMA KernelTInv ==
  ASSUME TInv, NEW t \in Threads, Kernel(t)
  PROVE  TInv'
<1>1. ASSUME NEW f \in Files, DispatchFile(t, f)
      PROVE  TInv'
  <2>1. PICK op \in {"getattr", "open", "unlink", "create"} : Dispatch(t, op, f, f, "none")
    BY <1>1 DEF DispatchFile
  <2> QED BY <2>1, DispatchTInv DEF PathOps, HandleOps, Paths
<1>2. ASSUME NEW f \in Files, DispatchIO(t, f)
      PROVE  TInv'
  <2>1. PICK op \in HandleOps : Dispatch(t, op, f, f, "none")
    BY <1>2 DEF DispatchIO
  <2> QED BY <2>1, DispatchTInv DEF HandleOps, Paths
<1>3. ASSUME NEW d \in Dirs, DispatchDir(t, d)
      PROVE  TInv'
  <2>1. PICK op \in {"getattr", "readdir", "mkdir", "rmdir"} : Dispatch(t, op, d, d, "none")
    BY <1>3 DEF DispatchDir
  <2> QED BY <2>1, DispatchTInv DEF PathOps, HandleOps, Paths
<1>4. ASSUME NEW p \in Paths, NEW q \in Paths, DispatchRename(t, p, q)
      PROVE  TInv'
  <2>1. /\ p \in Files <=> q \in Files
        /\ \E flags \in RenameFlags : Dispatch(t, "rename", p, q, flags)
    BY <1>4, ProtoAssumption DEF DispatchRename, Paths
  <2> QED BY <2>1, DispatchTInv, ProtoAssumption DEF PathOps, HandleOps
<1> QED BY <1>1, <1>2, <1>3, <1>4 DEF Kernel

\* What the kernel believes stays a set of paths, and its open files are files.
LEMMA RenamedType ==
  ASSUME NEW p \in Paths, NEW q \in Paths, p \in Files <=> q \in Files
  PROVE  /\ \A S \in SUBSET Paths : /\ MovedNames(S, p, q) \subseteq Paths
                                    /\ SwappedNames(S, p, q) \subseteq Paths
         /\ \A S \in SUBSET Files : /\ MovedNames(S, p, q) \subseteq Files
                                    /\ SwappedNames(S, p, q) \subseteq Files
<1>1. \A r \in Paths : Under(r, p) => Image(r, p, q) \in Paths
  BY ProtoAssumption DEF Under, Image, Dir, Files, Paths
<1>2. \A r \in Paths : Under(r, q) => Image(r, q, p) \in Paths
  BY ProtoAssumption DEF Under, Image, Dir, Files, Paths
<1>3. \A r \in Files : Under(r, p) => Image(r, p, q) \in Files
  BY ProtoAssumption DEF Under, Image, Dir, Files, Paths
<1>4. \A r \in Files : Under(r, q) => Image(r, q, p) \in Files
  BY ProtoAssumption DEF Under, Image, Dir, Files, Paths
<1> QED BY <1>1, <1>2, <1>3, <1>4 DEF MovedNames, SwappedNames

LEMMA FinishTInv ==
  ASSUME TInv, NEW t \in Threads, Finish(t)
  PROVE  TInv'
<1> DEFINE c == ClientOf(t)
<1> DEFINE k == call[t]
<1> DEFINE ok == k.ret \in {"zero", "count"}
<1> DEFINE Renamed(S) == IF k.flags = "exchange" THEN SwappedNames(S, k.path, k.to)
                                                 ELSE MovedNames(S, k.path, k.to)
<1> DEFINE n == IF k.op \in {"create", "mkdir"} /\ ok
                  THEN Started("getattr", k.path, k.path, "none", TRUE)
                ELSE IF k.op = "getattr" /\ k.chain /\ ~ok /\ k.path \in Files
                  THEN Started("release", k.path, k.path, "none", FALSE)
                ELSE IdleCall
<1>1. /\ k \in Call /\ CallShape(k) /\ RpcShape(k, rpc[t]) /\ k.pc = "done" /\ c \in Clients
      /\ dentry \in [Clients -> SUBSET Paths] /\ opened \in [Clients -> SUBSET Files]
  BY ThreadClient DEF TInv, TypeOK, ShapeOK, Finish
<1>2. k.path \in Paths /\ k.to \in Paths /\ k.op \in {"none"} \cup PathOps \cup HandleOps
  BY <1>1 DEF Call
<1>3. n \in Call
  BY <1>2, StartedType, IdleCallType DEF PathOps, HandleOps
<1>4. CallShape(n) /\ RpcShape(n, rpc[t])
  BY <1>1 DEF CallShape, RpcShape, Started, IdleCall, HandleOps
<1>5. k.op = "rename" => /\ \A S \in SUBSET Paths : Renamed(S) \subseteq Paths
                         /\ \A S \in SUBSET Files : Renamed(S) \subseteq Files
  BY <1>1, <1>2, RenamedType DEF CallShape
<1>6. dentry' \in [Clients -> SUBSET Paths]
  <2> DEFINE Q == IF k.op = "getattr"
                    THEN IF ok THEN dentry[c] \cup {k.path}
                               ELSE dentry[c] \ Below(dentry[c], k.path)
                  ELSE IF k.op \in {"unlink", "rmdir"} /\ ok
                    THEN dentry[c] \ Below(dentry[c], k.path)
                  ELSE IF k.op = "rename" /\ ok THEN Renamed(dentry[c])
                  ELSE dentry[c]
  <2>1. Q \in SUBSET Paths
    BY <1>1, <1>2, <1>5
  <2>2. dentry' = [dentry EXCEPT ![c] = Q]
    BY DEF Finish
  <2> HIDE DEF Q
  <2> QED BY <1>1, <2>1, <2>2
<1>7. opened' \in [Clients -> SUBSET Files]
  <2> DEFINE Q == IF (k.op = "open" \/ (k.chain /\ k.path \in Files)) /\ ok
                    THEN opened[c] \cup {k.path}
                  ELSE IF k.op = "release" THEN opened[c] \ {k.path}
                  ELSE IF k.op = "rename" /\ ok THEN Renamed(opened[c])
                  ELSE opened[c]
  <2>1. Q \in SUBSET Files
    BY <1>1, <1>2, <1>5 DEF CallShape
  <2>2. opened' = [opened EXCEPT ![c] = Q]
    BY DEF Finish
  <2> HIDE DEF Q
  <2> QED BY <1>1, <2>1, <2>2
<1>8. call' = [call EXCEPT ![t] = n] /\ UNCHANGED <<serverVars, file_handle_map_>>
  BY DEF Finish
<1> HIDE DEF n
<1> QED BY <1>3, <1>4, <1>6, <1>7, <1>8, CallStepTInv

LEMMA ReconnectTInv ==
  ASSUME TInv, NEW t \in Threads, EnterReconnect(t) \/ Reconnect_To_Server(t)
  PROVE  TInv'
<1>1. /\ call[t] \in Call /\ call \in [Threads -> Call] /\ rpc[t] \in Rpc
      /\ CallShape(call[t]) /\ RpcShape(call[t], rpc[t])
      /\ dentry \in [Clients -> SUBSET Paths] /\ opened \in [Clients -> SUBSET Files]
  BY DEF TInv, TypeOK, ServerTypeOK, ShapeOK
<1>2. /\ UNCHANGED <<serverVars, file_handle_map_, dentry, opened>>
      /\ call[t].pc \in {"rpc", "reconnect"}
      /\ \/ \E pc \in {"reconnect", "resume"} : call' = [call EXCEPT ![t].pc = pc]
         \/ /\ call[t].tries < RETRY_TIMEOUT
            /\ call' = [call EXCEPT ![t].tries = @ + 1]
  BY DEF EnterReconnect, Reconnect_To_Server
<1>3. ASSUME NEW pc \in {"reconnect", "resume"}, call' = [call EXCEPT ![t].pc = pc]
      PROVE  TInv'
  <2> DEFINE k == [call[t] EXCEPT !.pc = pc]
  <2>1. k \in Call /\ k.pc = pc /\ k.op = call[t].op /\ k.path = call[t].path /\ k.to = call[t].to
    BY <1>1 DEF Call
  <2>2. CallShape(k) /\ RpcShape(k, rpc[t])
    BY <1>1, <2>1 DEF CallShape, RpcShape
  <2>3. call' = [call EXCEPT ![t] = k]
    BY <1>3
  <2> HIDE DEF k
  <2> QED BY <1>1, <1>2, <2>1, <2>2, <2>3, CallStepTInv
<1>4. ASSUME call[t].tries < RETRY_TIMEOUT, call' = [call EXCEPT ![t].tries = @ + 1]
      PROVE  TInv'
  <2> DEFINE k == [call[t] EXCEPT !.tries = @ + 1]
  <2>1. call[t].tries + 1 \in 0..RETRY_TIMEOUT
    BY <1>1, <1>4, ProtoAssumption DEF Call
  <2>2. /\ k \in Call /\ k.pc = call[t].pc /\ k.op = call[t].op
        /\ k.path = call[t].path /\ k.to = call[t].to
    BY <1>1, <2>1 DEF Call
  <2>3. CallShape(k) /\ RpcShape(k, rpc[t])
    BY <1>1, <2>2 DEF CallShape, RpcShape
  <2>4. call' = [call EXCEPT ![t] = k]
    BY <1>4
  <2> HIDE DEF k
  <2> QED BY <1>1, <1>2, <2>2, <2>3, <2>4, CallStepTInv
<1> QED BY <1>2, <1>3, <1>4

\* The maps a callback can leave behind.
LEMMA MapType ==
  ASSUME TInv, NEW t \in Threads
  PROVE  /\ Map(t) \in [Paths -> Handles \cup {NoEntry}]
         /\ call[t].path \in Paths /\ call[t].to \in Paths
         /\ rpc[t].fh \in Handles
         /\ \A p \in Paths : Without(Map(t), p) \in [Paths -> Handles \cup {NoEntry}]
         /\ \A p \in Paths, h \in Handles :
              [Map(t) EXCEPT ![p] = h] \in [Paths -> Handles \cup {NoEntry}]
         /\ \A p, q \in Paths : MoveHandle(Map(t), p, q) \in [Paths -> Handles \cup {NoEntry}]
<1>1. /\ Map(t) \in [Paths -> Handles \cup {NoEntry}]
      /\ call[t] \in Call /\ rpc[t] \in Rpc
  BY ThreadClient DEF TInv, TypeOK, ServerTypeOK, Map
<1>2. call[t].path \in Paths /\ call[t].to \in Paths /\ rpc[t].fh \in Handles
  BY <1>1 DEF Call, Rpc
<1> QED BY <1>1, <1>2 DEF Without, MoveHandle

LEMMA ReturnTInv ==
  ASSUME TInv, NEW t \in Threads,
         NEW ret \in {"zero", "count", "EPERM", "ENOENT", "EBADR"}, Return(t, ret)
  PROVE  TInv'
  BY MapType, LeaveTInv DEF Return

LEMMA DropStaleTInv ==
  ASSUME TInv, NEW t \in Threads, DropStale(t), call[t].op \in HandleOps
  PROVE  TInv'
<1>1. CASE \E p \in Paths : Leave(t, "open", "zero", Without(Map(t), p))
  BY <1>1, MapType, LeaveTInv
<1>2. CASE Abort(ClientOf(t))
  BY <1>2, AbortTInv, ThreadClient
<1> QED BY <1>1, <1>2, MapType DEF DropStale

LEMMA CallbackTInv ==
  ASSUME TInv, NEW t \in Threads, Callback(t)
  PROVE  TInv'
<1>1. /\ CallShape(call[t]) /\ RpcShape(call[t], rpc[t])
      /\ Find(t) # NoEntry => Find(t) \in Handles
      /\ EmptyHandle \in Handles
  BY MapType DEF TInv, ShapeOK, Find, Handles
<1>2. CASE getattr(t)
  BY <1>2, SendTInv, ReturnTInv
     DEF getattr, At, Get_File_Attributes, IssuedBy, RpcOps, Handles
<1>3. CASE readdir(t)
  BY <1>3, SendTInv, ReturnTInv DEF readdir, At, Read_Directory, IssuedBy, RpcOps, Handles
<1>4. CASE open(t)
  <2> DEFINE after == IF call[t].op \in {"open", "create"} THEN "done" ELSE "start"
  <2>1. CASE At(t, "open", "start") \/ call[t].pc = "open"
    <3>1. CASE Lookup_File(t)
      <4>1. call[t].op \in {"open", "create"} \cup HandleOps
        BY <2>1, <1>1 DEF At, CallShape
      <4>2. call[t].op # "none" /\ IssuedBy("Lookup", call[t].op) /\ "Lookup" \in RpcOps
        BY <4>1 DEF HandleOps, IssuedBy, RpcOps
      <4> QED BY <3>1, <4>2, <1>1, SendTInv DEF Lookup_File
    <3>2. CASE Leave(t, after, "zero", Map(t))
      BY <3>2, MapType, LeaveTInv
    <3>3. CASE Replied(t, "Lookup")
      BY <3>3, <2>1, <1>1 DEF Replied, RpcShape, At
    <3> QED BY <3>1, <3>2, <3>3, <1>4 DEF open
  <2>2. CASE Leave(t, after, "zero", [Map(t) EXCEPT ![call[t].path] = rpc[t].fh])
    <3>1. [Map(t) EXCEPT ![call[t].path] = rpc[t].fh] \in [Paths -> Handles \cup {NoEntry}]
      BY MapType
    <3> QED BY <2>2, <3>1, LeaveTInv
  <2> QED BY <2>1, <2>2, <1>4 DEF open
<1>5. ASSUME NEW op \in {"Read", "Write_Async", "Fsync"}, Replied(t, op)
      PROVE  call[t].op \in HandleOps
  BY <1>1, <1>5 DEF Replied, RpcShape, IssuedBy, HandleOps
<1>6. CASE read(t)
  BY <1>1, <1>5, <1>6, SendTInv, ReturnTInv, DropStaleTInv
     DEF read, At, Read_File, IssuedBy, RpcOps
<1>7. CASE write(t)
  BY <1>1, <1>5, <1>7, SendTInv, ReturnTInv, DropStaleTInv
     DEF write, At, Write_File_Async, IssuedBy, RpcOps
<1>8. CASE fsync(t)
  BY <1>1, <1>5, <1>8, SendTInv, ReturnTInv, DropStaleTInv
     DEF fsync, At, Fsync_File, IssuedBy, RpcOps
<1>9. CASE create(t)
  <2>1. CASE At(t, "create", "start") /\ Create_File(t)
    BY <1>1, <2>1, SendTInv DEF At, Create_File, IssuedBy, RpcOps
  <2>2. CASE Replied(t, "CreateFile")
    <3>1. call[t].op = "create"
      BY <2>2, <1>1 DEF Replied, RpcShape, IssuedBy
    <3> QED BY <3>1, <2>2, <1>1, <1>9, MapType, LeaveTInv, ReturnTInv
            DEF create, At, Replied, RpcShape
  <2> QED BY <2>1, <2>2, <1>9 DEF create
<1>10. CASE unlink(t)
  BY <1>1, <1>10, SendTInv, LeaveTInv, ReturnTInv, MapType
     DEF unlink, At, Delete_File, IssuedBy, RpcOps
<1>11. CASE mkdir(t)
  BY <1>1, <1>11, SendTInv, ReturnTInv DEF mkdir, At, Create_Directory, IssuedBy, RpcOps
<1>12. CASE rmdir(t)
  BY <1>1, <1>12, SendTInv, ReturnTInv DEF rmdir, At, Delete_Directory, IssuedBy, RpcOps
<1>13. CASE rename(t)
  BY <1>1, <1>13, SendTInv, LeaveTInv, ReturnTInv, MapType
     DEF rename, At, Rename_File, IssuedBy, RpcOps
<1>14. CASE EnterReconnect(t) \/ Reconnect_To_Server(t)
  BY <1>14, ReconnectTInv
<1> QED
  BY <1>2, <1>3, <1>4, <1>6, <1>7, <1>8, <1>9, <1>10, <1>11, <1>12, <1>13, <1>14 DEF Callback

LEMMA NextTInv == TInv /\ [Next]_vars => TInv'
<1> SUFFICES ASSUME TInv, [Next]_vars PROVE TInv'
  OBVIOUS
<1>1. ASSUME NEW t \in Threads, ClientStep(t)
      PROVE  TInv'
  BY <1>1, KernelTInv, CallbackTInv, FinishTInv DEF ClientStep
<1>2. CASE ServerStep
  BY <1>2, ServerStepTInv
<1>3. ASSUME NEW c \in Clients, ClientCrash(c)
      PROVE  TInv'
  <2>1. faults' \in 0..MaxFaults
    BY <1>3, ServerAssumption DEF ClientCrash, TInv, TypeOK, ServerTypeOK
  <2> QED BY <1>3, <2>1, RemountTInv DEF ClientCrash
<1>4. CASE UNCHANGED vars
  BY <1>4 DEF vars, serverVars, clientVars, TInv, TypeOK, ServerTypeOK, ShapeOK,
              CallShape, RpcShape, LateShape
<1> QED BY <1>1, <1>2, <1>3, <1>4 DEF Next

\* Type correctness of the composed system, whatever the clients, workers,
\* directories, workloads and faults: the fields of every RPC, callback, map
\* entry and tree entry keep to their types.
THEOREM TypeCorrect == Spec => []TypeOK
<1>1. TInv => TypeOK
  BY DEF TInv
<1> QED BY InitTInv, NextTInv, <1>1, PTL DEF Spec

-----------------------------------------------------------------------------
(* Handles of open files.                                                  *)

Threads1 == \A t, u \in Threads : ClientOf(t) = ClientOf(u) => t = u

LEMMA OneThreadPerClient == OneWorker => Threads1
<1> SUFFICES ASSUME OneWorker, NEW t \in Threads, NEW u \in Threads, ClientOf(t) = ClientOf(u)
             PROVE  t = u
  BY DEF Threads1
<1> PICK w : Workers = {w}
  BY DEF OneWorker
<1> QED BY DEF Threads, ClientOf

LEMMA IdleFields == /\ IdleCall.op = "none" /\ IdleCall.pc = "idle" /\ IdleCall.flags = "none"
                    /\ IdleCall.chain = FALSE
  BY DEF IdleCall, Started

LEMMA InitHandle == Init => HandleInv
<1> SUFFICES ASSUME Init, NEW t \in Threads PROVE CallKnows(t) /\ OpenEntry(t)
  BY DEF HandleInv
<1>1. call[t] = IdleCall /\ rpc[t].st = "none" /\ opened[ClientOf(t)] = {}
  BY ThreadClient DEF Init, ServerInit, NoRpc
<1>2. CallKnows(t)
  BY <1>1, IdleFields DEF CallKnows, Moved, At
<1>3. OpenEntry(t)
  BY <1>1 DEF OpenEntry
<1> QED BY <1>2, <1>3

\* What the invariant says of u depends on u's call and RPC and on the map and the
\* open files of u's client.
LEMMA Undisturbed ==
  ASSUME NEW u \in Threads, CallKnows(u) /\ OpenEntry(u),
         call'[u] = call[u],
         (rpc'[u].st = "none") = (rpc[u].st = "none"), rpc'[u].op = rpc[u].op,
         file_handle_map_'[ClientOf(u)] = file_handle_map_[ClientOf(u)],
         opened'[ClientOf(u)] = opened[ClientOf(u)]
  PROVE  CallKnows(u)' /\ OpenEntry(u)'
<1>1. CallKnows(u)'
  BY DEF CallKnows, Entry, Moved, At
<1>2. OpenEntry(u)'
  BY DEF OpenEntry, Entry, LookingUp, InStub, Moved, At
<1> QED BY <1>1, <1>2

LEMMA OneThreadHandle ==
  ASSUME HandleInv, NEW t \in Threads, CallKnows(t)', OpenEntry(t)',
         \A u \in Threads \ {t} :
           /\ call'[u] = call[u] /\ rpc'[u] = rpc[u]
           /\ file_handle_map_'[ClientOf(u)] = file_handle_map_[ClientOf(u)]
           /\ opened'[ClientOf(u)] = opened[ClientOf(u)]
  PROVE  HandleInv'
<1>1. ASSUME NEW u \in Threads, u # t
      PROVE  CallKnows(u)' /\ OpenEntry(u)'
  <2>1. CallKnows(u) /\ OpenEntry(u)
    BY DEF HandleInv
  <2>2. /\ call'[u] = call[u] /\ rpc'[u] = rpc[u]
        /\ file_handle_map_'[ClientOf(u)] = file_handle_map_[ClientOf(u)]
        /\ opened'[ClientOf(u)] = opened[ClientOf(u)]
    BY <1>1
  <2> QED BY <2>1, <2>2, Undisturbed
<1> QED BY <1>1 DEF HandleInv

LEMMA ReplyKeeps ==
  ASSUME TInv, NEW t \in Threads, rpc[t].st # "none", NEW s, NEW h, NEW d, Reply(t, s, h, d)
  PROVE  \A u \in Threads : /\ (rpc'[u].st = "none") = (rpc[u].st = "none")
                            /\ rpc'[u].op = rpc[u].op
<1>1. rpc \in [Threads -> Rpc]
  BY DEF TInv, TypeOK, ServerTypeOK
<1>2. Answer(rpc[t], s, h, d).st = "replied" /\ Answer(rpc[t], s, h, d).op = rpc[t].op
  BY <1>1 DEF Answer, Rpc
<1>3. rpc' = [rpc EXCEPT ![t] = Answer(rpc[t], s, h, d)]
  BY DEF Reply
<1> QED BY <1>1, <1>2, <1>3

LEMMA ExitKeeps ==
  ASSUME TInv, Exit
  PROVE  \A u \in Threads : /\ (rpc'[u].st = "none") = (rpc[u].st = "none")
                            /\ rpc'[u].op = rpc[u].op
<1> DEFINE A(u) == Answer(rpc[u], "UNAVAILABLE", EmptyHandle, 0)
<1>1. rpc \in [Threads -> Rpc]
  BY DEF TInv, TypeOK, ServerTypeOK
<1>2. \A u \in Threads : A(u).st = "replied" /\ A(u).op = rpc[u].op
  BY <1>1 DEF Answer, Rpc
<1>3. rpc' = [u \in Threads |-> IF rpc[u].st = "sent" THEN A(u) ELSE rpc[u]]
  BY DEF Exit
<1> HIDE DEF A
<1> QED BY <1>2, <1>3

LEMMA ServeKeeps ==
  ASSUME TInv, NEW t \in Threads, Serve(t)
  PROVE  \A u \in Threads : /\ (rpc'[u].st = "none") = (rpc[u].st = "none")
                            /\ rpc'[u].op = rpc[u].op
<1>1. rpc[t].st # "none"
  BY DEF Serve, Lookup, Read, Write_Async, Fsync, Readdir, Getattr, CreateFile, DeleteFile,
         CreateDirectory, DeleteDirectory, RenameFile, Requested
<1>2. Exit \/ \E s, h, d : Reply(t, s, h, d)
  <2>1. CASE Lookup(t)
    BY <2>1 DEF Lookup
  <2>2. CASE Read(t) \/ Write_Async(t) \/ Fsync(t)
    BY <2>2 DEF Read, Write_Async, Fsync, open_mount_path_by_id, open_by_handle_at
  <2>3. CASE Readdir(t) \/ Getattr(t) \/ CreateFile(t)
    BY <2>3 DEF Readdir, Getattr, CreateFile
  <2>4. CASE DeleteFile(t) \/ CreateDirectory(t) \/ DeleteDirectory(t)
    BY <2>4 DEF DeleteFile, CreateDirectory, DeleteDirectory
  <2>5. CASE RenameFile(t)
    BY <2>5 DEF RenameFile
  <2> QED BY <2>1, <2>2, <2>3, <2>4, <2>5 DEF Serve
<1> QED BY <1>1, <1>2, ReplyKeeps, ExitKeeps

LEMMA ServerStepHandle ==
  ASSUME HInv, ServerStep
  PROVE  HandleInv'
<1>1. \A u \in Threads : /\ (rpc'[u].st = "none") = (rpc[u].st = "none")
                         /\ rpc'[u].op = rpc[u].op
  <2>1. ASSUME NEW t \in Threads, Serve(t) \/ Refuse(t) \/ LoseRpc(t) \/ RpcUnavailable(t)
        PROVE  \A u \in Threads : /\ (rpc'[u].st = "none") = (rpc[u].st = "none")
                                  /\ rpc'[u].op = rpc[u].op
    BY <2>1, ServeKeeps, ReplyKeeps DEF HInv, Refuse, LoseRpc, RpcUnavailable
  <2>2. CASE ServerCrash
    BY <2>2, ExitKeeps DEF HInv, ServerCrash
  <2>3. CASE RunServer
    BY <2>3 DEF RunServer
  <2>4. ASSUME NEW x \in late, ServeLate(x)
        PROVE  \A u \in Threads : /\ (rpc'[u].st = "none") = (rpc[u].st = "none")
                                  /\ rpc'[u].op = rpc[u].op
    BY <2>4, ExitKeeps DEF HInv, ServeLate
  <2> QED BY <2>1, <2>2, <2>3, <2>4 DEF ServerStep
<1>2. UNCHANGED <<file_handle_map_, call, dentry, opened>>
  BY DEF ServerStep, clientVars
<1>3. ASSUME NEW u \in Threads
      PROVE  CallKnows(u)' /\ OpenEntry(u)'
  <2>1. CallKnows(u) /\ OpenEntry(u)
    BY DEF HInv, HandleInv
  <2> QED BY <1>1, <1>2, <2>1, Undisturbed
<1> QED BY <1>3 DEF HandleInv

-----------------------------------------------------------------------------
(* HandleInv is preserved by the steps of a client.                        *)

\* With one worker the other threads belong to other clients.
LEMMA ClientHandle ==
  ASSUME HInv, Threads1, NEW t \in Threads, CallKnows(t)', OpenEntry(t)',
         \A u \in Threads : ClientOf(u) # ClientOf(t) =>
           /\ call'[u] = call[u] /\ rpc'[u] = rpc[u]
           /\ file_handle_map_'[ClientOf(u)] = file_handle_map_[ClientOf(u)]
           /\ opened'[ClientOf(u)] = opened[ClientOf(u)]
  PROVE  HandleInv'
<1>1. HandleInv
  BY DEF HInv
<1>2. \A u \in Threads \ {t} : ClientOf(u) # ClientOf(t)
  BY DEF Threads1
<1> QED BY <1>1, <1>2, OneThreadHandle

\* What is known of a thread that is not in the middle of a lookup or a rename.
LEMMA Settled ==
  ASSUME HInv, NEW t \in Threads, ~LookingUp(t), ~Moved(t)
  PROVE  \A f \in opened[ClientOf(t)] : Entry(t, f) # NoEntry
  BY DEF HInv, HandleInv, OpenEntry

LEMMA SendHandle ==
  ASSUME HInv, Threads1, NEW t \in Threads, NEW op \in RpcOps, NEW fh \in Handles,
         NEW itr \in BOOLEAN, Send(t, op, fh, itr),
         op \in HandleRpcs => itr = TRUE,
         call[t].pc \in {"start", "open"}, call[t].pc = "open" => op = "Lookup"
  PROVE  HandleInv'
<1> DEFINE k == [call[t] EXCEPT !.pc = "rpc", !.itr = itr]
<1> DEFINE r == [NoRpc EXCEPT !.st = "sent", !.op = op, !.path = call[t].path,
                              !.to = call[t].to, !.flags = call[t].flags, !.fh = fh]
<1>1. /\ call \in [Threads -> Call] /\ call[t] \in Call /\ rpc \in [Threads -> Rpc]
      /\ RpcShape(call[t], rpc[t]) /\ CallKnows(t) /\ OpenEntry(t)
  BY DEF HInv, TInv, TypeOK, ServerTypeOK, ShapeOK, HandleInv
<1>2. /\ k.pc = "rpc" /\ k.op = call[t].op /\ k.path = call[t].path /\ k.to = call[t].to
      /\ k.flags = call[t].flags /\ k.chain = call[t].chain /\ k.itr = itr
  BY <1>1 DEF Call
<1>3. r.st = "sent" /\ r.op = op
  BY DEF NoRpc
<1>4. /\ call'[t] = k /\ rpc'[t] = r
      /\ \A u \in Threads \ {t} : call'[u] = call[u] /\ rpc'[u] = rpc[u]
      /\ UNCHANGED <<file_handle_map_, opened>>
  BY <1>1 DEF Send
<1> HIDE DEF k, r
<1>5. CallKnows(t)'
  BY <1>1, <1>2, <1>3, <1>4 DEF CallKnows, Entry, Moved, At
<1>6. rpc[t].st = "none"
  BY <1>1 DEF RpcShape
<1>7. OpenEntry(t)'
  BY <1>1, <1>2, <1>3, <1>4, <1>6 DEF OpenEntry, Entry, LookingUp, InStub, Moved, At
<1> QED BY <1>4, <1>5, <1>7, ClientHandle

\* A callback leaves its stub with the map m: what m has to keep.
LEMMA LeaveHandle ==
  ASSUME HInv, Threads1, NEW t \in Threads, NEW pc \in {"start", "open", "done"},
         NEW ret \in {"zero", "count", "EPERM", "ENOENT", "EBADR"},
         NEW m \in [Paths -> Handles \cup {NoEntry}], Leave(t, pc, ret, m),
         \A f \in opened[ClientOf(t)] : m[f] = NoEntry =>
            /\ f = call[t].path
            /\ \/ call[t].op \in HandleOps /\ pc = "open"
               \/ call[t].op = "rename" /\ pc = "done" /\ ret \in {"zero", "count"},
         call[t].op = "rename" /\ pc = "done" /\ ret \in {"zero", "count"}
           /\ call[t].path \in opened[ClientOf(t)] => m[call[t].to] # NoEntry,
         call[t].op = "open" /\ pc = "done" => m[call[t].path] # NoEntry,
         call[t].op = "create" /\ pc = "done" /\ ret \in {"zero", "count"}
           => m[call[t].path] # NoEntry,
         call[t].chain /\ call[t].path \in Files => m[call[t].path] # NoEntry
  PROVE  HandleInv'
<1> DEFINE k == [call[t] EXCEPT !.pc = pc, !.itr = FALSE, !.tries = 0, !.ret = ret]
<1>1. /\ call[t] \in Call /\ rpc \in [Threads -> Rpc] /\ CallKnows(t)
      /\ file_handle_map_ \in [Clients -> [Paths -> Handles \cup {NoEntry}]]
      /\ ClientOf(t) \in Clients
  BY ThreadClient DEF HInv, TInv, TypeOK, ServerTypeOK, HandleInv
<1>2. /\ k.pc = pc /\ k.op = call[t].op /\ k.path = call[t].path /\ k.to = call[t].to
      /\ k.flags = call[t].flags /\ k.chain = call[t].chain /\ k.ret = ret
  BY <1>1 DEF Call
<1>3. /\ call'[t] = k
      /\ \A u \in Threads : ClientOf(u) # ClientOf(t) => call'[u] = call[u]
  BY DEF Leave
<1>4. /\ rpc'[t] = NoRpc /\ NoRpc.st = "none"
      /\ \A u \in Threads : ClientOf(u) # ClientOf(t) => rpc'[u] = rpc[u]
  BY <1>1 DEF Leave, NoRpc
<1>5. /\ file_handle_map_'[ClientOf(t)] = m /\ opened' = opened
      /\ \A u \in Threads : ClientOf(u) # ClientOf(t) =>
           file_handle_map_'[ClientOf(u)] = file_handle_map_[ClientOf(u)]
  BY <1>1, ThreadClient DEF Leave
<1> HIDE DEF k
<1>6. CallKnows(t)'
  BY <1>1, <1>2, <1>3, <1>4, <1>5 DEF CallKnows, Entry, Moved, At
<1>7. OpenEntry(t)'
  BY <1>2, <1>3, <1>4, <1>5 DEF OpenEntry, Entry, LookingUp, Moved, At
<1> QED BY <1>3, <1>4, <1>5, <1>6, <1>7, ClientHandle

LEMMA ReturnHandle ==
  ASSUME HInv, Threads1, NEW t \in Threads,
         NEW ret \in {"zero", "count", "EPERM", "ENOENT", "EBADR"}, Return(t, ret),
         ~LookingUp(t), ~Moved(t), call[t].op # "open",
         call[t].op \in {"create", "rename"} => ret \notin {"zero", "count"}
  PROVE  HandleInv'
<1>1. Map(t) \in [Paths -> Handles \cup {NoEntry}] /\ CallKnows(t)
  BY MapType DEF HInv, HandleInv
<1>2. \A f \in opened[ClientOf(t)] : Map(t)[f] # NoEntry
  BY Settled DEF Entry, Map
<1>3. call[t].chain /\ call[t].path \in Files => Map(t)[call[t].path] # NoEntry
  BY <1>1 DEF CallKnows, Entry, Map
<1> QED BY <1>1, <1>2, <1>3, LeaveHandle DEF Return

\* A stale handle is dropped through the iterator its callback still has.
LEMMA DropStaleHandle ==
  ASSUME HInv, Threads1, NEW t \in Threads, DropStale(t), call[t].op \in HandleOps,
         rpc[t].st # "none", rpc[t].op \in HandleRpcs, ~LookingUp(t), ~Moved(t)
  PROVE  HandleInv'
<1>1. /\ Map(t) \in [Paths -> Handles \cup {NoEntry}] /\ CallKnows(t)
      /\ call[t].path \in Paths
      /\ Without(Map(t), call[t].path) \in [Paths -> Handles \cup {NoEntry}]
  BY MapType DEF HInv, HandleInv
<1>2. /\ call[t].itr /\ ~(call[t].chain /\ call[t].path \in Files)
      /\ call[t].op \notin {"open", "create", "rename"}
  BY <1>1 DEF CallKnows, HandleOps
<1>3. Leave(t, "open", "zero", Without(Map(t), call[t].path))
  BY <1>2 DEF DropStale
<1>4. \A f \in opened[ClientOf(t)] : Map(t)[f] # NoEntry
  BY Settled DEF Entry, Map
<1>5. \A f \in opened[ClientOf(t)] : f \in Paths
  BY ThreadClient DEF HInv, TInv, TypeOK, Paths
<1>6. \A f \in opened[ClientOf(t)] :
        Without(Map(t), call[t].path)[f] = NoEntry => f = call[t].path
  BY <1>1, <1>4, <1>5 DEF Without
<1> QED BY <1>1, <1>2, <1>3, <1>6, LeaveHandle

LEMMA ReconnectHandle ==
  ASSUME HInv, Threads1, NEW t \in Threads, EnterReconnect(t) \/ Reconnect_To_Server(t)
  PROVE  HandleInv'
<1>1. /\ call \in [Threads -> Call] /\ call[t] \in Call
      /\ CallKnows(t) /\ OpenEntry(t)
  BY DEF HInv, TInv, TypeOK, HandleInv
<1>2. /\ UNCHANGED <<rpc, file_handle_map_, opened>>
      /\ call[t].pc \in {"rpc", "reconnect"}
      /\ \A u \in Threads \ {t} : call'[u] = call[u]
      /\ \E k \in {call'[t]} :
           /\ k.pc \in {"reconnect", "resume"}
           /\ k.op = call[t].op /\ k.path = call[t].path /\ k.to = call[t].to
           /\ k.flags = call[t].flags /\ k.chain = call[t].chain /\ k.itr = call[t].itr
  <2>1. CASE EnterReconnect(t)
    BY <1>1, <2>1 DEF EnterReconnect, serverVars, Call
  <2>2. CASE Reconnect_To_Server(t)
    <3>1. call[t].pc = "reconnect" /\ UNCHANGED <<rpc, file_handle_map_, opened>>
      BY <2>2 DEF Reconnect_To_Server, serverVars
    <3>2. CASE call' = [call EXCEPT ![t].pc = "resume"]
      BY <1>1, <3>1, <3>2 DEF Call
    <3>3. CASE call' = [call EXCEPT ![t].tries = @ + 1]
      BY <1>1, <3>1, <3>3 DEF Call
    <3> QED BY <2>2, <3>2, <3>3 DEF Reconnect_To_Server
  <2> QED BY <2>1, <2>2
<1>3. CallKnows(t)'
  BY <1>1, <1>2 DEF CallKnows, Entry, Moved, At
<1>4. OpenEntry(t)'
  BY <1>1, <1>2 DEF OpenEntry, Entry, LookingUp, InStub, Moved, At
<1> QED BY <1>2, <1>3, <1>4, ClientHandle

\* A client that starts afresh holds nothing open.
LEMMA RemountHandle ==
  ASSUME HInv, NEW c \in Clients, Remount(c)
  PROVE  HandleInv'
<1> SUFFICES ASSUME NEW u \in Threads
             PROVE  CallKnows(u)' /\ OpenEntry(u)'
  BY DEF HandleInv
<1>1. /\ opened \in [Clients -> SUBSET Files]
      /\ file_handle_map_ \in [Clients -> [Paths -> Handles \cup {NoEntry}]]
      /\ CallKnows(u) /\ OpenEntry(u) /\ ClientOf(u) \in Clients
  BY ThreadClient DEF HInv, TInv, TypeOK, HandleInv
<1>2. CASE ClientOf(u) = c
  <2>1. call'[u] = IdleCall /\ rpc'[u].st = "none" /\ opened'[ClientOf(u)] = {}
    BY <1>1, <1>2 DEF Remount, Die, NoRpc
  <2>2. CallKnows(u)'
    BY <2>1, IdleFields DEF CallKnows, Moved, At
  <2>3. OpenEntry(u)'
    BY <2>1 DEF OpenEntry
  <2> QED BY <2>2, <2>3
<1>3. CASE ClientOf(u) # c
  <2>1. /\ call'[u] = call[u] /\ rpc'[u] = rpc[u]
        /\ file_handle_map_'[ClientOf(u)] = file_handle_map_[ClientOf(u)]
        /\ opened'[ClientOf(u)] = opened[ClientOf(u)]
    BY <1>1, <1>3 DEF Remount, Die
  <2> QED BY <1>1, <2>1, Undisturbed
<1> QED BY <1>2, <1>3

\* libfuse starts a callback: every open file has its entry by then.
LEMMA DispatchHandle ==
  ASSUME HInv, Threads1, NEW t \in Threads, NEW op \in PathOps \cup HandleOps,
         NEW p \in Paths, NEW q \in Paths, NEW flags \in {"none", "noreplace"},
         Dispatch(t, op, p, q, flags),
         op \in {"open", "create", "unlink"} => p \notin opened[ClientOf(t)],
         op = "rename" => /\ p \in Files /\ q \in Files /\ p # q
                          /\ q \notin opened[ClientOf(t)]
  PROVE  HandleInv'
<1> DEFINE k == Started(op, p, q, flags, FALSE)
<1>1. /\ call \in [Threads -> Call] /\ call[t].pc = "idle"
      /\ RpcShape(call[t], rpc[t]) /\ OpenEntry(t)
  BY DEF HInv, TInv, TypeOK, ShapeOK, HandleInv, Dispatch
<1>2. /\ k.op = op /\ k.path = p /\ k.to = q /\ k.flags = flags /\ k.pc = "start"
      /\ k.chain = FALSE
  BY DEF Started
<1>3. /\ call'[t] = k /\ UNCHANGED <<rpc, file_handle_map_, opened>>
      /\ \A u \in Threads \ {t} : call'[u] = call[u]
  BY <1>1 DEF Dispatch, serverVars
<1> HIDE DEF k
<1>4. rpc[t].st = "none"
  BY <1>1 DEF RpcShape
<1>5. \A f \in opened[ClientOf(t)] : Entry(t, f) # NoEntry
  BY <1>1, <1>4 DEF OpenEntry, LookingUp, InStub, Moved, At
<1>6. CallKnows(t)'
  BY <1>2, <1>3, <1>4 DEF CallKnows, Moved, At
<1>7. OpenEntry(t)'
  BY <1>3, <1>5 DEF OpenEntry, Entry
<1> QED BY <1>3, <1>6, <1>7, ClientHandle

LEMMA KernelHandle ==
  ASSUME HInv, Threads1, FlatTree, "exchange" \notin RenameFlags, NEW t \in Threads, Kernel(t)
  PROVE  HandleInv'
<1>1. Files \subseteq Paths /\ Dirs \subseteq Paths
  BY DEF Paths
<1>2. ASSUME NEW f \in Files, DispatchFile(t, f)
      PROVE  HandleInv'
  BY <1>1, <1>2, DispatchHandle DEF DispatchFile, PathOps
<1>3. ASSUME NEW f \in Files, DispatchIO(t, f)
      PROVE  HandleInv'
  BY <1>1, <1>3, DispatchHandle DEF DispatchIO, HandleOps
<1>4. ASSUME NEW d \in Dirs, DispatchDir(t, d)
      PROVE  HandleInv'
  BY <1>1, <1>4, DispatchHandle DEF DispatchDir, PathOps
<1>5. ASSUME NEW p \in Paths, NEW q \in Paths, DispatchRename(t, p, q)
      PROVE  HandleInv'
  <2>1. p \in Files /\ q \in Files /\ p # q
    BY <1>5 DEF DispatchRename, FlatTree, Paths
  <2>2. PICK flags \in RenameFlags : /\ flags # "exchange" => ~OpenBelow(ClientOf(t), q)
                                     /\ Dispatch(t, "rename", p, q, flags)
    BY <1>5 DEF DispatchRename
  <2>3. flags \in {"none", "noreplace"}
    BY ProtoAssumption
  <2>4. q \notin opened[ClientOf(t)]
    BY <2>2, <2>3 DEF OpenBelow, Under
  <2> QED BY <2>1, <2>2, <2>3, <2>4, DispatchHandle DEF PathOps
<1> QED BY <1>2, <1>3, <1>4, <1>5 DEF Kernel

LEMMA OpenHandle ==
  ASSUME HInv, Threads1, NEW t \in Threads, open(t)
  PROVE  HandleInv'
<1> DEFINE after == IF call[t].op \in {"open", "create"} THEN "done" ELSE "start"
<1>1. /\ CallShape(call[t]) /\ RpcShape(call[t], rpc[t]) /\ CallKnows(t) /\ OpenEntry(t)
      /\ Map(t) \in [Paths -> Handles \cup {NoEntry}]
      /\ call[t].path \in Paths /\ rpc[t].fh \in Handles /\ rpc[t].fh # NoEntry
      /\ [Map(t) EXCEPT ![call[t].path] = rpc[t].fh] \in [Paths -> Handles \cup {NoEntry}]
      /\ \A f \in opened[ClientOf(t)] : f \in Paths
  <2>1. CallShape(call[t]) /\ RpcShape(call[t], rpc[t]) /\ CallKnows(t) /\ OpenEntry(t)
    BY DEF HInv, TInv, ShapeOK, HandleInv
  <2>2. /\ Map(t) \in [Paths -> Handles \cup {NoEntry}]
        /\ call[t].path \in Paths /\ rpc[t].fh \in Handles
        /\ [Map(t) EXCEPT ![call[t].path] = rpc[t].fh] \in [Paths -> Handles \cup {NoEntry}]
    BY MapType DEF HInv
  <2>3. rpc[t].fh # NoEntry
    BY <2>2, ProtoAssumption
  <2>4. \A f \in opened[ClientOf(t)] : f \in Paths
    BY ThreadClient DEF HInv, TInv, TypeOK, Paths
  <2> QED BY <2>1, <2>2, <2>3, <2>4
<1>2. after \in {"start", "open", "done"} /\ after # "open"
  OBVIOUS
<1>3. ASSUME call[t].op \in {"open", "create"} \cup HandleOps,
             NEW m \in [Paths -> Handles \cup {NoEntry}], Leave(t, after, "zero", m),
             m[call[t].path] # NoEntry,
             \A f \in opened[ClientOf(t)] : f # call[t].path => m[f] = Map(t)[f]
      PROVE  HandleInv'
  <2>1. \A f \in opened[ClientOf(t)] : m[f] # NoEntry
    BY <1>1, <1>3 DEF OpenEntry, Entry, Map
  <2>2. call[t].op # "rename"
    BY <1>3 DEF HandleOps
  <2> QED BY <1>2, <1>3, <2>1, <2>2, LeaveHandle
<1>4. CASE (At(t, "open", "start") \/ call[t].pc = "open") /\ Find(t) # NoEntry
  <2>1. call[t].op \in {"open", "create"} \cup HandleOps
    BY <1>1, <1>4 DEF At, CallShape
  <2>2. ~Replied(t, "Lookup")
    BY <1>1, <1>4 DEF Replied, RpcShape, At
  <2>3. Leave(t, after, "zero", Map(t))
    BY <1>4, <2>2 DEF open
  <2> QED BY <1>1, <1>3, <1>4, <2>1, <2>3 DEF Find
<1>5. CASE (At(t, "open", "start") \/ call[t].pc = "open") /\ Find(t) = NoEntry
  <2>1. ~Replied(t, "Lookup")
    BY <1>1, <1>5 DEF Replied, RpcShape, At
  <2>2. Send(t, "Lookup", EmptyHandle, FALSE)
    BY <1>5, <2>1 DEF open, Lookup_File
  <2>3. call[t].pc \in {"start", "open"} /\ "Lookup" \in RpcOps /\ EmptyHandle \in Handles
    BY <1>5 DEF At, RpcOps, Handles
  <2> QED BY <2>2, <2>3, SendHandle DEF HandleRpcs
<1>6. CASE ~(At(t, "open", "start") \/ call[t].pc = "open")
  <2>1. /\ Replied(t, "Lookup")
        /\ Leave(t, after, "zero", [Map(t) EXCEPT ![call[t].path] = rpc[t].fh])
    BY <1>6 DEF open
  <2>2. call[t].op \in {"open", "create"} \cup HandleOps
    BY <1>1, <2>1 DEF Replied, RpcShape, IssuedBy
  <2> HIDE DEF after
  <2> QED BY <1>1, <1>3, <2>1, <2>2
<1> QED BY <1>4, <1>5, <1>6

\* The callbacks that hold an iterator across their RPC.
LEMMA HeldHandle ==
  ASSUME HInv, Threads1, NEW t \in Threads, read(t) \/ write(t) \/ fsync(t)
  PROVE  HandleInv'
<1>1. /\ CallShape(call[t]) /\ RpcShape(call[t], rpc[t]) /\ CallKnows(t)
      /\ Find(t) # NoEntry => Find(t) \in Handles
  BY MapType DEF HInv, TInv, ShapeOK, HandleInv, Find
<1>2. ASSUME NEW op \in HandleRpcs, Replied(t, op)
      PROVE  /\ call[t].op \in HandleOps /\ rpc[t].st # "none" /\ rpc[t].op \in HandleRpcs
             /\ ~LookingUp(t) /\ ~Moved(t)
  BY <1>1, <1>2 DEF Replied, RpcShape, IssuedBy, HandleOps, HandleRpcs, LookingUp, InStub, Moved, At
<1>3. ASSUME NEW op \in HandleRpcs, Replied(t, op),
             NEW ret \in {"zero", "count", "EPERM", "ENOENT", "EBADR"},
             DropStale(t) \/ Return(t, ret)
      PROVE  HandleInv'
  BY <1>2, <1>3, DropStaleHandle, ReturnHandle DEF HandleOps
<1>4. ASSUME call[t].op \in HandleOps, call[t].pc = "start",
             NEW ret \in {"EPERM", "EBADR"},
             NEW op \in HandleRpcs,
             Return(t, ret) \/ (Find(t) # NoEntry /\ Send(t, op, Find(t), TRUE))
      PROVE  HandleInv'
  <2>1. ~LookingUp(t) /\ ~Moved(t)
    BY <1>1, <1>4 DEF RpcShape, LookingUp, InStub, Moved, At
  <2>2. CASE Return(t, ret)
    BY <1>4, <2>1, <2>2, ReturnHandle DEF HandleOps
  <2>3. CASE Find(t) # NoEntry /\ Send(t, op, Find(t), TRUE)
    BY <1>1, <1>4, <2>3, SendHandle DEF HandleRpcs, RpcOps
  <2> QED BY <1>4, <2>2, <2>3
<1>5. CASE read(t)
  <2>1. CASE Replied(t, "Read") /\ \E ret \in {"zero", "count"} : DropStale(t) \/ Return(t, ret)
    BY <2>1, <1>3 DEF HandleRpcs
  <2>2. CASE /\ At(t, "read", "start")
             /\ Return(t, "EPERM") \/ (Find(t) # NoEntry /\ Send(t, "Read", Find(t), TRUE))
    BY <2>2, <1>4 DEF HandleRpcs, HandleOps, At
  <2> QED BY <1>5, <2>1, <2>2 DEF read, Read_File
<1>6. CASE write(t)
  <2>1. CASE Replied(t, "Write_Async") /\ \E ret \in {"zero", "count"} : DropStale(t) \/ Return(t, ret)
    BY <2>1, <1>3 DEF HandleRpcs
  <2>2. CASE /\ At(t, "write", "start")
             /\ Return(t, "EBADR") \/ (Find(t) # NoEntry /\ Send(t, "Write_Async", Find(t), TRUE))
    BY <2>2, <1>4 DEF HandleRpcs, HandleOps, At
  <2> QED BY <1>6, <2>1, <2>2 DEF write, Write_File_Async
<1>7. CASE fsync(t)
  <2>1. CASE Replied(t, "Fsync") /\ \E ret \in {"zero", "EPERM"} : DropStale(t) \/ Return(t, ret)
    BY <2>1, <1>3 DEF HandleRpcs
  <2>2. CASE /\ call[t].op \in HandleOps /\ call[t].pc = "start"
             /\ Return(t, "EPERM") \/ (Find(t) # NoEntry /\ Send(t, "Fsync", Find(t), TRUE))
    BY <2>2, <1>4 DEF HandleRpcs
  <2> QED BY <1>7, <2>1, <2>2 DEF fsync, Fsync_File, HandleOps
<1> QED BY <1>5, <1>6, <1>7

\* The callbacks of one RPC that leave the map alone, or only on success.
LEMMA CreateHandle ==
  ASSUME HInv, Threads1, NEW t \in Threads, create(t)
  PROVE  HandleInv'
<1>1. /\ CallShape(call[t]) /\ RpcShape(call[t], rpc[t]) /\ CallKnows(t)
      /\ Map(t) \in [Paths -> Handles \cup {NoEntry}]
  BY MapType DEF HInv, TInv, ShapeOK, HandleInv
<1>2. CASE At(t, "create", "start") /\ Create_File(t)
  BY <1>2, SendHandle DEF At, Create_File, RpcOps, Handles, HandleRpcs
<1>3. CASE Replied(t, "CreateFile")
  <2>1. call[t].op = "create" /\ call[t].pc \in {"rpc", "resume"} /\ ~LookingUp(t) /\ ~Moved(t)
    BY <1>1, <1>3 DEF Replied, RpcShape, IssuedBy, HandleOps, LookingUp, Moved, At
  <2>2. CASE Return(t, "EPERM")
    BY <2>1, <2>2, ReturnHandle
  <2>3. CASE Leave(t, "open", "zero", Map(t))
    <3>1. \A f \in opened[ClientOf(t)] : Map(t)[f] # NoEntry
      BY <2>1, Settled DEF Entry, Map
    <3>2. ~(call[t].chain /\ call[t].path \in Files)
      BY <1>1, <2>1 DEF CallKnows
    <3> QED BY <1>1, <2>1, <2>3, <3>1, <3>2, LeaveHandle
  <2> QED BY <1>3, <2>1, <2>2, <2>3 DEF create, At
<1> QED BY <1>2, <1>3 DEF create

LEMMA UnlinkHandle ==
  ASSUME HInv, Threads1, NEW t \in Threads, unlink(t)
  PROVE  HandleInv'
<1>1. /\ CallShape(call[t]) /\ RpcShape(call[t], rpc[t]) /\ CallKnows(t)
      /\ Map(t) \in [Paths -> Handles \cup {NoEntry}] /\ call[t].path \in Paths
      /\ Without(Map(t), call[t].path) \in [Paths -> Handles \cup {NoEntry}]
      /\ \A f \in opened[ClientOf(t)] : f \in Paths
  BY MapType, ThreadClient DEF HInv, TInv, TypeOK, ShapeOK, HandleInv, Paths
<1>2. CASE At(t, "unlink", "start") /\ Delete_File(t)
  BY <1>2, SendHandle DEF At, Delete_File, RpcOps, Handles, HandleRpcs
<1>3. CASE Replied(t, "DeleteFile")
  <2>1. call[t].op = "unlink" /\ call[t].pc \in {"rpc", "resume"} /\ ~LookingUp(t) /\ ~Moved(t)
    BY <1>1, <1>3 DEF Replied, RpcShape, IssuedBy, HandleOps, LookingUp, Moved, At
  <2>2. CASE Return(t, "ENOENT")
    BY <2>1, <2>2, ReturnHandle
  <2>3. CASE Leave(t, "done", "zero", Without(Map(t), call[t].path))
    <3>1. \A f \in opened[ClientOf(t)] : Without(Map(t), call[t].path)[f] # NoEntry
      BY <1>1, <2>1, Settled DEF CallKnows, Entry, Map, Without
    <3>2. ~(call[t].chain /\ call[t].path \in Files)
      BY <1>1, <2>1 DEF CallKnows
    <3> QED BY <1>1, <2>1, <2>3, <3>1, <3>2, LeaveHandle
  <2> QED BY <1>3, <2>1, <2>2, <2>3 DEF unlink, At
<1> QED BY <1>2, <1>3 DEF unlink

LEMMA RenameHandle ==
  ASSUME HInv, Threads1, NEW t \in Threads, rename(t)
  PROVE  HandleInv'
<1> DEFINE p == call[t].path
<1> DEFINE q == call[t].to
<1> DEFINE m == MoveHandle(Map(t), p, q)
<1>1. /\ RpcShape(call[t], rpc[t]) /\ CallKnows(t)
      /\ Map(t) \in [Paths -> Handles \cup {NoEntry}] /\ p \in Paths /\ q \in Paths
      /\ m \in [Paths -> Handles \cup {NoEntry}]
      /\ \A f \in opened[ClientOf(t)] : f \in Paths
  BY MapType, ThreadClient DEF HInv, TInv, TypeOK, ShapeOK, HandleInv, Paths
<1>2. CASE At(t, "rename", "start") /\ Rename_File(t)
  BY <1>2, SendHandle DEF At, Rename_File, RpcOps, Handles, HandleRpcs
<1>3. CASE Replied(t, "RenameFile")
  <2>1. call[t].op = "rename" /\ call[t].pc \in {"rpc", "resume"} /\ ~LookingUp(t) /\ ~Moved(t)
    BY <1>1, <1>3 DEF Replied, RpcShape, IssuedBy, HandleOps, LookingUp, Moved, At
  <2>2. CASE Return(t, "EPERM")
    BY <2>1, <2>2, ReturnHandle
  <2>3. CASE Leave(t, "done", "zero", m)
    <3>1. p # q /\ ~(call[t].chain /\ p \in Files)
      BY <1>1, <2>1 DEF CallKnows
    <3>2. \A f \in opened[ClientOf(t)] : Map(t)[f] # NoEntry
      BY <2>1, Settled DEF Entry, Map
    <3>3. \A f \in opened[ClientOf(t)] : m[f] = NoEntry => f = p
      BY <1>1, <3>2 DEF MoveHandle
    <3>4. p \in opened[ClientOf(t)] => m[q] # NoEntry
      BY <1>1, <3>1, <3>2 DEF MoveHandle
    <3> HIDE DEF m
    <3> QED BY <1>1, <2>1, <2>3, <3>1, <3>3, <3>4, LeaveHandle
  <2> QED BY <1>3, <2>1, <2>2, <2>3 DEF rename, At
<1> QED BY <1>2, <1>3 DEF rename

LEMMA CallbackHandle ==
  ASSUME HInv, Threads1, NEW t \in Threads, Callback(t)
  PROVE  HandleInv'
<1>1. CallShape(call[t]) /\ RpcShape(call[t], rpc[t])
  BY DEF HInv, TInv, ShapeOK
<1>2. ASSUME NEW op \in {"Getattr", "Readdir", "CreateDirectory", "DeleteDirectory"},
             NEW ret \in {"zero", "EPERM", "ENOENT"},
             \/ call[t].pc = "start" /\ Send(t, op, EmptyHandle, FALSE)
             \/ Replied(t, op) /\ Return(t, ret)
      PROVE  HandleInv'
  <2>1. CASE call[t].pc = "start" /\ Send(t, op, EmptyHandle, FALSE)
    BY <2>1, SendHandle DEF RpcOps, Handles, HandleRpcs
  <2>2. CASE Replied(t, op) /\ Return(t, ret)
    <3>1. call[t].op \in {"getattr", "readdir", "mkdir", "rmdir"} /\ ~LookingUp(t) /\ ~Moved(t)
      BY <1>1, <2>2 DEF Replied, RpcShape, IssuedBy, HandleOps, LookingUp, Moved, At
    <3> QED BY <2>2, <3>1, ReturnHandle
  <2> QED BY <1>2, <2>1, <2>2
<1>3. CASE getattr(t)
  BY <1>2, <1>3 DEF getattr, At, Get_File_Attributes
<1>4. CASE readdir(t)
  BY <1>2, <1>4 DEF readdir, At, Read_Directory
<1>5. CASE mkdir(t)
  BY <1>2, <1>5 DEF mkdir, At, Create_Directory
<1>6. CASE rmdir(t)
  BY <1>2, <1>6 DEF rmdir, At, Delete_Directory
<1> QED
  BY <1>3, <1>4, <1>5, <1>6, OpenHandle, HeldHandle, CreateHandle, UnlinkHandle, RenameHandle,
     ReconnectHandle DEF Callback

\* A rename of files moves one name.
LEMMA MovedFile ==
  ASSUME NEW S \in SUBSET Files, NEW p \in Files, NEW q \in Files, NEW f \in MovedNames(S, p, q)
  PROVE  (f \in S /\ f # p /\ f # q) \/ (f = q /\ p \in S)
<1>1. \A r \in Files : Under(r, p) <=> r = p
  BY ProtoAssumption DEF Under, Dir, Files
<1>2. CASE f \in S /\ ~Under(f, p) /\ ~Under(f, q)
  BY <1>2 DEF Under
<1>3. CASE \E r \in S : Under(r, p) /\ f = Image(r, p, q)
  BY <1>1, <1>3 DEF Image
<1> QED BY <1>2, <1>3 DEF MovedNames

LEMMA FinishHandle ==
  ASSUME HInv, Threads1, NEW t \in Threads, Finish(t)
  PROVE  HandleInv'
<1> DEFINE c == ClientOf(t)
<1> DEFINE k == call[t]
<1> DEFINE ok == k.ret \in {"zero", "count"}
<1> DEFINE Renamed(S) == IF k.flags = "exchange" THEN SwappedNames(S, k.path, k.to)
                                                 ELSE MovedNames(S, k.path, k.to)
<1> DEFINE n == IF k.op \in {"create", "mkdir"} /\ ok
                  THEN Started("getattr", k.path, k.path, "none", TRUE)
                ELSE IF k.op = "getattr" /\ k.chain /\ ~ok /\ k.path \in Files
                  THEN Started("release", k.path, k.path, "none", FALSE)
                ELSE IdleCall
<1> DEFINE Q == IF (k.op = "open" \/ (k.chain /\ k.path \in Files)) /\ ok
                  THEN opened[c] \cup {k.path}
                ELSE IF k.op = "release" THEN opened[c] \ {k.path}
                ELSE IF k.op = "rename" /\ ok THEN Renamed(opened[c])
                ELSE opened[c]
<1>1. /\ CallShape(k) /\ RpcShape(k, rpc[t]) /\ CallKnows(t) /\ OpenEntry(t)
      /\ k.pc = "done" /\ c \in Clients /\ call \in [Threads -> Call]
      /\ opened \in [Clients -> SUBSET Files]
  BY ThreadClient DEF HInv, TInv, TypeOK, ShapeOK, HandleInv, Finish
<1>2. rpc[t].st = "none"
  BY <1>1 DEF RpcShape
<1>3. /\ call' = [call EXCEPT ![t] = n]
      /\ opened' = [opened EXCEPT ![c] = Q]
      /\ UNCHANGED <<rpc, file_handle_map_>>
  BY DEF Finish, serverVars
<1>4. /\ call'[t] = n /\ opened'[c] = Q
      /\ \A u \in Threads : ClientOf(u) # c =>
           call'[u] = call[u] /\ opened'[ClientOf(u)] = opened[ClientOf(u)]
  BY <1>1, <1>3, ThreadClient
\* An open file that has no entry is the source of a rename that succeeded.
<1>5. \A f \in opened[c] : Entry(t, f) = NoEntry =>
         f = k.path /\ k.op = "rename" /\ ok
  BY <1>1, <1>2 DEF OpenEntry, LookingUp, InStub, Moved, At
<1>6. \A f \in Q : Entry(t, f) # NoEntry
  <2>1. CASE (k.op = "open" \/ (k.chain /\ k.path \in Files)) /\ ok
    BY <1>1, <1>5, <2>1 DEF CallKnows
  <2>2. CASE k.op = "rename" /\ ok
    <3>1. k.flags # "exchange" /\ k.path \in Files /\ k.to \in Files
      BY <1>1, <2>2 DEF CallKnows
    <3>2. Q = MovedNames(opened[c], k.path, k.to)
      BY <1>1, <2>2, <3>1 DEF CallKnows
    <3>3. opened[c] \in SUBSET Files
      BY <1>1
    <3>4. k.path \in opened[c] => Entry(t, k.to) # NoEntry
      BY <1>1, <2>2 DEF CallKnows, Moved, At
    <3> QED BY <1>5, <3>1, <3>2, <3>3, <3>4, MovedFile
  <2>3. CASE /\ ~((k.op = "open" \/ (k.chain /\ k.path \in Files)) /\ ok)
             /\ ~(k.op = "rename" /\ ok)
    BY <1>5, <2>3
  <2> QED BY <2>1, <2>2, <2>3
<1>7. /\ n.flags = "none" /\ n.pc \in {"start", "idle"}
      /\ n.op \in {"getattr", "release", "none"}
      /\ n.chain => /\ n.op = "getattr" /\ n.path = k.path
                    /\ k.op \in {"create", "mkdir"} /\ ok
  BY IdleFields DEF Started
<1>8. n.chain /\ n.path \in Files => n.path \notin Q /\ Entry(t, n.path) # NoEntry
  <2> SUFFICES ASSUME n.chain, n.path \in Files
               PROVE  n.path \notin Q /\ Entry(t, n.path) # NoEntry
    OBVIOUS
  <2>1. k.op = "create" /\ ok /\ n.path = k.path
    BY <1>1, <1>7, ProtoAssumption DEF CallShape
  <2>2. Q = opened[c]
    BY <1>1, <1>7, <2>1 DEF CallKnows
  <2> HIDE DEF n, Q
  <2> QED BY <1>1, <2>1, <2>2 DEF CallKnows
<1> HIDE DEF n, Q
<1>9. CallKnows(t)'
  BY <1>2, <1>3, <1>4, <1>7, <1>8 DEF CallKnows, Entry, Moved, At
<1>10. OpenEntry(t)'
  BY <1>3, <1>4, <1>6 DEF OpenEntry, Entry
<1> QED BY <1>3, <1>4, <1>9, <1>10, ClientHandle

LEMMA NextHandle ==
  ASSUME HInv, Threads1, FlatTree, "exchange" \notin RenameFlags, [Next]_vars
  PROVE  HandleInv'
<1>1. ASSUME NEW t \in Threads, ClientStep(t)
      PROVE  HandleInv'
  BY <1>1, KernelHandle, CallbackHandle, FinishHandle DEF ClientStep
<1>2. CASE ServerStep
  BY <1>2, ServerStepHandle
<1>3. ASSUME NEW c \in Clients, ClientCrash(c)
      PROVE  HandleInv'
  BY <1>3, RemountHandle DEF ClientCrash
<1>4. CASE UNCHANGED vars
  <2>1. \A u \in Threads : CallKnows(u) /\ OpenEntry(u)
    BY DEF HInv, HandleInv
  <2>2. UNCHANGED <<call, rpc, file_handle_map_, opened>>
    BY <1>4 DEF vars, serverVars, clientVars
  <2> QED BY <2>1, <2>2, Undisturbed DEF HandleInv
<1> QED BY <1>1, <1>2, <1>3, <1>4 DEF Next

\* Quiet threads: an open file without an entry has its only thread at work on it.
LEMMA HInvOpenFile == HInv /\ OneWorker => OpenFileHasHandle
<1> SUFFICES ASSUME HInv, OneWorker, NEW c \in Clients, NEW f \in opened[c], Quiet(c, f)
             PROVE  file_handle_map_[c][f] # NoEntry
  BY DEF OpenFileHasHandle
<1> PICK w : Workers = {w}
  BY DEF OneWorker
<1> DEFINE t == <<c, w>>
<1>1. t \in Threads /\ ClientOf(t) = c
  BY DEF Threads, ClientOf
<1>2. OpenEntry(t) /\ RpcShape(call[t], rpc[t])
  BY <1>1 DEF HInv, TInv, ShapeOK, HandleInv
<1> HIDE DEF t
<1>3. f # call[t].path \/ call[t].pc \in {"idle", "gone"}
  BY <1>1 DEF Quiet, Running
<1> QED BY <1>1, <1>2, <1>3 DEF OpenEntry, Entry, LookingUp, InStub, Moved, At, RpcShape

\* What each callback knows of the map and of the files its client holds open is
\* always so: the invariant that keeps an entry for every open file.
THEOREM HandlesKnownAlways ==
  ASSUME OneWorker, FlatTree, "exchange" \notin RenameFlags
  PROVE  Spec => []HInv
<1>1. Init => HInv
  BY InitTInv, InitHandle DEF HInv
<1>2. HInv /\ [Next]_vars => HInv'
  BY NextTInv, NextHandle, OneThreadPerClient DEF HInv
<1> QED BY <1>1, <1>2, PTL DEF Spec

\* A file that a client holds open keeps an entry in the handle map of that
\* client outside callbacks, whatever other clients do to the tree, however often
\* its handle goes stale, lookups fail, connections break and processes crash; for
\* clients with one FUSE thread, files in one directory and no RENAME_EXCHANGE
\* (with any of these three the code does lose entries).
THEOREM OpenFileHasHandleCorrect ==
  ASSUME OneWorker, FlatTree, "exchange" \notin RenameFlags
  PROVE  Spec => []OpenFileHasHandle
<1>1. HInv => OpenFileHasHandle
  BY HInvOpenFile
<1> QED BY <1>1, HandlesKnownAlways, PTL
=============================================================================
