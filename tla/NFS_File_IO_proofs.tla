-------------------------- MODULE NFS_File_IO_proofs --------------------------
(***************************************************************************)
(* Theorems about the data path, for all values of the constants: type     *)
(* correctness and the ownership of descriptors, by the invariant FInv.    *)
(* First what the operators of the model return, then one lemma for each   *)
(* way a handler, a reply or a callback can move, then the steps.          *)
(***************************************************************************)
EXTENDS NFS_File_IO_inv, TLAPS, NaturalsInduction, SequenceTheorems, WellFoundedInduction

-----------------------------------------------------------------------------
(* The operators of the model.                                             *)

LEMMA MinMember ==
  ASSUME NEW S \in SUBSET Nat, S # {}
  PROVE  Min(S) \in S /\ \A y \in S : Min(S) <= y
<1> DEFINE R == OpToRel(<, Nat)
<1>1. IsWellFoundedOn(R, Nat)
  BY NatLessThanWellFounded
<1>2. \A x, y \in Nat : y < x => <<y, x>> \in R
  BY DEF OpToRel
<1> HIDE DEF R
<1>3. PICK x \in S : \A y \in S : ~ (<<y, x>> \in R)
  BY <1>1, WFMin
<1>4. ASSUME NEW y \in S
      PROVE  x <= y
  <2>1. x \in Nat /\ y \in Nat
    OBVIOUS
  <2>2. ~ (y < x)
    BY <1>2, <1>3, <2>1
  <2> QED BY <2>1, <2>2
<1> QED BY <1>4 DEF Min

LEMMA Off0Member == Off0 \in Offsets
  BY AsyncIOAssumption, MinMember DEF Off0

LEMMA LowestFree ==
  ASSUME ~Full
  PROVE  Lowest \in Fds /\ fds[Lowest] = NoFile
<1>1. Free \in SUBSET Nat /\ Free # {}
  BY DEF Full, Free, Fds
<1> QED BY <1>1, MinMember DEF Lowest, Free

LEMMA Int32Type ==
  ASSUME NEW off \in Offsets
  PROVE  Int32(off) \in Int /\ Int32(off) < Int32Blocks
  BY AsyncIOAssumption DEF Int32

\* Below twice the limit a block is either where it should be or refused.
LEMMA Int32Exact ==
  ASSUME NEW off \in Offsets, off < 2 * Int32Blocks, Int32(off) >= 0
  PROVE  Int32(off) = off
  BY AsyncIOAssumption DEF Int32

LEMMA NoRpcType == NoRpc \in Rpc
  BY Off0Member DEF NoRpc, Rpc

LEMMA IdleType == Idle \in Handler /\ HandlerShape(Idle)
  BY Off0Member DEF Idle, Handler, DataOps, NoFd, HandlerShape, WriteOps

\* The names of the requests and of the callbacks made for them.
LEMMA Opcodes ==
  /\ fuse_opcode["FUSE_OPEN"] = "open"
  /\ fuse_opcode["FUSE_READ"] \in {"read_buf", "read"}
  /\ fuse_opcode["FUSE_WRITE"] \in {"write_buf", "write"}
  /\ fuse_opcode["FUSE_RELEASE"] = "release"
  /\ fuse_opcode["FUSE_FSYNC"] = "fsync"
  /\ fuse_opcode["FUSE_FLUSH"] = "flush"
  BY DEF fuse_opcode, Either

LEMMA CallbackType ==
  ASSUME NEW request
  PROVE  /\ Callback(request) \in Seq(fuse_operations)
         /\ \A k \in DOMAIN Callback(request) :
              k = Len(Callback(request)) /\ Callback(request)[k] = fuse_opcode[request]
<1>1. CASE fuse_opcode[request] \in Implemented
  BY <1>1 DEF Callback, Implemented
<1>2. CASE fuse_opcode[request] \notin Implemented
  <2>1. Callback(request) = <<>>
    BY <1>2 DEF Callback
  <2> QED BY <2>1, EmptySeq
<1> QED BY <1>1, <1>2

LEMMA CallbacksOfCalls ==
  /\ Callbacks("open") = Callback("FUSE_OPEN")
  /\ Callbacks("read") = Callback("FUSE_READ")
  /\ Callbacks("write") \in {Callback("FUSE_WRITE"), <<>>}
  /\ Callbacks("fsync") = Callback("FUSE_FSYNC")
  /\ Callbacks("close") = Callback("FUSE_FLUSH") \o Callback("FUSE_RELEASE")
<1>1. Callbacks("open") = Callback("FUSE_OPEN")
  BY DEF Callbacks
<1>2. Callbacks("read") = Callback("FUSE_READ")
  BY DEF Callbacks
<1>3. Callbacks("write") = IF WriteThrough THEN Callback("FUSE_WRITE") ELSE <<>>
  BY DEF Callbacks
<1>4. Callbacks("fsync") = Callback("FUSE_FSYNC")
  BY DEF Callbacks
<1>5. Callbacks("close") = Callback("FUSE_FLUSH") \o Callback("FUSE_RELEASE")
  BY DEF Callbacks
<1> QED BY <1>1, <1>2, <1>3, <1>4, <1>5

LEMMA OpenIsImplemented == Callbacks("open") = <<"open">>
<1>1. "open" \in fuse_operations /\ "open" \in ClientFS
  BY DEF fuse_operations, FileSlots, ClientFS
<1>2. "open" \in Implemented
  BY <1>1 DEF Implemented, load_operations_
<1>3. Callback("FUSE_OPEN") = <<"open">>
  BY <1>2, Opcodes DEF Callback
<1> QED BY <1>3, CallbacksOfCalls

LEMMA CallbacksType ==
  ASSUME NEW sys \in SystemCalls
  PROVE  /\ Callbacks(sys) \in Seq(fuse_operations)
         /\ \A k \in DOMAIN Callbacks(sys) :
              Callbacks(sys)[k] = "write" => sys = "write" /\ k = Len(Callbacks(sys))
<1>1. CASE sys \in {"open", "read", "fsync"}
  <2>1. PICK request \in {"FUSE_OPEN", "FUSE_READ", "FUSE_FSYNC"} : Callbacks(sys) = Callback(request)
    BY <1>1, CallbacksOfCalls
  <2>2. fuse_opcode[request] # "write"
    BY <2>1, Opcodes
  <2> QED BY <2>1, <2>2, CallbackType
<1>2. CASE sys = "write"
  <2>1. CASE Callbacks(sys) = Callback("FUSE_WRITE")
    BY <1>2, <2>1, CallbackType
  <2>2. CASE Callbacks(sys) = <<>>
    BY <2>2, EmptySeq
  <2> QED BY <1>2, <2>1, <2>2, CallbacksOfCalls
<1>3. CASE sys = "close"
  <2> DEFINE p == Callback("FUSE_FLUSH")
  <2> DEFINE q == Callback("FUSE_RELEASE")
  <2>1. Callbacks(sys) = p \o q
    BY <1>3, CallbacksOfCalls
  <2>2. /\ p \in Seq(fuse_operations) /\ \A k \in DOMAIN p : p[k] = "flush"
        /\ q \in Seq(fuse_operations) /\ \A k \in DOMAIN q : q[k] = "release"
    BY Opcodes, CallbackType
  <2> HIDE DEF p, q
  <2>3. \A k \in DOMAIN (p \o q) : (p \o q)[k] \in {"flush", "release"}
    BY <2>2
  <2> QED BY <2>1, <2>2, <2>3
<1> QED BY <1>1, <1>2, <1>3 DEF SystemCalls

-----------------------------------------------------------------------------
(* FInv in four parts, by what they are about.                             *)

FilesOK ==
  /\ here \in used /\ used \in SUBSET Inodes
  /\ content \in [Cells -> Writes \cup {NoWrite}]
  /\ disk \in [Cells -> Writes \cup {NoWrite}]
  /\ aio \in Seq([fd : Fds, off : Int, w : Writes]) /\ QueueShape
  /\ landed \in Seq([w : Writes, cell : Cells])
  /\ bad \in SUBSET Inodes
  /\ up \in BOOLEAN /\ clean \in BOOLEAN /\ faults \in 0..MaxFaults

TableOK == fds \in [Fds -> OpenFiles \cup {NoFile}] /\ HandlersKeepTheirDescriptors

CallsOK ==
  /\ hd \in [Handlers -> Handler] /\ rpc \in [Clients -> Rpc]
  /\ \A h \in Handlers : HandlerShape(hd[h]) /\ Linked(h)
  /\ \A c \in Clients : RpcShape(c)

ClientsOK ==
  /\ handle \in [Clients -> Inodes \cup {EmptyHandle, NoEntry}]
  /\ page \in [Clients -> [Offsets -> Page \cup {NotCached}]]
  /\ app \in [Clients -> Application]
  /\ opened \in SUBSET Clients /\ issued \in SUBSET Writes
  /\ acked \in SUBSET Acked /\ synced \in SUBSET acked
  /\ floor \in [Clients -> SUBSET acked]
  /\ \A c \in Clients : AppShape(c)

LEMMA Parts == FInv <=> FilesOK /\ TableOK /\ CallsOK /\ ClientsOK
  BY DEF FInv, FilesOK, TableOK, CallsOK, ClientsOK, TypeOK, ServerTypeOK

LEMMA PartsNext == FInv' <=> FilesOK' /\ TableOK' /\ CallsOK' /\ ClientsOK'
  BY DEF FInv, FilesOK, TableOK, CallsOK, ClientsOK, TypeOK, ServerTypeOK

LEMMA InitFInv == Init => FInv
<1> SUFFICES ASSUME Init PROVE FInv
  OBVIOUS
<1>1. FilesOK
  BY AsyncIOAssumption, EmptySeq DEF Init, ServerInit, FilesOK, QueueShape
<1>2. TableOK
  BY DEF Init, ServerInit, TableOK, HandlersKeepTheirDescriptors, Holds, Idle
<1>3. CallsOK
  <2>1. \A h \in Handlers : hd[h] = Idle /\ hd[h].c = "none"
    BY DEF Init, ServerInit, Idle
  <2>2. \A c \in Clients : rpc[c] = NoRpc
    BY DEF Init, ServerInit
  <2>3. hd \in [Handlers -> Handler] /\ rpc \in [Clients -> Rpc]
    BY IdleType, NoRpcType DEF Init, ServerInit
  <2>4. \A h \in Handlers : HandlerShape(hd[h]) /\ Linked(h)
    BY <2>1, IdleType, AsyncIOAssumption DEF Linked
  <2>5. \A c \in Clients : RpcShape(c)
    BY <2>2 DEF RpcShape, NoRpc
  <2> QED BY <2>3, <2>4, <2>5 DEF CallsOK
<1>4. ClientsOK
  <2>1. ASSUME NEW c \in Clients
        PROVE  app[c] \in Application /\ app[c].todo = <<>> /\ app[c].sys = "none"
    <3>1. PICK d \in Clients : \E p \in Workload[d] : app[c] = Ready(p)
      BY DEF Init
    <3>0. PICK p \in Workload[d] : app[c] = Ready(p)
      BY <3>1
    <3>2. p \in Seq(Calls)
      BY FileIOAssumption
    <3> QED BY <3>0, <3>2, Off0Member, EmptySeq DEF Ready, Application
  <2>2. \A c \in Clients : AppShape(c)
    BY <2>1, EmptySeq DEF AppShape, Init
  <2>3. app \in [Clients -> Application]
    BY <2>1 DEF Init
  <2> QED BY <2>2, <2>3 DEF Init, ClientsOK, NoPages
<1> QED BY <1>1, <1>2, <1>3, <1>4, Parts

-----------------------------------------------------------------------------
(* The calls, while the server moves: RpcShape speaks of the clients too,  *)
(* so these are steps that leave the clients alone.                        *)

Statuses == {"OK", "CANCELLED", "INVALID_ARGUMENT", "UNAVAILABLE"}

\* The call of client c is answered.
LEMMA AnswerOK ==
  ASSUME CallsOK, UNCHANGED clientVars,
         NEW c \in Clients, rpc[c].st # "none",
         NEW status \in Statuses, NEW fh \in Inodes \cup {EmptyHandle},
         NEW n \in {-1, 0, 1}, NEW v \in Writes \cup {NoWrite},
         status = "OK" /\ rpc[c].op # "Lookup" => fh \in Inodes /\ fh = rpc[c].fh,
         rpc' = Answer(c, status, fh, n, v)
  PROVE  /\ rpc' \in [Clients -> Rpc] /\ \A d \in Clients : RpcShape(d)'
         /\ \A d \in Clients \ {c} : rpc'[d] = rpc[d]
         /\ rpc'[c].st = "replied" /\ rpc'[c].status = status
         /\ rpc'[c].op = rpc[c].op /\ rpc'[c].off = rpc[c].off /\ rpc'[c].w = rpc[c].w
         /\ rpc'[c].op # "Lookup" => rpc'[c].fh = rpc[c].fh
         /\ rpc'[c].n = (IF status = "OK" THEN n ELSE 0)
         /\ rpc'[c].v = (IF status = "OK" THEN v ELSE NoWrite)
<1> DEFINE F == IF status = "OK" THEN fh ELSE rpc[c].fh
<1> DEFINE N == IF status = "OK" THEN n ELSE 0
<1> DEFINE V == IF status = "OK" THEN v ELSE NoWrite
<1> DEFINE r == [rpc[c] EXCEPT !.st = "replied", !.status = status, !.fh = F, !.n = N, !.v = V]
<1>1. rpc \in [Clients -> Rpc] /\ rpc[c] \in Rpc
  BY DEF CallsOK
<1>2. rpc' = [rpc EXCEPT ![c] = r]
  BY <1>1 DEF Answer
<1>3. /\ r \in Rpc /\ r.st = "replied" /\ r.status = status
      /\ r.op = rpc[c].op /\ r.off = rpc[c].off /\ r.w = rpc[c].w
      /\ r.fh = F /\ r.n = N /\ r.v = V
  <2>1. F \in Inodes \cup {EmptyHandle} /\ N \in {-1, 0, 1} /\ V \in Writes \cup {NoWrite}
    BY <1>1 DEF Rpc
  <2>2. status \in {"OK", "CANCELLED", "INVALID_ARGUMENT", "UNAVAILABLE"}
    BY DEF Statuses
  <2> HIDE DEF F, N, V
  <2>3. r \in Rpc
    BY <1>1, <2>1, <2>2, ZenonT(60) DEF Rpc
  <2>4. /\ r.st = "replied" /\ r.status = status
        /\ r.op = rpc[c].op /\ r.off = rpc[c].off /\ r.w = rpc[c].w
    BY <1>1 DEF Rpc
  <2>5. r.fh = F /\ r.n = N /\ r.v = V
    BY <1>1 DEF Rpc
  <2> QED BY <2>3, <2>4, <2>5
<1> HIDE DEF r
<1>4. rpc' \in [Clients -> Rpc] /\ rpc'[c] = r /\ \A d \in Clients \ {c} : rpc'[d] = rpc[d]
  BY <1>1, <1>2, <1>3
<1>5. ASSUME NEW d \in Clients
      PROVE  RpcShape(d)'
  <2>1. RpcShape(d) /\ app' = app /\ handle' = handle
    BY DEF CallsOK, clientVars
  <2>2. CASE d = c
    BY <1>3, <1>4, <2>1, <2>2 DEF RpcShape
  <2>3. CASE d # c
    BY <1>4, <2>1, <2>3 DEF RpcShape
  <2> QED BY <2>2, <2>3
<1> QED BY <1>3, <1>4, <1>5

\* Handler h goes on with its call.
LEMMA GoOnCalls ==
  ASSUME CallsOK, UNCHANGED clientVars, NEW h \in Handlers, NEW k \in Handler,
         k.c = hd[h].c, k.op = hd[h].op, k.fh = hd[h].fh, k.off = hd[h].off, k.w = hd[h].w,
         HandlerShape(k), hd' = [hd EXCEPT ![h] = k], rpc' = rpc
  PROVE  CallsOK'
<1>1. /\ hd' \in [Handlers -> Handler] /\ hd'[h] = k
      /\ \A g \in Handlers \ {h} : hd'[g] = hd[g]
  BY DEF CallsOK
<1>2. \A g \in Handlers : HandlerShape(hd'[g])
  BY <1>1 DEF CallsOK
<1>3. \A g \in Handlers : hd'[g].c = hd[g].c /\ hd'[g].op = hd[g].op /\ hd'[g].fh = hd[g].fh
                          /\ hd'[g].off = hd[g].off /\ hd'[g].w = hd[g].w
  BY <1>1
<1>4. ASSUME NEW g \in Handlers
      PROVE  Linked(g)'
  BY <1>3 DEF CallsOK, Linked
<1>5. \A c \in Clients : RpcShape(c)'
  BY DEF CallsOK, RpcShape, clientVars
<1> QED BY <1>1, <1>2, <1>4, <1>5 DEF CallsOK, HandlerShape

LEMMA ReturnCalls ==
  ASSUME CallsOK, UNCHANGED clientVars, NEW h \in Handlers, hd[h].pc # "idle",
         NEW status \in Statuses, Return(h, status)
  PROVE  CallsOK'
<1>1. /\ hd \in [Handlers -> Handler] /\ HandlerShape(hd[h]) /\ Linked(h)
      /\ rpc \in [Clients -> Rpc]
  BY DEF CallsOK
<1>2. /\ hd' \in [Handlers -> Handler] /\ hd'[h] = Idle
      /\ \A g \in Handlers \ {h} : hd'[g] = hd[g]
  BY <1>1, IdleType DEF Return
<1>3. \A g \in Handlers : HandlerShape(hd'[g])
  BY <1>2, IdleType DEF CallsOK
<1>4. CASE hd[h].c = "orphan"
  <2>1. rpc' = rpc
    BY <1>4 DEF Return
  <2>2. \A c \in Clients : RpcShape(c)'
    BY <2>1 DEF CallsOK, RpcShape, clientVars
  <2>3. ASSUME NEW g \in Handlers
        PROVE  Linked(g)'
    BY <1>2, <2>1, AsyncIOAssumption DEF CallsOK, Linked, Idle
  <2> QED BY <1>1, <1>2, <1>3, <2>1, <2>2, <2>3 DEF CallsOK, HandlerShape
<1>5. CASE hd[h].c # "orphan"
  <2> DEFINE c == hd[h].c
  <2>1. c \in Clients /\ hd[h] \in Handler
    BY <1>1, <1>5 DEF Handler, HandlerShape
  <2>2. rpc[c].st = "sent" /\ rpc[c].fh = hd[h].fh /\ hd[h].fh \in Inodes
    BY <1>1, <2>1 DEF Linked, HandlerShape
  <2>3. rpc' = Answer(c, status, hd[h].fh, hd[h].n, hd[h].v)
    BY <1>5 DEF Return
  <2>4. hd[h].n \in {-1, 0, 1} /\ hd[h].v \in Writes \cup {NoWrite}
    BY <2>1 DEF Handler
  <2> HIDE DEF c
  <2>5. /\ rpc' \in [Clients -> Rpc] /\ \A d \in Clients : RpcShape(d)'
        /\ \A d \in Clients \ {c} : rpc'[d] = rpc[d]
    BY <2>1, <2>2, <2>3, <2>4, AnswerOK
  <2>6. ASSUME NEW g \in Handlers
        PROVE  Linked(g)'
    <3>1. CASE g = h
      BY <1>2, <3>1, AsyncIOAssumption DEF Linked, Idle
    <3>2. CASE g # h
      <4>1. hd'[g] = hd[g] /\ hd[g].c # c /\ Linked(g)
        BY <1>1, <1>2, <2>1, <3>2 DEF Linked, CallsOK, c
      <4>2. hd[g].c \in Clients => rpc'[hd[g].c] = rpc[hd[g].c]
        BY <2>5, <4>1
      <4>3. \A f \in Handlers : hd'[f].c = hd[f].c \/ hd'[f].c = "none"
        BY <1>2 DEF Idle
      <4> QED BY <4>1, <4>2, <4>3, AsyncIOAssumption DEF Linked
    <3> QED BY <3>1, <3>2
  <2> QED BY <1>2, <1>3, <2>5, <2>6 DEF CallsOK, HandlerShape
<1> QED BY <1>4, <1>5

LEMMA ExitCalls ==
  ASSUME CallsOK, UNCHANGED clientVars, Exit
  PROVE  CallsOK'
<1> DEFINE R(c) == IF rpc[c].st = "sent"
                     THEN [rpc[c] EXCEPT !.st = "replied", !.status = "UNAVAILABLE"]
                     ELSE rpc[c]
<1>1. rpc \in [Clients -> Rpc] /\ rpc' = [c \in Clients |-> R(c)]
  BY DEF CallsOK, Exit
<1>2. ASSUME NEW c \in Clients
      PROVE  R(c) \in Rpc /\ RpcShape(c)'
  <2>1. rpc[c] \in Rpc /\ RpcShape(c) /\ app' = app /\ handle' = handle /\ rpc'[c] = R(c)
    BY <1>1 DEF CallsOK, clientVars
  <2>2. CASE rpc[c].st = "sent"
    <3>1. /\ R(c) \in Rpc /\ R(c).st = "replied" /\ R(c).status = "UNAVAILABLE"
          /\ R(c).op = rpc[c].op /\ R(c).fh = rpc[c].fh /\ R(c).off = rpc[c].off
          /\ R(c).w = rpc[c].w /\ R(c).n = rpc[c].n
      BY <2>1, <2>2 DEF Rpc
    <3> HIDE DEF R
    <3> QED BY <2>1, <2>2, <3>1 DEF RpcShape
  <2>3. CASE rpc[c].st # "sent"
    BY <2>1, <2>3 DEF RpcShape
  <2> QED BY <2>2, <2>3
<1> HIDE DEF R
<1>3. rpc' \in [Clients -> Rpc]
  BY <1>1, <1>2
<1>4. hd' \in [Handlers -> Handler] /\ \A h \in Handlers : hd'[h] = Idle
  BY IdleType DEF Exit
<1>5. \A h \in Handlers : HandlerShape(hd[h])' /\ Linked(h)'
  BY <1>4, IdleType, AsyncIOAssumption DEF Linked, HandlerShape, Idle
<1> QED BY <1>2, <1>3, <1>4, <1>5 DEF CallsOK

LEMMA NotClients == "none" \notin Clients /\ "orphan" \notin Clients
  BY AsyncIOAssumption

LEMMA WaitedFor ==
  ASSUME CallsOK, NEW h \in Handlers, hd[h].c \in Clients
  PROVE  hd[h].pc # "idle"
<1>1. hd[h].pc = "idle" => hd[h] = Idle
  BY DEF CallsOK, HandlerShape
<1>2. Idle.c = "none"
  BY DEF Idle
<1> QED BY <1>1, <1>2, NotClients

LEMMA OpOfWrite ==
  ASSUME NEW c, NEW callback, OpOf(c, callback) \in WriteOps
  PROVE  callback = "write"
  BY DEF OpOf, WriteOps

\* A write that is outstanding is the one the application is at.
LEMMA SentWrite ==
  ASSUME CallsOK, ClientsOK, NEW c \in Clients, rpc[c].op \in WriteOps
  PROVE  /\ rpc[c].st # "none"
         /\ app[c].todo # <<>> /\ Head(app[c].todo) = "write" /\ Len(app[c].todo) = 1
         /\ app[c].w \in Writes /\ rpc[c].w = app[c].w /\ rpc[c].fh = handle[c]
<1>1. RpcShape(c) /\ AppShape(c) /\ app[c] \in Application
  BY DEF CallsOK, ClientsOK
<1>2. rpc[c].st # "none" /\ rpc[c].op # "Lookup"
  BY <1>1 DEF RpcShape, NoRpc, WriteOps
<1>3. app[c].todo # <<>> /\ Head(app[c].todo) = "write" /\ app[c].todo \in Seq(fuse_operations)
  BY <1>1, <1>2, OpOfWrite DEF RpcShape, Application
<1>4. 1 \in DOMAIN app[c].todo /\ app[c].todo[1] = "write"
  BY <1>3, EmptySeq
<1> QED BY <1>1, <1>2, <1>3, <1>4 DEF RpcShape, AppShape

\* Handler h takes the call of c.
LEMMA TakeCalls ==
  ASSUME CallsOK, ClientsOK, UNCHANGED clientVars, NEW h \in Handlers, NEW c \in Clients,
         Arrived(c), hd[h].pc = "idle", rpc[c].op \in DataOps, rpc[c].fh # EmptyHandle,
         NEW k \in Handler, k.pc = "open", k.c = c, k.op = rpc[c].op, k.fh = rpc[c].fh,
         k.off = rpc[c].off, k.w = rpc[c].w, k.fd = NoFd, k.n = 0,
         rpc' = rpc, hd' = [hd EXCEPT ![h] = k]
  PROVE  CallsOK'
<1> DEFINE r == rpc[c]
<1>1. /\ hd \in [Handlers -> Handler] /\ rpc \in [Clients -> Rpc] /\ r \in Rpc
      /\ r.st = "sent" /\ \A g \in Handlers : hd[g].c # c
  BY DEF CallsOK, Arrived
<1>2. /\ k.pc = "open" /\ k.c = c /\ k.op = r.op /\ k.fh = r.fh /\ k.off = r.off /\ k.w = r.w
      /\ k.fd = NoFd /\ k.n = 0
  OBVIOUS
<1>4. r.fh \in Inodes /\ (r.op \in WriteOps => r.w \in Writes)
  BY <1>1, SentWrite DEF Rpc
<1> HIDE DEF r
<1>5. HandlerShape(k)
  BY <1>2, <1>4, NotClients DEF HandlerShape
<1>6. /\ hd' \in [Handlers -> Handler] /\ hd'[h] = k
      /\ \A g \in Handlers \ {h} : hd'[g] = hd[g]
  BY <1>1
<1>7. ASSUME NEW g \in Handlers
      PROVE  HandlerShape(hd[g])' /\ Linked(g)'
  <2>1. HandlerShape(hd[g]) /\ Linked(g)
    BY DEF CallsOK
  <2>2. CASE g = h
    BY <1>1, <1>2, <1>5, <1>6, <2>2 DEF HandlerShape, Linked, r
  <2>3. CASE g # h
    <3>1. hd'[g] = hd[g] /\ hd[g].c # c
      BY <1>1, <1>6, <2>3
    <3>2. \A f \in Handlers : hd'[f].c = hd[f].c \/ hd'[f].c = c
      BY <1>2, <1>6
    <3> QED BY <2>1, <3>1, <3>2 DEF HandlerShape, Linked
  <2> QED BY <2>2, <2>3
<1>8. \A d \in Clients : RpcShape(d)'
  BY DEF CallsOK, RpcShape, clientVars
<1> QED BY <1>1, <1>2, <1>6, <1>7, <1>8 DEF CallsOK

\* The connection of c breaks: its handler, if any, is an orphan.
LEMMA LoseCalls ==
  ASSUME CallsOK, UNCHANGED clientVars, NEW c \in Clients, LoseRpc(c)
  PROVE  /\ CallsOK'
         /\ \A h \in Handlers :
              hd'[h] = hd[h] \/ (hd[h].c = c /\ hd'[h] = [hd[h] EXCEPT !.c = "orphan"])
<1>1. hd \in [Handlers -> Handler] /\ rpc \in [Clients -> Rpc] /\ rpc[c].st # "none"
  BY DEF CallsOK, LoseRpc
<1>2. /\ rpc' \in [Clients -> Rpc] /\ \A d \in Clients : RpcShape(d)'
      /\ \A d \in Clients \ {c} : rpc'[d] = rpc[d]
  BY <1>1, AnswerOK DEF LoseRpc, Statuses
<1>3. ASSUME NEW h \in Handlers
      PROVE  /\ hd[h] \in Handler /\ HandlerShape(hd[h]) /\ Linked(h)
             /\ hd'[h] = IF hd[h].c = c THEN [hd[h] EXCEPT !.c = "orphan"] ELSE hd[h]
  BY <1>1 DEF CallsOK, LoseRpc
<1>4. ASSUME NEW h \in Handlers
      PROVE  hd'[h] \in Handler /\ HandlerShape(hd'[h]) /\ hd'[h].c # c
             /\ (hd'[h].c = hd[h].c \/ hd'[h].c = "orphan")
  <2>1. CASE hd[h].c = c
    <3>1. hd[h].pc # "idle"
      BY <2>1, WaitedFor
    <3>2. /\ hd'[h] = [hd[h] EXCEPT !.c = "orphan"] /\ hd[h] \in Handler
      BY <1>3, <2>1
    <3>3. hd'[h] \in Handler /\ hd'[h].c = "orphan"
      BY <3>2 DEF Handler
    <3>4. /\ hd'[h].pc = hd[h].pc /\ hd'[h].op = hd[h].op /\ hd'[h].fh = hd[h].fh
          /\ hd'[h].w = hd[h].w /\ hd'[h].n = hd[h].n /\ hd'[h].fd = hd[h].fd
          /\ hd'[h].mount_fd = hd[h].mount_fd
      BY <3>2 DEF Handler
    <3>5. HandlerShape(hd'[h])
      BY <1>3, <3>1, <3>3, <3>4 DEF HandlerShape
    <3> QED BY <3>3, <3>5, AsyncIOAssumption
  <2>2. CASE hd[h].c # c
    BY <1>3, <2>2
  <2> QED BY <2>1, <2>2
<1>5. ASSUME NEW h \in Handlers
      PROVE  Linked(h)'
  <2>1. CASE hd'[h].c = "orphan"
    BY <2>1, AsyncIOAssumption DEF Linked
  <2>2. CASE hd'[h].c # "orphan"
    <3>1. hd'[h] = hd[h] /\ hd[h].c # c
      BY <1>3, <1>4, <2>2, AsyncIOAssumption
    <3>2. hd[h].c \in Clients => rpc'[hd[h].c] = rpc[hd[h].c]
      BY <1>2, <3>1
    <3>3. Linked(h)
      BY <1>3
    <3>4. ASSUME hd[h].c \in Clients, NEW g \in Handlers \ {h}
          PROVE  hd'[g].c # hd[h].c
      <4>1. hd[g].c # hd[h].c
        BY <3>3, <3>4 DEF Linked
      <4>2. hd'[g].c = hd[g].c \/ hd'[g].c = "orphan"
        BY <1>4
      <4> QED BY <3>4, <4>1, <4>2, NotClients
    <3> QED BY <3>1, <3>2, <3>3, <3>4 DEF Linked
  <2> QED BY <2>1, <2>2
<1>6. hd' \in [Handlers -> Handler]
  BY <1>4 DEF LoseRpc
<1> QED BY <1>2, <1>3, <1>4, <1>5, <1>6 DEF CallsOK, HandlerShape

-----------------------------------------------------------------------------
(* The descriptor table.                                                   *)

Held(k) == (IF k.pc = "close2" THEN {CloseOrder(k)[2]} ELSE {k.mount_fd, k.fd}) \ {NoFd}

Owns(k, table) ==
  /\ k.fd \in Held(k) => table[k.fd] = [i |-> k.fh, mode |-> Mode(k.op)]
  /\ k.mount_fd \in Held(k) => table[k.mount_fd] = MountDir

LEMMA HeldOwned ==
  HandlersKeepTheirDescriptors <=>
    \A h \in Handlers : /\ \A g \in Handlers \ {h} : Held(hd[g]) \cap Held(hd[h]) = {}
                        /\ Owns(hd[h], fds)
  BY DEF HandlersKeepTheirDescriptors, Holds, Held, Owns

LEMMA HeldOwnedNext ==
  HandlersKeepTheirDescriptors' <=>
    \A h \in Handlers : /\ \A g \in Handlers \ {h} : Held(hd'[g]) \cap Held(hd'[h]) = {}
                        /\ Owns(hd'[h], fds')
  BY DEF HandlersKeepTheirDescriptors, Holds, Held, Owns, CloseOrder

LEMMA HeldType ==
  ASSUME NEW k \in Handler
  PROVE  /\ Held(k) \subseteq Fds /\ Held(k) \subseteq {k.mount_fd, k.fd}
         /\ k.pc # "close2" => Held(k) = {k.mount_fd, k.fd} \ {NoFd}
         /\ k.pc = "close2" /\ k.op = "Write" => Held(k) = {k.fd} \ {NoFd}
         /\ k.pc = "close2" /\ k.op # "Write" => Held(k) = {k.mount_fd} \ {NoFd}
  BY DEF Held, CloseOrder, Handler

LEMMA IdleHolds == Held(Idle) = {}
  BY DEF Held, Idle

\* What is held is open.
LEMMA HeldOpen ==
  ASSUME NEW k \in Handler, NEW table, Owns(k, table), NEW n \in Held(k)
  PROVE  table[n] # NoFile
  BY HeldType DEF Owns, NoFile, MountDir, Mode

\* Only handler h moves; it holds what it held and perhaps a number that was
\* free, and the table changes at those numbers only.
LEMMA TableStep ==
  ASSUME TableOK, CallsOK, NEW h \in Handlers, NEW fresh \in SUBSET Fds,
         \A n \in fresh : fds[n] = NoFile,
         \A g \in Handlers \ {h} : hd'[g] = hd[g],
         Held(hd'[h]) \subseteq Held(hd[h]) \cup fresh,
         fds' \in [Fds -> OpenFiles \cup {NoFile}],
         \A n \in Fds : fds'[n] # fds[n] => n \in Held(hd[h]) \cup fresh,
         Owns(hd'[h], fds')
  PROVE  TableOK'
<1>1. ASSUME NEW g \in Handlers
      PROVE  /\ hd[g] \in Handler /\ Owns(hd[g], fds)
             /\ Held(hd[g]) \cap fresh = {} /\ Held(hd[g]) \subseteq Fds
             /\ \A f \in Handlers \ {g} : Held(hd[f]) \cap Held(hd[g]) = {}
  <2>1. hd[g] \in Handler
    BY DEF CallsOK
  <2>2. Owns(hd[g], fds) /\ \A f \in Handlers \ {g} : Held(hd[f]) \cap Held(hd[g]) = {}
    BY HeldOwned DEF TableOK
  <2>3. \A n \in Held(hd[g]) : fds[n] # NoFile
    BY <2>1, <2>2, HeldOpen
  <2> QED BY <2>1, <2>2, <2>3, HeldType
<1>2. ASSUME NEW g \in Handlers \ {h}
      PROVE  /\ Owns(hd'[g], fds')
             /\ Held(hd'[g]) \cap Held(hd'[h]) = {}
             /\ \A f \in Handlers \ {g, h} : Held(hd'[f]) \cap Held(hd'[g]) = {}
  <2>1. Held(hd[g]) \cap (Held(hd[h]) \cup fresh) = {}
    BY <1>1
  <2>2. \A n \in Held(hd[g]) : fds'[n] = fds[n]
    BY <1>1, <2>1
  <2>3. Owns(hd[g], fds) /\ hd'[g] = hd[g]
    BY <1>1
  <2>4. Owns(hd[g], fds')
    BY <2>2, <2>3 DEF Owns
  <2> QED BY <1>1, <2>1, <2>3, <2>4
<1> QED BY <1>2, HeldOwnedNext DEF TableOK

\* The same when h takes no number.
LEMMA TableUse ==
  ASSUME TableOK, CallsOK, NEW h \in Handlers,
         \A g \in Handlers \ {h} : hd'[g] = hd[g],
         Held(hd'[h]) \subseteq Held(hd[h]),
         fds' \in [Fds -> OpenFiles \cup {NoFile}],
         \A n \in Fds : fds'[n] # fds[n] => n \in Held(hd[h]),
         Owns(hd'[h], fds')
  PROVE  TableOK'
<1> DEFINE fresh == {}
<1>1. /\ fresh \in SUBSET Fds /\ \A n \in fresh : fds[n] = NoFile
      /\ Held(hd'[h]) \subseteq Held(hd[h]) \cup fresh
      /\ \A n \in Fds : fds'[n] # fds[n] => n \in Held(hd[h]) \cup fresh
  OBVIOUS
<1> HIDE DEF fresh
<1> QED BY <1>1, TableStep

\* Nothing about descriptors moves.
LEMMA TableSame ==
  ASSUME TableOK, CallsOK, fds' = fds,
         \A h \in Handlers : hd'[h] = hd[h] \/ hd'[h] = [hd[h] EXCEPT !.c = "orphan"]
  PROVE  TableOK'
<1>1. ASSUME NEW h \in Handlers
      PROVE  Held(hd'[h]) = Held(hd[h]) /\ (Owns(hd[h], fds) => Owns(hd'[h], fds'))
  <2>1. hd[h] \in Handler
    BY DEF CallsOK
  <2>2. /\ hd'[h].pc = hd[h].pc /\ hd'[h].op = hd[h].op /\ hd'[h].fh = hd[h].fh
        /\ hd'[h].fd = hd[h].fd /\ hd'[h].mount_fd = hd[h].mount_fd
    BY <2>1 DEF Handler
  <2>3. Held(hd'[h]) = Held(hd[h])
    BY <2>2 DEF Held, CloseOrder
  <2> QED BY <2>2, <2>3 DEF Owns
<1> QED BY <1>1, HeldOwned, HeldOwnedNext DEF TableOK

LEMMA ReturnTable ==
  ASSUME TableOK, CallsOK, NEW h \in Handlers, NEW status, Return(h, status),
         fds' \in [Fds -> OpenFiles \cup {NoFile}],
         \A n \in Fds : fds'[n] # fds[n] => n \in Held(hd[h])
  PROVE  TableOK'
<1>1. hd'[h] = Idle /\ \A g \in Handlers \ {h} : hd'[g] = hd[g]
  BY DEF Return, CallsOK
<1>2. Owns(Idle, fds')
  BY IdleHolds DEF Owns
<1> QED BY <1>1, <1>2, IdleHolds, TableUse

LEMMA ExitTable ==
  ASSUME Exit
  PROVE  TableOK'
<1>1. /\ fds' = [n \in Fds |-> NoFile] /\ \A h \in Handlers : hd'[h] = Idle
  BY DEF Exit
<1>2. \A h \in Handlers : Held(hd'[h]) = {} /\ Owns(hd'[h], fds')
  BY <1>1, IdleHolds DEF Owns
<1> QED BY <1>1, <1>2, HeldOwnedNext DEF TableOK

-----------------------------------------------------------------------------
(* The steps of the server.                                                *)

LEMMA ClientsSame ==
  ASSUME ClientsOK, UNCHANGED clientVars
  PROVE  ClientsOK'
  BY DEF ClientsOK, clientVars, AppShape

\* The counter of faults stays in its range.
LEMMA FaultType ==
  ASSUME FilesOK, Fault \/ UNCHANGED faults
  PROVE  faults' \in 0..MaxFaults
  BY AsyncIOAssumption DEF FilesOK, Fault

\* A handler that has its descriptors gets on with its work.
LEMMA WorkStep ==
  ASSUME TableOK, CallsOK, UNCHANGED clientVars, NEW h \in Handlers, NEW k \in Handler,
         hd[h].pc \in {"io", "sync"}, k.pc \in {"sync", "close"},
         k.pc = "sync" => k.op = "Write" /\ k.n = 1,
         k.c = hd[h].c, k.op = hd[h].op, k.fh = hd[h].fh, k.off = hd[h].off, k.w = hd[h].w,
         k.fd = hd[h].fd, k.mount_fd = hd[h].mount_fd,
         hd' = [hd EXCEPT ![h] = k], rpc' = rpc, fds' = fds
  PROVE  CallsOK' /\ TableOK'
<1>1. HandlerShape(hd[h]) /\ hd[h] \in Handler /\ hd'[h] = k
      /\ \A g \in Handlers \ {h} : hd'[g] = hd[g]
  BY DEF CallsOK
<1>2. HandlerShape(k)
  BY <1>1 DEF HandlerShape
<1>3. CallsOK'
  BY <1>2, GoOnCalls
<1>4. Held(k) = Held(hd[h]) /\ (Owns(hd[h], fds) => Owns(k, fds))
  BY <1>1 DEF Held, Owns
<1>5. Owns(k, fds') /\ fds' \in [Fds -> OpenFiles \cup {NoFile}]
  BY <1>4, HeldOwned DEF TableOK
<1>6. TableOK'
  BY <1>1, <1>4, <1>5, TableUse
<1> QED BY <1>3, <1>6

\* The same for the assignments the handlers make.
LEMMA Works ==
  ASSUME TableOK, CallsOK, UNCHANGED clientVars, NEW h \in Handlers, hd[h].pc \in {"io", "sync"},
         NEW pc \in {"sync", "close"}, NEW n \in {-1, 0, 1}, NEW v \in Writes \cup {NoWrite},
         pc = "sync" => hd[h].op = "Write" /\ n = 1, rpc' = rpc, fds' = fds,
         hd' = [hd EXCEPT ![h] = [hd[h] EXCEPT !.pc = pc, !.n = n, !.v = v]]
  PROVE  CallsOK' /\ TableOK'
<1> DEFINE k == [hd[h] EXCEPT !.pc = pc, !.n = n, !.v = v]
<1>1. hd[h] \in Handler
  BY DEF CallsOK
<1>2. k \in Handler
  BY <1>1 DEF Handler
<1>3. k.pc = pc /\ k.n = n
  BY <1>1 DEF Handler
<1>4. /\ k.c = hd[h].c /\ k.op = hd[h].op /\ k.fh = hd[h].fh /\ k.off = hd[h].off
      /\ k.w = hd[h].w /\ k.fd = hd[h].fd /\ k.mount_fd = hd[h].mount_fd
  BY <1>1 DEF Handler
<1>5. hd' = [hd EXCEPT ![h] = k]
  OBVIOUS
<1> HIDE DEF k
<1>6. k.pc \in {"sync", "close"} /\ (k.pc = "sync" => k.op = "Write" /\ k.n = 1)
  BY <1>3, <1>4
<1> QED BY <1>2, <1>4, <1>5, <1>6, WorkStep

LEMMA Assignments ==
  ASSUME CallsOK, NEW h \in Handlers, NEW pc, NEW n, NEW v
  PROVE  /\ [hd EXCEPT ![h].pc = pc] =
              [hd EXCEPT ![h] = [hd[h] EXCEPT !.pc = pc, !.n = hd[h].n, !.v = hd[h].v]]
         /\ [hd EXCEPT ![h].pc = pc, ![h].n = n] =
              [hd EXCEPT ![h] = [hd[h] EXCEPT !.pc = pc, !.n = n, !.v = hd[h].v]]
         /\ [hd EXCEPT ![h].pc = pc, ![h].v = v] =
              [hd EXCEPT ![h] = [hd[h] EXCEPT !.pc = pc, !.n = hd[h].n, !.v = v]]
         /\ hd[h].n \in {-1, 0, 1} /\ hd[h].v \in Writes \cup {NoWrite}
<1>1. hd \in [Handlers -> Handler] /\ hd[h] \in Handler
  BY DEF CallsOK
<1>2. [hd[h] EXCEPT !.pc = pc] = [hd[h] EXCEPT !.pc = pc, !.n = hd[h].n, !.v = hd[h].v]
  BY <1>1 DEF Handler
<1>3. [hd[h] EXCEPT !.pc = pc, !.n = n] = [hd[h] EXCEPT !.pc = pc, !.n = n, !.v = hd[h].v]
  BY <1>1 DEF Handler
<1>4. [hd[h] EXCEPT !.pc = pc, !.v = v] = [hd[h] EXCEPT !.pc = pc, !.n = hd[h].n, !.v = v]
  BY <1>1 DEF Handler
<1>5. [hd EXCEPT ![h].pc = pc] = [hd EXCEPT ![h] = [hd[h] EXCEPT !.pc = pc]]
  BY <1>1
<1>6. [hd EXCEPT ![h].pc = pc, ![h].n = n] = [hd EXCEPT ![h] = [hd[h] EXCEPT !.pc = pc, !.n = n]]
  BY <1>1
<1>7. [hd EXCEPT ![h].pc = pc, ![h].v = v] = [hd EXCEPT ![h] = [hd[h] EXCEPT !.pc = pc, !.v = v]]
  BY <1>1
<1>8. hd[h].n \in {-1, 0, 1} /\ hd[h].v \in Writes \cup {NoWrite}
  BY <1>1 DEF Handler
<1> QED BY <1>2, <1>3, <1>4, <1>5, <1>6, <1>7, <1>8

\* What a handler that reads, writes or syncs finds behind its descriptor.
LEMMA AtWork ==
  ASSUME TableOK, CallsOK, NEW h \in Handlers, hd[h].pc \in {"io", "sync"}
  PROVE  /\ hd[h] \in Handler /\ hd[h].fd \in Fds /\ hd[h].fh \in Inodes /\ hd[h].off \in Offsets
         /\ fds[hd[h].fd] = [i |-> hd[h].fh, mode |-> Mode(hd[h].op)]
         /\ fds[hd[h].fd].i = hd[h].fh
         /\ hd[h].op \in WriteOps => hd[h].w \in Writes
<1>1. hd[h] \in Handler /\ HandlerShape(hd[h])
  BY DEF CallsOK
<1>2. /\ hd[h].fd \in Fds /\ hd[h].fd # NoFd /\ hd[h].fh \in Inodes /\ hd[h].off \in Offsets
      /\ hd[h].op \in WriteOps => hd[h].w \in Writes
  BY <1>1 DEF HandlerShape, Handler, Fds, NoFd
<1>3. hd[h].fd \in Held(hd[h])
  BY <1>2 DEF Held
<1>4. Owns(hd[h], fds)
  BY HeldOwned DEF TableOK
<1>5. fds[hd[h].fd] = [i |-> hd[h].fh, mode |-> Mode(hd[h].op)]
  BY <1>3, <1>4 DEF Owns
<1> QED BY <1>1, <1>2, <1>5

LEMMA LandType ==
  ASSUME FilesOK, NEW w \in Writes, NEW i \in Inodes, NEW off \in Blocks, Land(w, i, off)
  PROVE  /\ content' \in [Cells -> Writes \cup {NoWrite}]
         /\ landed' \in Seq([w : Writes, cell : Cells])
<1>1. <<i, off>> \in Cells /\ [w |-> w, cell |-> <<i, off>>] \in [w : Writes, cell : Cells]
  BY DEF Cells
<1> QED BY <1>1 DEF FilesOK, Land

\* An offset that lseek accepts is a block.
LEMMA SeekType ==
  ASSUME NEW off \in Offsets, Int32(off) >= 0
  PROVE  Int32(off) \in Blocks
  BY Int32Type, AsyncIOAssumption DEF Blocks

LEMMA SyncType ==
  ASSUME FilesOK, TableOK, CallsOK, NEW h \in Handlers, hd[h].pc \in {"io", "sync"},
         NEW n \in {0, -1}, SyncFile(h, n)
  PROVE  /\ disk' \in [Cells -> Writes \cup {NoWrite}] /\ bad' \in SUBSET Inodes
         /\ faults' \in 0..MaxFaults
<1>1. fds[hd[h].fd].i \in Inodes
  BY AtWork
<1>2. Flushed(fds[hd[h].fd].i) \in [Cells -> Writes \cup {NoWrite}]
  BY DEF FilesOK, Flushed
<1>3. faults' \in 0..MaxFaults
  BY FaultType DEF SyncFile
<1> QED BY <1>1, <1>2, <1>3 DEF SyncFile, FilesOK

LEMMA ReadFInv ==
  ASSUME FInv, UNCHANGED clientVars, NEW h \in Handlers, Read(h)
  PROVE  FInv'
<1>1. FilesOK /\ TableOK /\ CallsOK /\ ClientsOK /\ hd[h].pc = "io" /\ hd[h] \in Handler
  BY Parts DEF Read, AtIO, CallsOK
<1>2. FilesOK'
  <2>1. UNCHANGED <<files, aio, up, landed, bad>> /\ faults' \in 0..MaxFaults /\ clean' \in BOOLEAN
    BY <1>1, FaultType DEF Read, FilesOK, Return
  <2> QED BY <1>1, <2>1 DEF FilesOK, files, QueueShape
<1>3. CASE Return(h, "CANCELLED")
  <2>1. CallsOK'
    BY <1>1, <1>3, ReturnCalls DEF Statuses
  <2>2. TableOK'
    BY <1>1, <1>3, ReturnTable DEF Read, TableOK
  <2> QED BY <1>1, <1>2, <2>1, <2>2, ClientsSame, PartsNext
<1>4. CASE ~Return(h, "CANCELLED")
  <2> DEFINE off == Int32(hd[h].off)
  <2> DEFINE v == content[<<fds[hd[h].fd].i, off>>]
  <2>1. /\ off >= 0 /\ hd' = [hd EXCEPT ![h].pc = "close", ![h].v = v]
        /\ rpc' = rpc /\ fds' = fds
    BY <1>4 DEF Read
  <2>2. v \in Writes \cup {NoWrite}
    <3>1. off \in Blocks /\ fds[hd[h].fd].i \in Inodes
      BY <1>1, <2>1, AtWork, SeekType
    <3> QED BY <1>1, <3>1 DEF FilesOK, Cells
  <2> HIDE DEF off, v
  <2>3. /\ hd' = [hd EXCEPT ![h] = [hd[h] EXCEPT !.pc = "close", !.n = hd[h].n, !.v = v]]
        /\ hd[h].n \in {-1, 0, 1}
    BY <1>1, <2>1, Assignments, ZenonT(60)
  <2>4. CallsOK' /\ TableOK'
    BY <1>1, <2>1, <2>2, <2>3, Works
  <2> QED BY <1>1, <1>2, <2>4, ClientsSame, PartsNext
<1> QED BY <1>3, <1>4

LEMMA WriteFInv ==
  ASSUME FInv, UNCHANGED clientVars, NEW h \in Handlers, Write(h)
  PROVE  FInv'
<1> DEFINE off == Int32(hd[h].off)
<1>1. /\ FilesOK /\ TableOK /\ CallsOK /\ ClientsOK /\ hd[h].pc = "io" /\ hd[h].op = "Write"
      /\ UNCHANGED <<here, used, disk, fds, aio, up, rpc, clean, bad>>
  BY Parts DEF Write, AtIO
<1>2. faults' \in 0..MaxFaults
  BY <1>1, FaultType DEF Write
<1>3. /\ content' \in [Cells -> Writes \cup {NoWrite}]
      /\ landed' \in Seq([w : Writes, cell : Cells])
  <2>1. CASE UNCHANGED <<content, landed>>
    BY <1>1, <2>1 DEF FilesOK
  <2>2. CASE off >= 0 /\ Land(hd[h].w, fds[hd[h].fd].i, off)
    BY <1>1, <2>2, AtWork, SeekType, LandType DEF WriteOps
  <2> QED BY <2>1, <2>2 DEF Write
<1>4. FilesOK'
  BY <1>1, <1>2, <1>3 DEF FilesOK, QueueShape
<1>5. CallsOK' /\ TableOK'
  <2>1. \/ hd' = [hd EXCEPT ![h].pc = "close"]
        \/ hd' = [hd EXCEPT ![h].pc = "close", ![h].n = -1]
        \/ hd' = [hd EXCEPT ![h].pc = "sync", ![h].n = 1]
    BY DEF Write, Goto
  <2>2. hd[h].n \in {-1, 0, 1} /\ hd[h].v \in Writes \cup {NoWrite}
    BY <1>1, Assignments
  <2>3. CASE hd' = [hd EXCEPT ![h].pc = "close"]
    <3>1. hd' = [hd EXCEPT ![h] = [hd[h] EXCEPT !.pc = "close", !.n = hd[h].n, !.v = hd[h].v]]
      BY <1>1, <2>3, Assignments
    <3> QED BY <1>1, <2>2, <3>1, Works
  <2>4. CASE hd' = [hd EXCEPT ![h].pc = "close", ![h].n = -1]
    <3>1. hd' = [hd EXCEPT ![h] = [hd[h] EXCEPT !.pc = "close", !.n = -1, !.v = hd[h].v]]
      BY <1>1, <2>4, Assignments, ZenonT(60)
    <3> QED BY <1>1, <2>2, <3>1, Works
  <2>5. CASE hd' = [hd EXCEPT ![h].pc = "sync", ![h].n = 1]
    <3>1. hd' = [hd EXCEPT ![h] = [hd[h] EXCEPT !.pc = "sync", !.n = 1, !.v = hd[h].v]]
      BY <1>1, <2>5, Assignments, ZenonT(60)
    <3> QED BY <1>1, <2>2, <3>1, Works
  <2> QED BY <2>1, <2>3, <2>4, <2>5
<1> QED BY <1>1, <1>4, <1>5, ClientsSame, PartsNext

\* Write's fsync, Fsync and Write_Async: the file part, and one assignment.
LEMMA CloseNext ==
  ASSUME FInv, UNCHANGED clientVars, NEW h \in Handlers, hd[h].pc \in {"io", "sync"}, FilesOK',
         rpc' = rpc, fds' = fds,
         \/ hd' = [hd EXCEPT ![h].pc = "close"]
         \/ \E n \in {-1, 0, 1} : hd' = [hd EXCEPT ![h].pc = "close", ![h].n = n]
  PROVE  FInv'
<1>1. TableOK /\ CallsOK /\ ClientsOK
  BY Parts
<1>2. hd[h].n \in {-1, 0, 1} /\ hd[h].v \in Writes \cup {NoWrite}
  BY <1>1, Assignments
<1>3. CASE hd' = [hd EXCEPT ![h].pc = "close"]
  <2>1. hd' = [hd EXCEPT ![h] = [hd[h] EXCEPT !.pc = "close", !.n = hd[h].n, !.v = hd[h].v]]
    BY <1>1, <1>3, Assignments
  <2> QED BY <1>1, <1>2, <2>1, Works, ClientsSame, PartsNext
<1>4. ASSUME NEW n \in {-1, 0, 1}, hd' = [hd EXCEPT ![h].pc = "close", ![h].n = n]
      PROVE  FInv'
  <2>1. [hd EXCEPT ![h].pc = "close", ![h].n = n] =
           [hd EXCEPT ![h] = [hd[h] EXCEPT !.pc = "close", !.n = n, !.v = hd[h].v]]
    BY <1>1, Assignments, ZenonT(60)
  <2>2. hd' = [hd EXCEPT ![h] = [hd[h] EXCEPT !.pc = "close", !.n = n, !.v = hd[h].v]]
    BY <1>4, <2>1, Zenon
  <2> QED BY <1>1, <1>2, <2>2, Works, ClientsSame, PartsNext
<1> QED BY <1>3, <1>4

LEMMA SyncFInv ==
  ASSUME FInv, UNCHANGED clientVars, NEW h \in Handlers, WriteSync(h) \/ Fsync(h)
  PROVE  FInv'
<1>1. /\ FilesOK /\ TableOK /\ CallsOK /\ hd[h].pc \in {"io", "sync"}
      /\ UNCHANGED <<here, used, content, fds, aio, up, rpc, landed, clean>>
  BY Parts DEF WriteSync, Fsync, AtIO
<1>2. PICK n \in {0, -1} : /\ SyncFile(h, n)
                           /\ \/ hd' = [hd EXCEPT ![h].pc = "close"]
                              \/ hd' = [hd EXCEPT ![h].pc = "close", ![h].n = n]
  BY DEF WriteSync, Fsync, Goto
<1>3. FilesOK'
  BY <1>1, <1>2, SyncType DEF FilesOK, QueueShape
<1> QED BY <1>1, <1>2, <1>3, CloseNext

LEMMA WriteAsyncFInv ==
  ASSUME FInv, UNCHANGED clientVars, NEW h \in Handlers, Write_Async(h)
  PROVE  FInv'
<1> DEFINE off == Int32(hd[h].off)
<1> DEFINE q == [fd |-> hd[h].fd, off |-> off, w |-> hd[h].w]
<1>1. /\ FilesOK /\ TableOK /\ CallsOK /\ hd[h].pc = "io" /\ hd[h].op = "Write_Async"
      /\ UNCHANGED <<files, fds, up, rpc, landed, clean, bad>>
  BY Parts DEF Write_Async, AtIO
<1>2. faults' \in 0..MaxFaults
  BY <1>1, FaultType DEF Write_Async
<1>3. aio' \in Seq([fd : Fds, off : Int, w : Writes]) /\ QueueShape'
  <2>1. aio' = aio \/ aio' = Append(aio, q)
    BY DEF Write_Async
  <2>2. q \in [fd : Fds, off : Int, w : Writes] /\ q.off < Int32Blocks
    BY <1>1, AtWork, Int32Type DEF WriteOps
  <2> HIDE DEF q
  <2>3. CASE aio' = aio
    BY <1>1, <2>3 DEF FilesOK, QueueShape
  <2>4. CASE aio' = Append(aio, q)
    <3>1. aio \in Seq([fd : Fds, off : Int, w : Writes]) /\ \A j \in DOMAIN aio : aio[j].off < Int32Blocks
      BY <1>1 DEF FilesOK, QueueShape
    <3>2. /\ aio' \in Seq([fd : Fds, off : Int, w : Writes])
          /\ \A j \in DOMAIN aio' : (j \in DOMAIN aio /\ aio'[j] = aio[j]) \/ aio'[j] = q
      BY <2>2, <2>4, <3>1
    <3> QED BY <2>2, <3>1, <3>2 DEF QueueShape
  <2> QED BY <2>1, <2>3, <2>4
<1>4. FilesOK'
  BY <1>1, <1>2, <1>3 DEF FilesOK, files
<1> QED BY <1>1, <1>4, CloseNext DEF Write_Async

LEMMA CloseFInv ==
  ASSUME FInv, UNCHANGED clientVars, NEW h \in Handlers, Close(h)
  PROVE  FInv'
<1>1. /\ FilesOK /\ TableOK /\ CallsOK /\ ClientsOK /\ hd[h] \in Handler /\ HandlerShape(hd[h])
      /\ hd[h].pc \in {"close", "close2"}
      /\ UNCHANGED <<files, aio, up, faults, landed, bad>> /\ hd \in [Handlers -> Handler]
  BY Parts DEF Close, CallsOK
<1>2. FilesOK'
  BY <1>1 DEF Close, Return, FilesOK, files, QueueShape
<1>3. /\ fds' \in [Fds -> OpenFiles \cup {NoFile}]
      /\ \A n \in Fds : fds'[n] # fds[n] =>
           n = CloseOrder(hd[h])[IF hd[h].pc = "close" THEN 1 ELSE 2]
  BY <1>1 DEF Close, Closed, TableOK
<1>4. CloseOrder(hd[h])[IF hd[h].pc = "close" THEN 1 ELSE 2] \in Held(hd[h])
  BY <1>1 DEF Held, CloseOrder, HandlerShape, Fds, NoFd
<1>5. CASE hd[h].pc = "close2"
  <2>1. Return(h, "OK")
    BY <1>5 DEF Close
  <2> QED BY <1>1, <1>2, <1>3, <1>4, <1>5, <2>1, ReturnCalls, ReturnTable, ClientsSame, PartsNext
          DEF Statuses
<1>6. CASE hd[h].pc = "close"
  <2> DEFINE k == [hd[h] EXCEPT !.pc = "close2"]
  <2>1. hd' = [hd EXCEPT ![h] = k] /\ rpc' = rpc /\ fds' = Closed({CloseOrder(hd[h])[1]})
    BY <1>1, <1>6 DEF Close, Goto
  <2>2. /\ k \in Handler /\ k.pc = "close2" /\ k.c = hd[h].c /\ k.op = hd[h].op
        /\ k.fh = hd[h].fh /\ k.off = hd[h].off /\ k.w = hd[h].w
        /\ k.fd = hd[h].fd /\ k.mount_fd = hd[h].mount_fd
    BY <1>1 DEF Handler
  <2> HIDE DEF k
  <2>3. HandlerShape(k)
    BY <1>1, <1>6, <2>2 DEF HandlerShape
  <2>4. CallsOK'
    BY <1>1, <2>1, <2>2, <2>3, GoOnCalls
  <2>5. hd'[h] = k /\ \A g \in Handlers \ {h} : hd'[g] = hd[g]
    BY <1>1, <2>1, <2>2
  <2>6. Held(k) \subseteq Held(hd[h])
    BY <1>6, <2>2 DEF Held, CloseOrder
  <2>7. Owns(k, fds')
    <3>1. Owns(hd[h], fds)
      BY <1>1, HeldOwned DEF TableOK
    <3>2. CloseOrder(hd[h])[1] \notin Held(k)
      BY <1>1, <1>6, <2>2 DEF Held, CloseOrder, HandlerShape
    <3>3. \A n \in Held(k) : fds'[n] = fds[n] /\ n \in Held(hd[h])
      BY <1>1, <2>1, <2>2, <2>6, <3>2, HeldType DEF Closed
    <3> QED BY <2>2, <3>1, <3>3 DEF Owns
  <2>8. TableOK'
    BY <1>1, <1>3, <1>4, <2>5, <2>6, <2>7, TableUse
  <2> QED BY <1>1, <1>2, <2>4, <2>8, ClientsSame, PartsNext
<1> QED BY <1>1, <1>5, <1>6

LEMMA ExitFiles ==
  ASSUME FilesOK, Exit, UNCHANGED <<here, used, landed, bad>>, faults' \in 0..MaxFaults,
         content' \in [Cells -> Writes \cup {NoWrite}], disk' \in [Cells -> Writes \cup {NoWrite}]
  PROVE  FilesOK'
<1>1. aio' = <<>> /\ up' = FALSE /\ clean' = TRUE
  BY DEF Exit
<1>2. aio' \in Seq([fd : Fds, off : Int, w : Writes]) /\ QueueShape'
  BY <1>1, EmptySeq DEF QueueShape
<1> QED BY <1>1, <1>2 DEF FilesOK

LEMMA OpenMountFInv ==
  ASSUME FInv, UNCHANGED clientVars, NEW h \in Handlers, NEW c \in Clients,
         open_mount_path_by_id(h, c)
  PROVE  FInv'
<1> DEFINE r == rpc[c]
<1> DEFINE k == [Idle EXCEPT !.pc = "open", !.c = c, !.op = r.op, !.fh = r.fh,
                             !.off = r.off, !.w = r.w]
<1>1. /\ FilesOK /\ TableOK /\ CallsOK /\ ClientsOK
      /\ Arrived(c) /\ r.op \in DataOps /\ hd[h].pc = "idle" /\ r \in Rpc
      /\ UNCHANGED <<files, landed, bad>>
  BY Parts DEF open_mount_path_by_id, CallsOK
<1>2. CASE Exit /\ UNCHANGED faults
  <2>1. FilesOK'
    BY <1>1, <1>2, ExitFiles DEF FilesOK, files
  <2> QED BY <1>1, <1>2, <2>1, ExitCalls, ExitTable, ClientsSame, PartsNext
<1>3. ASSUME r.fh # EmptyHandle, NEW j \in Handler, hd' = [hd EXCEPT ![h] = j],
             j.pc = "open", j.c = c, j.op = r.op, j.fh = r.fh, j.off = r.off, j.w = r.w,
             j.fd = NoFd, j.n = 0,
             UNCHANGED <<aio, up, clean, rpc>>, faults' \in 0..MaxFaults,
             \/ j.mount_fd = NoFd /\ fds' = fds
             \/ /\ j.mount_fd \in Fds /\ fds[j.mount_fd] = NoFile
                /\ fds' = [fds EXCEPT ![j.mount_fd] = MountDir]
      PROVE  FInv'
  <2>1. FilesOK'
    BY <1>1, <1>3 DEF FilesOK, files, QueueShape
  <2>2. CallsOK'
    BY <1>1, <1>3, TakeCalls
  <2>3. Held(hd[h]) = {} /\ hd'[h] = j /\ \A g \in Handlers \ {h} : hd'[g] = hd[g]
    BY <1>1, <1>3, IdleHolds DEF CallsOK, HandlerShape
  <2>4. Held(j) = {j.mount_fd} \ {NoFd}
    BY <1>3 DEF Held
  <2>5. CASE j.mount_fd = NoFd /\ fds' = fds
    <3>1. Owns(j, fds')
      BY <2>4, <2>5 DEF Owns
    <3>2. TableOK'
      BY <1>1, <2>3, <2>4, <2>5, <3>1, TableUse DEF TableOK
    <3> QED BY <1>1, <2>1, <2>2, <3>2, ClientsSame, PartsNext
  <2>6. CASE /\ j.mount_fd \in Fds /\ fds[j.mount_fd] = NoFile
             /\ fds' = [fds EXCEPT ![j.mount_fd] = MountDir]
    <3>1. Owns(j, fds')
      BY <1>1, <1>3, <2>4, <2>6 DEF Owns, TableOK
    <3>2. /\ fds' \in [Fds -> OpenFiles \cup {NoFile}]
          /\ \A m \in Fds : fds'[m] # fds[m] => m = j.mount_fd
      BY <1>1, <2>6 DEF TableOK, OpenFiles
    <3> DEFINE fresh == {j.mount_fd}
    <3>3. /\ fresh \in SUBSET Fds /\ \A m \in fresh : fds[m] = NoFile
          /\ Held(hd'[h]) \subseteq Held(hd[h]) \cup fresh
          /\ \A m \in Fds : fds'[m] # fds[m] => m \in Held(hd[h]) \cup fresh
      BY <2>3, <2>4, <2>6, <3>2
    <3> HIDE DEF fresh
    <3>4. TableOK'
      BY <1>1, <2>3, <3>1, <3>2, <3>3, TableStep
    <3> QED BY <1>1, <2>1, <2>2, <3>4, ClientsSame, PartsNext
  <2> QED BY <1>3, <2>5, <2>6
<1>4. /\ k.pc = "open" /\ k.c = c /\ k.op = r.op /\ k.fh = r.fh /\ k.off = r.off /\ k.w = r.w
      /\ k.fd = NoFd /\ k.n = 0 /\ k.mount_fd = NoFd
  BY DEF Idle
<1>5. k \in Handler
  BY <1>1, IdleType DEF Rpc, Handler
<1> HIDE DEF k
<1>6. CASE /\ ~Full /\ r.fh # EmptyHandle /\ fds' = Opened(MountDir)
           /\ hd' = [hd EXCEPT ![h] = [k EXCEPT !.mount_fd = Lowest]]
           /\ UNCHANGED <<aio, up, clean, rpc, faults>>
  <2> DEFINE j == [k EXCEPT !.mount_fd = Lowest]
  <2>1. faults' \in 0..MaxFaults /\ Lowest \in Fds /\ fds[Lowest] = NoFile
    BY <1>1, <1>6, FaultType, LowestFree
  <2>2. /\ j \in Handler /\ j.pc = "open" /\ j.c = c /\ j.op = r.op /\ j.fh = r.fh
        /\ j.off = r.off /\ j.w = r.w /\ j.fd = NoFd /\ j.n = 0 /\ j.mount_fd = Lowest
    BY <1>4, <1>5, <2>1 DEF Handler
  <2>3. hd' = [hd EXCEPT ![h] = j] /\ fds' = [fds EXCEPT ![j.mount_fd] = MountDir]
    BY <1>6, <2>2 DEF Opened
  <2> HIDE DEF j
  <2> QED BY <1>3, <1>6, <2>1, <2>2, <2>3
<1>7. CASE /\ ~Full /\ r.fh # EmptyHandle /\ Fault
           /\ hd' = [hd EXCEPT ![h] = k] /\ UNCHANGED <<fds, aio, up, clean, rpc>>
  <2>1. faults' \in 0..MaxFaults
    BY <1>1, <1>7, FaultType
  <2> QED BY <1>3, <1>4, <1>5, <1>7, <2>1
<1> QED BY <1>2, <1>6, <1>7 DEF open_mount_path_by_id, k

LEMMA OpenByHandleFInv ==
  ASSUME FInv, UNCHANGED clientVars, NEW h \in Handlers, open_by_handle_at(h)
  PROVE  FInv'
<1> DEFINE k == hd[h]
<1>1. /\ FilesOK /\ TableOK /\ CallsOK /\ ClientsOK
      /\ hd \in [Handlers -> Handler] /\ k \in Handler /\ HandlerShape(k) /\ k.pc = "open"
      /\ UNCHANGED <<files, aio, up, landed, bad>>
  BY Parts DEF open_by_handle_at, CallsOK
<1>2. Held(k) = {k.mount_fd} \ {NoFd} /\ Owns(k, fds)
  BY <1>1, HeldOwned DEF Held, HandlerShape, TableOK
<1>3. FilesOK'
  <2>1. faults' \in 0..MaxFaults
    BY <1>1, FaultType DEF open_by_handle_at
  <2>2. clean' \in BOOLEAN
    BY <1>1 DEF open_by_handle_at, FailedOpen, Return, FilesOK
  <2> QED BY <1>1, <2>1, <2>2 DEF FilesOK, files, QueueShape
<1>4. ASSUME NEW status \in Statuses, FailedOpen(h, status)
      PROVE  FInv'
  <2>1. /\ fds' \in [Fds -> OpenFiles \cup {NoFile}]
        /\ \A n \in Fds : fds'[n] # fds[n] => n = k.mount_fd
    BY <1>1, <1>4 DEF FailedOpen, Closed, TableOK
  <2>2. \A n \in Fds : fds'[n] # fds[n] => n \in Held(k)
    BY <1>2, <2>1 DEF Fds, NoFd
  <2>3. Return(h, status) /\ k.pc # "idle"
    BY <1>1, <1>4 DEF FailedOpen
  <2>4. CallsOK'
    BY <1>1, <2>3, ReturnCalls
  <2>5. TableOK'
    BY <1>1, <2>1, <2>2, <2>3, ReturnTable
  <2> QED BY <1>1, <1>3, <2>4, <2>5, ClientsSame, PartsNext
<1>5. CASE /\ k.mount_fd # NoFd /\ ~Full
           /\ fds' = Opened([i |-> k.fh, mode |-> Mode(k.op)])
           /\ hd' = [hd EXCEPT ![h].fd = Lowest, ![h].pc = "io"]
           /\ UNCHANGED <<rpc, clean, faults>>
  <2> DEFINE n == Lowest
  <2> DEFINE j == [k EXCEPT !.fd = n, !.pc = "io"]
  <2>1. n \in Fds /\ fds[n] = NoFile
    BY <1>5, LowestFree
  <2>2. k.mount_fd \in Fds /\ k.mount_fd \in Held(k) /\ fds[k.mount_fd] = MountDir
    BY <1>1, <1>2, <1>5 DEF Handler, Owns
  <2>3. k.mount_fd # n
    BY <1>1, <1>2, <2>1, <2>2, HeldOpen
  <2>4. /\ hd' = [hd EXCEPT ![h] = j] /\ rpc' = rpc
        /\ fds' = [fds EXCEPT ![n] = [i |-> k.fh, mode |-> Mode(k.op)]]
    BY <1>1, <1>5 DEF Opened
  <2> HIDE DEF n
  <2>5. /\ j \in Handler /\ j.pc = "io" /\ j.c = k.c /\ j.op = k.op /\ j.fh = k.fh
        /\ j.off = k.off /\ j.w = k.w /\ j.n = k.n /\ j.fd = n /\ j.mount_fd = k.mount_fd
    BY <1>1, <2>1 DEF Handler
  <2> HIDE DEF j
  <2>6. HandlerShape(j)
    BY <1>1, <2>1, <2>2, <2>3, <2>5 DEF HandlerShape
  <2>7. CallsOK'
    BY <1>1, <2>4, <2>5, <2>6, GoOnCalls
  <2>8. /\ fds' \in [Fds -> OpenFiles \cup {NoFile}]
        /\ \A m \in Fds : fds'[m] # fds[m] => m = n
        /\ fds'[n] = [i |-> k.fh, mode |-> Mode(k.op)] /\ fds'[k.mount_fd] = MountDir
    <3>1. [i |-> k.fh, mode |-> Mode(k.op)] \in OpenFiles
      BY <1>1 DEF HandlerShape, OpenFiles, Mode
    <3> QED BY <1>1, <2>1, <2>2, <2>3, <2>4, <3>1 DEF TableOK
  <2>9. hd'[h] = j /\ \A g \in Handlers \ {h} : hd'[g] = hd[g]
    BY <1>1, <2>4, <2>5
  <2> DEFINE fresh == {n}
  <2>10. /\ fresh \in SUBSET Fds /\ \A m \in fresh : fds[m] = NoFile
         /\ Held(hd'[h]) \subseteq Held(hd[h]) \cup fresh
         /\ \A m \in Fds : fds'[m] # fds[m] => m \in Held(hd[h]) \cup fresh
    BY <2>1, <2>2, <2>5, <2>8, <2>9 DEF Held
  <2>11. Owns(hd'[h], fds')
    BY <2>3, <2>5, <2>8, <2>9 DEF Owns
  <2> HIDE DEF fresh
  <2>12. TableOK'
    BY <1>1, <2>8, <2>9, <2>10, <2>11, TableStep
  <2> QED BY <1>1, <1>3, <2>7, <2>12, ClientsSame, PartsNext
<1>6. \/ \E status \in Statuses : FailedOpen(h, status)
      \/ /\ k.mount_fd # NoFd /\ ~Full
         /\ fds' = Opened([i |-> k.fh, mode |-> Mode(k.op)])
         /\ hd' = [hd EXCEPT ![h].fd = Lowest, ![h].pc = "io"]
         /\ UNCHANGED <<rpc, clean, faults>>
  BY DEF open_by_handle_at, Statuses
<1> QED BY <1>4, <1>5, <1>6

LEMMA RemoveAtProperties ==
  ASSUME NEW S, NEW s \in Seq(S), NEW i \in 1..Len(s)
  PROVE  /\ RemoveAt(s, i) \in Seq(S) /\ Len(RemoveAt(s, i)) = Len(s) - 1
         /\ \A j \in 1..(Len(s) - 1) :
              RemoveAt(s, i)[j] = s[IF j < i THEN j ELSE j + 1]
<1> DEFINE p == SubSeq(s, 1, i - 1)
           q == SubSeq(s, i + 1, Len(s))
           r == p \o q
           n == Len(s)
<1>1. n \in Nat /\ i \in Nat /\ 1 <= i /\ i <= n
  OBVIOUS
<1>2. p \in Seq(S) /\ Len(p) = i - 1 /\ \A j \in 1..(i - 1) : p[j] = s[j]
  OBVIOUS
<1>3. q \in Seq(S) /\ Len(q) = n - i /\ \A j \in 1..(n - i) : q[j] = s[j + i]
  OBVIOUS
<1>4. RemoveAt(s, i) = r
  BY DEF RemoveAt
<1>5. /\ r \in Seq(S) /\ Len(r) = Len(p) + Len(q)
      /\ \A j \in 1..(Len(p) + Len(q)) : r[j] = IF j <= Len(p) THEN p[j] ELSE q[j - Len(p)]
  <2> HIDE DEF p, q
  <2> QED BY <1>2, <1>3, ConcatProperties
<1> HIDE DEF p, q, r, n
<1>6. Len(r) = n - 1
  BY <1>1, <1>2, <1>3, <1>5
<1>7. ASSUME NEW j \in 1..(n - 1)
      PROVE  r[j] = s[IF j < i THEN j ELSE j + 1]
  <2>1. /\ j \in Int /\ 1 <= j /\ j <= n - 1
        /\ r[j] = IF j <= i - 1 THEN p[j] ELSE q[j - (i - 1)]
    BY <1>1, <1>2, <1>3, <1>5
  <2>2. CASE j < i
    BY <1>1, <1>2, <2>1, <2>2
  <2>3. CASE ~(j < i)
    <3>1. j - (i - 1) \in 1..(n - i) /\ (j - (i - 1)) + i = j + 1
      BY <1>1, <2>1, <2>3
    <3>2. q[j - (i - 1)] = s[(j - (i - 1)) + i]
      BY <1>3, <3>1
    <3> QED BY <1>1, <2>1, <2>3, <3>1, <3>2
  <2> QED BY <2>2, <2>3
<1> QED BY <1>4, <1>5, <1>6, <1>7 DEF n

LEMMA LookupFInv ==
  ASSUME FInv, UNCHANGED clientVars, NEW c \in Clients, Lookup(c)
  PROVE  FInv'
<1>1. /\ FilesOK /\ TableOK /\ CallsOK /\ ClientsOK
      /\ rpc[c].st = "sent" /\ rpc[c].op = "Lookup" /\ \A h \in Handlers : hd[h].c # c
      /\ UNCHANGED <<files, process, faults, landed, bad>>
      /\ rpc' = Answer(c, "OK", here, 0, NoWrite)
  BY Parts DEF Lookup, Arrived
<1>2. here \in Inodes
  BY <1>1 DEF FilesOK
<1>3. /\ rpc' \in [Clients -> Rpc] /\ \A d \in Clients : RpcShape(d)'
      /\ \A d \in Clients \ {c} : rpc'[d] = rpc[d]
  BY <1>1, <1>2, AnswerOK DEF Statuses
<1>4. \A h \in Handlers : HandlerShape(hd[h])' /\ Linked(h)'
  BY <1>1, <1>3 DEF CallsOK, HandlerShape, Linked, process
<1>5. CallsOK' /\ TableOK'
  BY <1>1, <1>3, <1>4, TableSame DEF CallsOK, process
<1>6. FilesOK'
  BY <1>1 DEF FilesOK, files, process, QueueShape
<1> QED BY <1>1, <1>5, <1>6, ClientsSame, PartsNext

LEMMA LoseRpcFInv ==
  ASSUME FInv, UNCHANGED clientVars, NEW c \in Clients, LoseRpc(c)
  PROVE  FInv'
<1>1. /\ FilesOK /\ TableOK /\ CallsOK /\ ClientsOK /\ Fault
      /\ UNCHANGED <<files, fds, aio, up, landed, clean, bad>>
  BY Parts DEF LoseRpc
<1>2. CallsOK' /\ TableOK'
  BY <1>1, LoseCalls, TableSame
<1>3. FilesOK'
  BY <1>1, FaultType DEF FilesOK, files, QueueShape
<1> QED BY <1>1, <1>2, <1>3, ClientsSame, PartsNext

LEMMA RpcUnavailableFInv ==
  ASSUME FInv, DownInv, UNCHANGED clientVars, NEW c \in Clients, RpcUnavailable(c)
  PROVE  FInv'
<1>1. /\ FilesOK /\ TableOK /\ CallsOK /\ ClientsOK /\ rpc[c].st # "none"
      /\ UNCHANGED <<files, process, faults, landed, bad>> /\ ~up
      /\ rpc' = Answer(c, "UNAVAILABLE", EmptyHandle, 0, NoWrite)
  BY Parts DEF RpcUnavailable
<1>2. rpc' \in [Clients -> Rpc] /\ \A d \in Clients : RpcShape(d)'
  BY <1>1, AnswerOK DEF Statuses
<1>3. \A h \in Handlers : hd[h].c \notin Clients
  BY <1>1, WaitedFor DEF DownInv
<1>4. \A h \in Handlers : HandlerShape(hd[h])' /\ Linked(h)'
  BY <1>1, <1>3 DEF CallsOK, HandlerShape, Linked, process
<1>5. CallsOK' /\ TableOK'
  BY <1>1, <1>2, <1>4, TableSame DEF CallsOK, process
<1>6. FilesOK'
  BY <1>1 DEF FilesOK, files, process, QueueShape
<1> QED BY <1>1, <1>5, <1>6, ClientsSame, PartsNext

LEMMA AioRunFInv ==
  ASSUME FInv, UNCHANGED clientVars, NEW k \in DOMAIN aio, AioRun(k)
  PROVE  FInv'
<1> DEFINE q == aio[k]
<1> DEFINE Q == [fd : Fds, off : Int, w : Writes]
<1>1. /\ FilesOK /\ TableOK /\ CallsOK /\ ClientsOK /\ aio' = RemoveAt(aio, k)
      /\ UNCHANGED <<here, used, disk, fds, hd, up, faults, rpc, clean, bad>>
  BY Parts DEF AioRun
<1>0. CallsOK' /\ TableOK'
  BY <1>1, TableSame DEF CallsOK, RpcShape, HandlerShape, Linked, clientVars
<1>2. /\ aio \in Seq(Q) /\ k \in 1..Len(aio) /\ Len(aio) \in Nat
      /\ \A j \in 1..Len(aio) : aio[j].off < Int32Blocks
  <2>1. aio \in Seq(Q) /\ \A j \in DOMAIN aio : aio[j].off < Int32Blocks
    BY <1>1 DEF FilesOK, QueueShape
  <2> HIDE DEF Q
  <2> QED BY <2>1
<1>2a. q \in Q /\ q.off < Int32Blocks
  <2> HIDE DEF Q
  <2> QED BY <1>2
<1>3. aio' \in Seq(Q) /\ QueueShape'
  <2> HIDE DEF Q
  <2>1. /\ aio' \in Seq(Q) /\ Len(aio') = Len(aio) - 1
        /\ \A j \in 1..(Len(aio) - 1) : aio'[j] = aio[IF j < k THEN j ELSE j + 1]
    BY <1>1, <1>2, RemoveAtProperties
  <2>2. ASSUME NEW j \in DOMAIN aio'
        PROVE  aio'[j].off < Int32Blocks
    <3>1. j \in 1..(Len(aio) - 1)
      BY <2>1
    <3> DEFINE i == IF j < k THEN j ELSE j + 1
    <3>2. i \in 1..Len(aio) /\ aio'[j] = aio[i]
      BY <1>2, <2>1, <3>1
    <3> QED BY <1>2, <3>2
  <2> QED BY <2>1, <2>2 DEF QueueShape
<1>4. CASE fds[q.fd].mode = "O_WRONLY" /\ q.off >= 0
  <2>0. q.fd \in Fds /\ q.w \in Writes /\ q.off \in Int
    BY <1>2a
  <2>1. fds[q.fd] \in OpenFiles \cup {NoFile}
    BY <1>1, <2>0 DEF TableOK
  <2>2. fds[q.fd].i \in Inodes
    BY <1>4, <2>1 DEF OpenFiles, NoFile, MountDir
  <2>3. q.off \in Blocks
    BY <1>2a, <1>4, AsyncIOAssumption DEF Blocks
  <2>4. Land(q.w, fds[q.fd].i, q.off)
    BY <1>4 DEF AioRun
  <2>5. FilesOK'
    BY <1>1, <1>2a, <1>3, <2>2, <2>3, <2>4, LandType DEF FilesOK
  <2> QED BY <1>1, <1>0, <2>5, ClientsSame, PartsNext
<1>5. CASE ~(fds[q.fd].mode = "O_WRONLY" /\ q.off >= 0)
  <2>1. UNCHANGED <<content, landed>>
    BY <1>5 DEF AioRun
  <2>2. FilesOK'
    BY <1>1, <1>3, <2>1 DEF FilesOK
  <2> QED BY <1>1, <1>0, <2>2, ClientsSame, PartsNext
<1> QED BY <1>4, <1>5

LEMMA OutsideFInv ==
  ASSUME FInv, UNCHANGED clientVars, Replace \/ ServerCrash \/ PowerLoss \/ RunServer
  PROVE  FInv'
<1>1. FilesOK /\ TableOK /\ CallsOK /\ ClientsOK
  BY Parts
<1>2. CASE Replace \/ RunServer
  <2>1. UNCHANGED <<content, disk, fds, aio, hd, clean, faults, rpc, landed, bad>>
    BY <1>2 DEF Replace, RunServer, process, files
  <2>2. here' \in used' /\ used' \in SUBSET Inodes /\ up' \in BOOLEAN
    BY <1>1, <1>2 DEF Replace, RunServer, FilesOK, files, process
  <2>3. FilesOK'
    BY <1>1, <2>1, <2>2 DEF FilesOK, QueueShape
  <2>4. CallsOK' /\ TableOK'
    BY <1>1, <2>1, TableSame DEF CallsOK, RpcShape, HandlerShape, Linked, clientVars
  <2> QED BY <1>1, <2>3, <2>4, ClientsSame, PartsNext
<1>3. CASE ServerCrash \/ PowerLoss
  <2>1. Fault /\ Exit /\ UNCHANGED <<here, used, landed, bad>>
    BY <1>3 DEF ServerCrash, PowerLoss, files
  <2>2. /\ content' \in [Cells -> Writes \cup {NoWrite}]
        /\ disk' \in [Cells -> Writes \cup {NoWrite}]
    BY <1>1, <1>3 DEF ServerCrash, PowerLoss, files, FilesOK
  <2>3. FilesOK'
    BY <1>1, <2>1, <2>2, FaultType, ExitFiles
  <2> QED BY <1>1, <2>1, <2>3, ExitCalls, ExitTable, ClientsSame, PartsNext
<1> QED BY <1>2, <1>3

LEMMA ServerStepFInv ==
  ASSUME FInv, DownInv, UNCHANGED clientVars, ServerStep
  PROVE  FInv'
<1>1. ASSUME NEW h \in Handlers, Serve(h)
      PROVE  FInv'
  BY <1>1, OpenMountFInv, OpenByHandleFInv, ReadFInv, WriteFInv, SyncFInv, WriteAsyncFInv,
     CloseFInv DEF Serve
<1>2. ASSUME NEW c \in Clients, Lookup(c) \/ LoseRpc(c) \/ RpcUnavailable(c)
      PROVE  FInv'
  BY <1>2, LookupFInv, LoseRpcFInv, RpcUnavailableFInv
<1>3. ASSUME NEW k \in DOMAIN aio, AioRun(k)
      PROVE  FInv'
  BY <1>3, AioRunFInv
<1>4. CASE Replace \/ ServerCrash \/ PowerLoss \/ RunServer
  BY <1>4, OutsideFInv
<1> QED BY <1>1, <1>2, <1>3, <1>4 DEF ServerStep

LEMMA DownStep ==
  ASSUME FInv, DownInv, [Next]_vars
  PROVE  DownInv'
<1>1. /\ \A h \in Handlers : hd[h] \in Handler
      /\ ~up => \A h \in Handlers : hd[h].pc = "idle"
  BY Parts DEF CallsOK, DownInv
<1>2. CASE Exit
  <2>1. \A h \in Handlers : hd'[h] = Idle
    BY <1>2 DEF Exit
  <2> QED BY <2>1 DEF DownInv, Idle
<1>3. CASE UNCHANGED <<up, hd>>
  BY <1>3 DEF DownInv
<1>4. CASE UNCHANGED up /\ up
  BY <1>4 DEF DownInv
<1>5. ASSUME NEW h \in Handlers, Serve(h)
      PROVE  Exit \/ (UNCHANGED up /\ up)
  <2>1. ASSUME NEW c \in Clients, open_mount_path_by_id(h, c)
        PROVE  Exit \/ (UNCHANGED up /\ up)
    BY <2>1 DEF open_mount_path_by_id, Arrived
  <2>2. CASE \/ open_by_handle_at(h) \/ Read(h) \/ Write(h) \/ WriteSync(h)
             \/ Write_Async(h) \/ Fsync(h) \/ Close(h)
    <3>1. hd[h].pc # "idle" /\ UNCHANGED up
      BY <2>2 DEF open_by_handle_at, Read, Write, WriteSync, Write_Async, Fsync, Close, AtIO
    <3> QED BY <1>1, <3>1
  <2> QED BY <1>5, <2>1, <2>2 DEF Serve
<1>6. ASSUME NEW c \in Clients, LoseRpc(c)
      PROVE  DownInv'
  <2>1. ASSUME NEW h \in Handlers
        PROVE  hd'[h].pc = hd[h].pc
    BY <1>1, <1>6 DEF LoseRpc, Handler
  <2> QED BY <1>1, <1>6, <2>1 DEF LoseRpc, DownInv
<1>7. CASE ServerStep
  <2>1. ASSUME NEW c \in Clients, Lookup(c) \/ RpcUnavailable(c)
        PROVE  UNCHANGED <<up, hd>>
    BY <2>1 DEF Lookup, RpcUnavailable, process
  <2>2. ASSUME NEW k \in DOMAIN aio, AioRun(k)
        PROVE  UNCHANGED <<up, hd>>
    BY <2>2 DEF AioRun
  <2>3. CASE Replace
    BY <1>3, <2>3 DEF Replace, process
  <2>4. CASE ServerCrash \/ PowerLoss
    BY <1>2, <2>4 DEF ServerCrash, PowerLoss
  <2>5. CASE RunServer
    BY <2>5 DEF RunServer, DownInv
  <2> QED BY <1>2, <1>3, <1>4, <1>5, <1>6, <1>7, <2>1, <2>2, <2>3, <2>4, <2>5 DEF ServerStep
<1> QED BY <1>3, <1>7 DEF Next, vars, serverVars, process

-----------------------------------------------------------------------------
(* The steps of the clients.                                               *)

ClientTypes ==
  /\ handle \in [Clients -> Inodes \cup {EmptyHandle, NoEntry}]
  /\ page \in [Clients -> [Offsets -> Page \cup {NotCached}]]
  /\ app \in [Clients -> Application]
  /\ opened \in SUBSET Clients /\ issued \in SUBSET Writes
  /\ acked \in SUBSET Acked /\ synced \in SUBSET acked
  /\ floor \in [Clients -> SUBSET acked]

\* Only client c moves, and no call of the data path that is on its way.
LEMMA ClientMove ==
  ASSUME FInv, NEW c \in Clients, UNCHANGED <<files, process, faults, landed, bad>>,
         rpc' \in [Clients -> Rpc], ClientTypes',
         \A d \in Clients \ {c} :
           /\ rpc'[d] = rpc[d] /\ app'[d] = app[d] /\ handle'[d] = handle[d]
           /\ d \in opened' <=> d \in opened,
         rpc[c].st = "sent" /\ rpc[c].op # "Lookup" => rpc'[c] = rpc[c],
         RpcShape(c)', AppShape(c)'
  PROVE  FInv'
<1>1. FilesOK /\ TableOK /\ CallsOK /\ ClientsOK
  BY Parts
<1>2. FilesOK' /\ TableOK'
  <2>1. FilesOK'
    BY <1>1 DEF FilesOK, files, process, QueueShape
  <2>2. TableOK'
    BY <1>1, TableSame DEF process
  <2> QED BY <2>1, <2>2
<1>3. ASSUME NEW d \in Clients
      PROVE  RpcShape(d)' /\ AppShape(d)'
  <2>1. CASE d = c
    BY <2>1
  <2>2. CASE d # c
    BY <1>1, <2>2 DEF CallsOK, ClientsOK, RpcShape, AppShape
  <2> QED BY <2>1, <2>2
<1>4. ASSUME NEW h \in Handlers
      PROVE  HandlerShape(hd[h])' /\ Linked(h)'
  <2>1. hd[h] \in Handler /\ HandlerShape(hd[h]) /\ Linked(h) /\ hd' = hd
    BY <1>1 DEF CallsOK, process
  <2>2. ASSUME hd[h].c \in Clients
        PROVE  rpc'[hd[h].c] = rpc[hd[h].c]
    <3>1. rpc[hd[h].c].st = "sent" /\ rpc[hd[h].c].op = hd[h].op
      BY <2>1, <2>2 DEF Linked
    <3>2. hd[h].op # "Lookup"
      BY <2>1 DEF Handler, DataOps
    <3> QED BY <2>2, <3>1, <3>2
  <2> QED BY <2>1, <2>2 DEF HandlerShape, Linked
<1>5. CallsOK'
  BY <1>1, <1>3, <1>4 DEF CallsOK, process
<1>6. ClientsOK'
  BY <1>3 DEF ClientsOK, ClientTypes
<1> QED BY <1>2, <1>5, <1>6, PartsNext

\* What is known of a client that has a callback to run.
LEMMA AtCallback ==
  ASSUME FInv, NEW c \in Clients, app[c].todo # <<>>
  PROVE  /\ app[c] \in Application /\ app[c].todo \in Seq(fuse_operations)
         /\ app[c].sys # "none" /\ RpcShape(c) /\ AppShape(c)
         /\ handle[c] \in Inodes \cup {EmptyHandle, NoEntry} /\ rpc[c] \in Rpc
         /\ Head(app[c].todo) # "open" => handle[c] \in Inodes \cup {EmptyHandle}
  BY Parts DEF CallsOK, ClientsOK, AppShape, Application

LEMMA AskFInv ==
  ASSUME FInv, NEW c \in Clients, UNCHANGED <<files, process, faults, landed, bad>>,
         app[c].todo # <<>>, NEW op, op = OpOf(c, Head(app[c].todo)), Ask(c, op)
  PROVE  FInv'
<1> DEFINE F == IF op = "Lookup" THEN EmptyHandle ELSE handle[c]
<1> DEFINE r == [NoRpc EXCEPT !.st = "sent", !.op = op, !.fh = F, !.off = app[c].off, !.w = app[c].w]
<1>1. /\ app[c] \in Application /\ AppShape(c) /\ rpc[c].st = "none"
      /\ rpc' = [rpc EXCEPT ![c] = r] /\ UNCHANGED clientVars
      /\ ClientTypes /\ rpc \in [Clients -> Rpc]
  BY AtCallback, Parts DEF Ask, ClientsOK, ClientTypes, CallsOK
<1>2. op \in DataOps \cup {"Lookup"} /\ (op # "Lookup" => Head(app[c].todo) # "open")
  BY DEF OpOf, DataOps, Write_File, Write_File_Async
<1>3. F \in Inodes \cup {EmptyHandle}
  BY <1>2, AtCallback
<1>4. /\ r \in Rpc /\ r.st = "sent" /\ r.op = op /\ r.off = app[c].off /\ r.w = app[c].w
      /\ r.n = 0 /\ (op # "Lookup" => r.fh = handle[c])
  <2>1. app[c].off \in Offsets /\ app[c].w \in Writes \cup {NoWrite}
    BY <1>1 DEF Application
  <2>2. op # "Lookup" => F = handle[c]
    OBVIOUS
  <2> HIDE DEF F
  <2>3. /\ r.st = "sent" /\ r.op = op /\ r.off = app[c].off /\ r.w = app[c].w
        /\ r.n = 0 /\ r.fh = F
    BY DEF NoRpc
  <2>4. r \in Rpc
    BY <1>2, <1>3, <2>1, NoRpcType DEF Rpc
  <2> QED BY <2>2, <2>3, <2>4
<1> HIDE DEF r
<1>5. /\ rpc' \in [Clients -> Rpc] /\ rpc'[c] = r
      /\ \A d \in Clients \ {c} : rpc'[d] = rpc[d]
  BY <1>1, <1>4
<1>6. RpcShape(c)' /\ AppShape(c)'
  BY <1>1, <1>4, <1>5 DEF RpcShape, AppShape, clientVars
<1>7. ClientTypes'
  BY <1>1 DEF ClientTypes, clientVars
<1> QED BY <1>1, <1>5, <1>6, <1>7, ClientMove DEF clientVars

LEMMA StaleFInv ==
  ASSUME FInv, NEW c \in Clients, UNCHANGED <<files, process, faults, landed, bad>>,
         app[c].todo # <<>>, Stale(c)
  PROVE  FInv'
<1> DEFINE todo == app[c].todo
<1> DEFINE more == <<"open">> \o todo
<1>1. /\ app[c] \in Application /\ AppShape(c) /\ todo \in Seq(fuse_operations)
      /\ app[c].sys # "none" /\ rpc[c].st = "replied"
      /\ handle' = [handle EXCEPT ![c] = NoEntry] /\ rpc' = [rpc EXCEPT ![c] = NoRpc]
      /\ app' = [app EXCEPT ![c] = [app[c] EXCEPT !.todo = more]]
      /\ UNCHANGED <<page, opened, issued, acked, synced, floor>>
      /\ ClientTypes /\ rpc \in [Clients -> Rpc]
  BY AtCallback, Parts DEF Stale, Replied, ClientsOK, ClientTypes, CallsOK
<1>2. "open" \in fuse_operations
  BY DEF fuse_operations, FileSlots
<1> HIDE DEF todo
<1>3. /\ more \in Seq(fuse_operations) /\ more # <<>> /\ Head(more) = "open"
      /\ Len(more) = Len(todo) + 1 /\ more[1] = "open"
      /\ \A k \in 2..Len(more) : more[k] = todo[k - 1]
  BY <1>1, <1>2
<1> HIDE DEF more
<1>4. [app[c] EXCEPT !.todo = more] \in Application
  BY <1>1, <1>3 DEF Application
<1>5. /\ app'[c] = [app[c] EXCEPT !.todo = more] /\ handle'[c] = NoEntry /\ rpc'[c] = NoRpc
      /\ app'[c].todo = more /\ app'[c].sys = app[c].sys /\ app'[c].w = app[c].w
      /\ \A d \in Clients \ {c} : rpc'[d] = rpc[d] /\ app'[d] = app[d] /\ handle'[d] = handle[d]
  BY <1>1 DEF ClientTypes, Application
<1>6. ClientTypes' /\ rpc' \in [Clients -> Rpc]
  BY <1>1, <1>4, NoRpcType DEF ClientTypes
<1>7. RpcShape(c)'
  BY <1>5 DEF RpcShape, NoRpc
<1>8. AppShape(c)'
  <2>1. ASSUME NEW k \in DOMAIN more, more[k] = "write"
        PROVE  k = Len(more) /\ app[c].w \in Writes
    <3>1. k \in 2..Len(more) /\ k - 1 \in DOMAIN todo /\ todo[k - 1] = "write"
      BY <1>1, <1>3, <2>1
    <3>2. k - 1 = Len(todo) /\ app[c].w \in Writes
      BY <1>1, <3>1 DEF AppShape, todo
    <3> QED BY <1>3, <3>1, <3>2
  <2> QED BY <1>1, <1>3, <1>5, <2>1 DEF AppShape
<1> QED BY <1>1, <1>5, <1>6, <1>7, <1>8, ClientMove

\* The callback that runs returns.
LEMMA DoneFInv ==
  ASSUME FInv, NEW c \in Clients, UNCHANGED <<files, process, faults, landed, bad>>,
         app[c].todo # <<>>, Done(c), rpc[c].st # "sent" \/ rpc[c].op = "Lookup",
         handle' \in [Clients -> Inodes \cup {EmptyHandle, NoEntry}], handle'[c] # NoEntry,
         \A d \in Clients \ {c} : handle'[d] = handle[d],
         page' \in [Clients -> [Offsets -> Page \cup {NotCached}]],
         acked' \in SUBSET Acked, acked \subseteq acked', synced' \in SUBSET acked'
  PROVE  FInv'
<1> DEFINE todo == app[c].todo
<1> DEFINE less == Tail(todo)
<1>1. /\ app[c] \in Application /\ AppShape(c) /\ todo \in Seq(fuse_operations)
      /\ app[c].sys # "none" /\ rpc' = [rpc EXCEPT ![c] = NoRpc]
      /\ app' = [app EXCEPT ![c] = [app[c] EXCEPT !.todo = less]]
      /\ UNCHANGED <<opened, issued, floor>>
      /\ ClientTypes /\ rpc \in [Clients -> Rpc]
  BY AtCallback, Parts DEF Done, ClientsOK, ClientTypes, CallsOK
<1>2. todo # <<>>
  OBVIOUS
<1> HIDE DEF todo
<1>3. /\ less \in Seq(fuse_operations) /\ Len(less) = Len(todo) - 1
      /\ \A k \in 1..Len(less) : less[k] = todo[k + 1] /\ k + 1 \in DOMAIN todo
  BY <1>1, <1>2
<1> HIDE DEF less
<1>4. [app[c] EXCEPT !.todo = less] \in Application
  BY <1>1, <1>3 DEF Application
<1>5. /\ app'[c] = [app[c] EXCEPT !.todo = less] /\ rpc'[c] = NoRpc
      /\ app'[c].todo = less /\ app'[c].sys = app[c].sys /\ app'[c].w = app[c].w
      /\ \A d \in Clients \ {c} : rpc'[d] = rpc[d] /\ app'[d] = app[d]
  BY <1>1 DEF ClientTypes, Application
<1>6. ClientTypes' /\ rpc' \in [Clients -> Rpc]
  BY <1>1, <1>4, NoRpcType DEF ClientTypes
<1>7. RpcShape(c)'
  BY <1>5 DEF RpcShape, NoRpc
<1>8. AppShape(c)'
  <2>1. ASSUME NEW k \in DOMAIN less, less[k] = "write"
        PROVE  k = Len(less) /\ app[c].w \in Writes
    <3>1. k \in 1..Len(less) /\ k + 1 \in DOMAIN todo /\ todo[k + 1] = "write"
      BY <1>3, <2>1
    <3>2. k + 1 = Len(todo) /\ app[c].w \in Writes
      BY <1>1, <3>1 DEF AppShape, todo
    <3> QED BY <1>1, <1>3, <3>1, <3>2
  <2> QED BY <1>1, <1>5, <2>1 DEF AppShape
<1> QED BY <1>1, <1>5, <1>6, <1>7, <1>8, ClientMove

LEMMA SysCallFInv ==
  ASSUME FInv, NEW c \in Clients, UNCHANGED <<files, process, faults, landed, bad>>, SysCall(c)
  PROVE  FInv'
<1> DEFINE call == Head(app[c].next)
<1>1. /\ app[c] \in Application /\ AppShape(c) /\ RpcShape(c) /\ rpc[c] \in Rpc
      /\ ClientTypes /\ rpc \in [Clients -> Rpc] /\ app[c].sys = "none" /\ app[c].next # <<>>
      /\ UNCHANGED <<handle, page, opened, acked, synced, floor, rpc>>
  BY Parts DEF SysCall, ClientsOK, ClientTypes, CallsOK
<1>2. call \in Calls /\ Tail(app[c].next) \in Seq(Calls)
  BY <1>1 DEF Application
<1>3. PICK w \in Writes \cup {NoWrite} :
        /\ IF call.sys = "write" THEN w \in Writes \ issued ELSE w = NoWrite
        /\ app' = [app EXCEPT ![c] = [sys |-> call.sys, next |-> Tail(app[c].next),
                     todo |-> CallbacksOf(c, call.sys), off |-> call.off, w |-> w]]
        /\ issued' = issued \cup ({w} \ {NoWrite})
  BY DEF SysCall
<1> DEFINE todo == CallbacksOf(c, call.sys)
<1>4. call.sys \in SystemCalls /\ call.off \in Offsets
  BY <1>2 DEF Calls
<1> HIDE DEF call
<1>5. /\ todo \in Seq(fuse_operations)
      /\ \A k \in DOMAIN todo : todo[k] = "write" => call.sys = "write" /\ k = Len(todo)
  <2>1. CASE todo = Callbacks(call.sys)
    BY <1>4, <2>1, CallbacksType
  <2>2. CASE todo = <<>>
    BY <2>2, EmptySeq
  <2> QED BY <2>1, <2>2 DEF CallbacksOf
<1>6. handle[c] = NoEntry =>
        IF todo = <<>> THEN c \notin opened /\ call.sys # "open" ELSE Head(todo) = "open"
  <2>1. handle[c] = NoEntry => c \notin opened
    BY <1>1 DEF AppShape
  <2>2. CASE call.sys = "open"
    <3>1. todo = <<"open">>
      BY <2>2, OpenIsImplemented DEF CallbacksOf
    <3> QED BY <3>1, EmptySeq
  <2>3. CASE call.sys # "open"
    BY <2>1, <2>3 DEF CallbacksOf
  <2> QED BY <2>2, <2>3
<1> HIDE DEF todo
<1>7. /\ app'[c].sys = call.sys /\ app'[c].todo = todo /\ app'[c].w = w
      /\ \A d \in Clients \ {c} : app'[d] = app[d]
      /\ app' \in [Clients -> Application]
  BY <1>1, <1>2, <1>3, <1>4, <1>5 DEF ClientTypes, Application, todo
<1>8. rpc[c].st = "none"
  BY <1>1 DEF RpcShape, AppShape
<1>9. RpcShape(c)'
  BY <1>1, <1>8 DEF RpcShape, Rpc
<1>10. AppShape(c)'
  BY <1>1, <1>3, <1>4, <1>5, <1>6, <1>7 DEF AppShape, SystemCalls
<1>11. ClientTypes'
  BY <1>1, <1>3, <1>7 DEF ClientTypes
<1> QED BY <1>1, <1>7, <1>8, <1>9, <1>10, <1>11, ClientMove

LEMMA SysReturnFInv ==
  ASSUME FInv, NEW c \in Clients, UNCHANGED <<files, process, faults, landed, bad>>, SysReturn(c)
  PROVE  FInv'
<1>1. /\ app[c] \in Application /\ AppShape(c) /\ RpcShape(c) /\ rpc[c] \in Rpc
      /\ ClientTypes /\ rpc \in [Clients -> Rpc] /\ app[c].sys # "none" /\ app[c].todo = <<>>
      /\ UNCHANGED <<handle, issued, acked, synced, rpc>>
      /\ app' = [app EXCEPT ![c] = Ready(app[c].next)]
  BY Parts DEF SysReturn, ClientsOK, ClientTypes, CallsOK
<1>2. Ready(app[c].next) \in Application /\ Ready(app[c].next).todo = <<>>
      /\ Ready(app[c].next).sys = "none"
  BY <1>1, Off0Member, EmptySeq DEF Ready, Application
<1>3. /\ app' \in [Clients -> Application] /\ app'[c].todo = <<>> /\ app'[c].sys = "none"
      /\ \A d \in Clients \ {c} : app'[d] = app[d]
  BY <1>1, <1>2 DEF ClientTypes
<1>4. /\ opened' \in SUBSET Clients /\ \A d \in Clients \ {c} : d \in opened' <=> d \in opened
      /\ c \in opened' => c \in opened \/ app[c].sys = "open"
      /\ floor' = floor \/ floor' = [floor EXCEPT ![c] = acked]
      /\ page' = page \/ page' = [page EXCEPT ![c] = NoPages]
  BY <1>1 DEF SysReturn, ClientTypes
<1>5. ClientTypes'
  BY <1>1, <1>3, <1>4 DEF ClientTypes, NoPages
<1>6. rpc[c].st = "none" /\ RpcShape(c)'
  BY <1>1 DEF RpcShape, Rpc
<1>7. AppShape(c)'
  BY <1>1, <1>3, <1>4, EmptySeq DEF AppShape
<1> QED BY <1>1, <1>3, <1>4, <1>5, <1>6, <1>7, ClientMove

LEMMA openFInv ==
  ASSUME FInv, NEW c \in Clients, UNCHANGED <<files, process, faults, landed, bad>>, open(c)
  PROVE  FInv'
<1>1. /\ app[c].todo # <<>> /\ Head(app[c].todo) = "open" /\ UNCHANGED <<page, acked, synced>>
  BY DEF open, Running
<1>2. /\ RpcShape(c) /\ rpc[c] \in Rpc /\ ClientTypes
      /\ handle[c] \in Inodes \cup {EmptyHandle, NoEntry}
  BY <1>1, AtCallback, Parts DEF ClientsOK, ClientTypes
<1>3. rpc[c].st # "sent" \/ rpc[c].op = "Lookup"
  BY <1>1, <1>2 DEF RpcShape, OpOf
<1>4. CASE handle[c] # NoEntry /\ Done(c) /\ UNCHANGED handle
  <2>1. /\ handle' \in [Clients -> Inodes \cup {EmptyHandle, NoEntry}] /\ handle'[c] # NoEntry
        /\ \A d \in Clients \ {c} : handle'[d] = handle[d]
        /\ page' \in [Clients -> [Offsets -> Page \cup {NotCached}]]
        /\ acked' \in SUBSET Acked /\ acked \subseteq acked' /\ synced' \in SUBSET acked'
    BY <1>1, <1>2, <1>4 DEF ClientTypes
  <2> QED BY <1>1, <1>3, <1>4, <2>1, DoneFInv
<1>5. CASE Ask(c, "Lookup")
  <2>1. "Lookup" = OpOf(c, Head(app[c].todo))
    BY <1>1 DEF OpOf
  <2> QED BY <1>1, <1>5, <2>1, AskFInv
<1>6. CASE /\ Done(c)
           /\ handle' = [handle EXCEPT ![c] = IF rpc[c].status = "OK" THEN rpc[c].fh ELSE EmptyHandle]
  <2>1. (IF rpc[c].status = "OK" THEN rpc[c].fh ELSE EmptyHandle) \in Inodes \cup {EmptyHandle}
    BY <1>2 DEF Rpc
  <2>2. /\ handle' \in [Clients -> Inodes \cup {EmptyHandle, NoEntry}] /\ handle'[c] # NoEntry
        /\ \A d \in Clients \ {c} : handle'[d] = handle[d]
    BY <1>2, <1>6, <2>1, FileIOAssumption DEF ClientTypes
  <2>3. /\ page' \in [Clients -> [Offsets -> Page \cup {NotCached}]]
        /\ acked' \in SUBSET Acked /\ acked \subseteq acked' /\ synced' \in SUBSET acked'
    BY <1>1, <1>2 DEF ClientTypes
  <2> QED BY <1>1, <1>3, <1>6, <2>2, <2>3, DoneFInv
<1> QED BY <1>4, <1>5, <1>6 DEF open

\* The callbacks of the data path.
LEMMA dataFInv ==
  ASSUME FInv, NEW c \in Clients, UNCHANGED <<files, process, faults, landed, bad>>,
         read(c) \/ write(c) \/ fsync(c)
  PROVE  FInv'
<1>1. app[c].todo # <<>> /\ Head(app[c].todo) \in {"read", "write", "fsync", "flush", "release"}
  BY DEF read, write, fsync, Running
<1>2. /\ app[c] \in Application /\ AppShape(c) /\ RpcShape(c) /\ rpc[c] \in Rpc /\ ClientTypes
      /\ handle[c] \in Inodes \cup {EmptyHandle}
  BY <1>1, AtCallback, Parts DEF ClientsOK, ClientTypes
<1>3. CASE Stale(c)
  BY <1>1, <1>3, StaleFInv
<1>4. ASSUME NEW op, Ask(c, op), op = OpOf(c, Head(app[c].todo))
      PROVE  FInv'
  BY <1>1, <1>4, AskFInv
<1>5. ASSUME Answered(c), Done(c), UNCHANGED handle,
             page' \in [Clients -> [Offsets -> Page \cup {NotCached}]],
             acked' \in SUBSET Acked, acked \subseteq acked', synced' \in SUBSET acked'
      PROVE  FInv'
  <2>1. rpc[c].st # "sent"
    BY <1>5 DEF Answered, Replied
  <2>2. /\ handle' \in [Clients -> Inodes \cup {EmptyHandle, NoEntry}] /\ handle'[c] # NoEntry
        /\ \A d \in Clients \ {c} : handle'[d] = handle[d]
    BY <1>2, <1>5, FileIOAssumption DEF ClientTypes
  <2> QED BY <1>1, <1>5, <2>1, <2>2, DoneFInv
<1>6. CASE read(c)
  <2>1. OpOf(c, Head(app[c].todo)) = "Read"
    BY <1>6 DEF read, Running, OpOf
  <2>2. CASE /\ Answered(c) /\ Done(c) /\ UNCHANGED <<handle, acked, synced>>
             /\ page' = IF rpc[c].status = "OK"
                          THEN [page EXCEPT ![c][app[c].off] =
                                  Kept([v |-> rpc[c].v, i |-> rpc[c].fh])]
                          ELSE page
    <3>1. rpc[c].status = "OK" => [v |-> rpc[c].v, i |-> rpc[c].fh] \in Page
      BY <1>1, <1>2, <2>1, <2>2 DEF RpcShape, Answered, Replied, Rpc, Page
    <3>2. rpc[c].status = "OK" => Kept([v |-> rpc[c].v, i |-> rpc[c].fh]) \in Page \cup {NotCached}
      BY <3>1 DEF Kept
    <3>3. page' \in [Clients -> [Offsets -> Page \cup {NotCached}]]
      BY <1>2, <2>2, <3>2 DEF ClientTypes, Application
    <3>4. acked' \in SUBSET Acked /\ acked \subseteq acked' /\ synced' \in SUBSET acked'
      BY <1>2, <2>2 DEF ClientTypes
    <3> QED BY <1>5, <2>2, <3>3, <3>4
  <2> QED BY <1>3, <1>4, <1>6, <2>1, <2>2 DEF read
<1>7. CASE write(c)
  <2> DEFINE a == [c |-> c, w |-> app[c].w, fh |-> handle[c], off |-> app[c].off]
  <2> DEFINE p == IF rpc[c].n = 1 THEN Kept([v |-> a.w, i |-> a.fh]) ELSE NotCached
  <2>1. /\ Head(app[c].todo) = "write"
        /\ OpOf(c, Head(app[c].todo)) = IF c \in SyncClients THEN Write_File ELSE Write_File_Async
    BY <1>7 DEF write, Running, OpOf
  <2>2. CASE /\ Answered(c) /\ Done(c) /\ UNCHANGED <<handle, synced>>
             /\ acked' = IF rpc[c].n = 1 THEN acked \cup {a} ELSE acked
             /\ page' = [page EXCEPT ![c][a.off] = p]
    <3>1. app[c].w \in Writes /\ app[c].off \in Offsets
      <4>1. 1 \in DOMAIN app[c].todo /\ app[c].todo[1] = "write"
        BY <1>1, <1>2, <2>1 DEF Application
      <4> QED BY <1>2, <4>1 DEF AppShape, Application
    <3>2. rpc[c].n = 1 => a \in Acked /\ [v |-> a.w, i |-> a.fh] \in Page
      <4>1. ASSUME rpc[c].n = 1
            PROVE  handle[c] \in Inodes
        <5>1. rpc[c].st = "replied" /\ rpc[c].status = "OK" /\ rpc[c].op # "Lookup"
          BY <1>1, <1>2, <2>1, <2>2, <4>1
             DEF RpcShape, Answered, Replied, Write_File, Write_File_Async
        <5> QED BY <1>2, <5>1 DEF RpcShape
      <4> QED BY <3>1, <4>1 DEF Acked, Page
    <3>3. p \in Page \cup {NotCached}
      BY <3>2 DEF Kept
    <3>4. a.off = app[c].off
      OBVIOUS
    <3> HIDE DEF p
    <3>5. page' \in [Clients -> [Offsets -> Page \cup {NotCached}]]
      BY <1>2, <2>2, <3>1, <3>3, <3>4 DEF ClientTypes
    <3> HIDE DEF a
    <3>6. acked' \in SUBSET Acked /\ acked \subseteq acked' /\ synced' \in SUBSET acked'
      BY <1>2, <2>2, <3>2 DEF ClientTypes
    <3> QED BY <1>5, <2>2, <3>5, <3>6
  <2> QED BY <1>3, <1>4, <1>7, <2>1, <2>2 DEF write
<1>8. CASE fsync(c)
  <2>1. OpOf(c, Head(app[c].todo)) = "Fsync"
    BY <1>8 DEF fsync, Running, OpOf
  <2>2. CASE /\ Answered(c) /\ Done(c) /\ UNCHANGED <<handle, page, acked>>
             /\ synced' = IF rpc[c].n = 0
                            THEN synced \cup {a \in acked : a.c = c /\ a.fh = handle[c]}
                            ELSE synced
    BY <1>2, <1>5, <2>2 DEF ClientTypes
  <2> QED BY <1>3, <1>4, <1>8, <2>1, <2>2 DEF fsync
<1> QED BY <1>6, <1>7, <1>8

LEMMA NextFInv ==
  ASSUME FInv, DownInv, [Next]_vars
  PROVE  FInv' /\ DownInv'
<1>0. DownInv'
  BY DownStep
<1>1. CASE ServerStep /\ UNCHANGED clientVars
  BY <1>0, <1>1, ServerStepFInv
<1>2. ASSUME NEW c \in Clients, ClientStep(c),
             UNCHANGED <<files, process, faults, landed, bad>>
      PROVE  FInv'
  BY <1>2, SysCallFInv, SysReturnFInv, openFInv, dataFInv DEF ClientStep
<1>3. CASE UNCHANGED vars
  <2>1. FilesOK /\ TableOK /\ CallsOK /\ ClientsOK
    BY Parts
  <2>2. FilesOK' /\ CallsOK' /\ ClientsOK'
    BY <1>3, <2>1 DEF vars, serverVars, clientVars, FilesOK, QueueShape, CallsOK,
       RpcShape, HandlerShape, Linked, ClientsOK, AppShape
  <2>3. TableOK'
    BY <1>3, <2>1, TableSame DEF vars, serverVars
  <2> QED BY <1>0, <2>2, <2>3, PartsNext
<1> QED BY <1>0, <1>1, <1>2, <1>3 DEF Next

\* Type correctness, and the shape of the calls on their way, in every run of
\* the system.
THEOREM FileIOTypeCorrect == Spec => []TypeOK
<1>1. Init => FInv /\ DownInv
  BY InitFInv DEF Init, ServerInit, DownInv
<1>2. FInv /\ DownInv /\ [Next]_vars => (FInv /\ DownInv)'
  BY NextFInv
<1>3. FInv => TypeOK
  BY DEF FInv
<1> QED BY <1>1, <1>2, <1>3, PTL DEF Spec

\* No close(2) at the end of a handler takes away a descriptor that another
\* handler was given, and every handler works on the file that it opened.
THEOREM DescriptorsKept == Spec => []HandlersKeepTheirDescriptors
<1>1. Init => FInv /\ DownInv
  BY InitFInv DEF Init, ServerInit, DownInv
<1>2. FInv /\ DownInv /\ [Next]_vars => (FInv /\ DownInv)'
  BY NextFInv
<1>3. FInv => HandlersKeepTheirDescriptors
  BY DEF FInv
<1> QED BY <1>1, <1>2, <1>3, PTL DEF Spec

-----------------------------------------------------------------------------
(* Descriptors leak on error returns only.                                 *)

\* Handler h moves; what is still open is held by h, or by whom it was held.
LEMMA ReturnedStep ==
  ASSUME DescriptorsReturned, NEW h \in Handlers, \A g \in Handlers \ {h} : hd'[g] = hd[g],
         clean' => clean,
         \A n \in Fds : fds'[n] # NoFile =>
           \/ n \in Held(hd'[h])
           \/ fds'[n] = fds[n] /\ n \notin Held(hd[h])
  PROVE  DescriptorsReturned'
<1>1. \A g \in Handlers : Holds(g) = Held(hd[g]) /\ Holds(g)' = Held(hd'[g])
  BY DEF Holds, Held, CloseOrder
<1>2. ASSUME clean', NEW n \in Fds, fds'[n] # NoFile
      PROVE  \E g \in Handlers : n \in Held(hd'[g])
  <2>1. CASE n \in Held(hd'[h])
    BY <2>1
  <2>2. CASE fds'[n] = fds[n] /\ n \notin Held(hd[h])
    <3>1. PICK g \in Handlers : n \in Held(hd[g])
      BY <1>1, <1>2, <2>2 DEF DescriptorsReturned
    <3> QED BY <2>2, <3>1
  <2> QED BY <1>2, <2>1, <2>2
<1> QED BY <1>1, <1>2 DEF DescriptorsReturned

LEMMA ReturnedSame ==
  ASSUME CallsOK, DescriptorsReturned, UNCHANGED <<fds, clean>>,
         \A h \in Handlers : hd'[h] = hd[h] \/ hd'[h] = [hd[h] EXCEPT !.c = "orphan"]
  PROVE  DescriptorsReturned'
<1>1. ASSUME NEW h \in Handlers
      PROVE  Holds(h)' = Holds(h)
  <2>1. hd[h] \in Handler
    BY DEF CallsOK
  <2>2. /\ hd'[h].pc = hd[h].pc /\ hd'[h].op = hd[h].op
        /\ hd'[h].fd = hd[h].fd /\ hd'[h].mount_fd = hd[h].mount_fd
    BY <2>1 DEF Handler
  <2> QED BY <2>2 DEF Holds, CloseOrder
<1> QED BY <1>1 DEF DescriptorsReturned

LEMMA ServeReturned ==
  ASSUME FInv, DescriptorsReturned, UNCHANGED clientVars, NEW h \in Handlers, Serve(h)
  PROVE  DescriptorsReturned'
<1>1. /\ TableOK /\ CallsOK /\ hd \in [Handlers -> Handler] /\ hd[h] \in Handler
      /\ HandlerShape(hd[h])
  BY Parts DEF CallsOK
<1>2. CASE Exit
  BY <1>2 DEF Exit, DescriptorsReturned
<1>3. ASSUME NEW status, status # "OK", Return(h, status)
      PROVE  DescriptorsReturned'
  BY <1>3 DEF Return, DescriptorsReturned
<1>4. ASSUME NEW k \in Handler, hd' = [hd EXCEPT ![h] = k], UNCHANGED clean,
             \A n \in Fds : fds'[n] # NoFile =>
               n \in Held(k) \/ (fds'[n] = fds[n] /\ n \notin Held(hd[h]))
      PROVE  DescriptorsReturned'
  <2>1. hd'[h] = k /\ \A g \in Handlers \ {h} : hd'[g] = hd[g]
    BY <1>1, <1>4
  <2> QED BY <1>4, <2>1, ReturnedStep
<1>5. ASSUME NEW c \in Clients, open_mount_path_by_id(h, c)
      PROVE  DescriptorsReturned'
  <2> DEFINE k == [Idle EXCEPT !.pc = "open", !.c = c, !.op = rpc[c].op, !.fh = rpc[c].fh,
                               !.off = rpc[c].off, !.w = rpc[c].w]
  <2>1. Held(hd[h]) = {}
    BY <1>1, <1>5, IdleHolds DEF open_mount_path_by_id, HandlerShape
  <2>2. /\ k \in Handler /\ k.pc = "open" /\ k.fd = NoFd /\ k.mount_fd = NoFd
    <3>1. rpc[c] \in Rpc /\ rpc[c].op \in DataOps
      BY <1>1, <1>5 DEF CallsOK, open_mount_path_by_id
    <3>2. k.pc = "open" /\ k.fd = NoFd /\ k.mount_fd = NoFd
      BY DEF Idle
    <3> QED BY <3>1, <3>2, IdleType DEF Rpc, Handler
  <2> HIDE DEF k
  <2>3. CASE hd' = [hd EXCEPT ![h] = k] /\ UNCHANGED <<fds, clean>>
    BY <1>4, <2>1, <2>2, <2>3
  <2>4. CASE /\ ~Full /\ fds' = Opened(MountDir) /\ UNCHANGED clean
             /\ hd' = [hd EXCEPT ![h] = [k EXCEPT !.mount_fd = Lowest]]
    <3> DEFINE j == [k EXCEPT !.mount_fd = Lowest]
    <3>1. Lowest \in Fds
      BY <2>4, LowestFree
    <3>2. j \in Handler /\ j.pc = "open" /\ j.mount_fd = Lowest
      BY <2>2, <3>1 DEF Handler
    <3> HIDE DEF j
    <3>3. Lowest \in Held(j)
      BY <3>1, <3>2 DEF Held, Fds, NoFd
    <3>4. \A n \in Fds : fds'[n] # NoFile => n \in Held(j) \/ fds'[n] = fds[n]
      BY <1>1, <2>4, <3>3 DEF Opened, TableOK
    <3> QED BY <1>4, <2>1, <2>4, <3>2, <3>4 DEF j
  <2> QED BY <1>2, <1>5, <2>3, <2>4 DEF open_mount_path_by_id, k
<1>6. CASE open_by_handle_at(h)
  <2>1. ASSUME NEW status, status # "OK", FailedOpen(h, status)
        PROVE  DescriptorsReturned'
    BY <1>3, <2>1 DEF FailedOpen
  <2>2. CASE /\ hd[h].pc = "open" /\ ~Full
             /\ fds' = Opened([i |-> hd[h].fh, mode |-> Mode(hd[h].op)])
             /\ hd' = [hd EXCEPT ![h].fd = Lowest, ![h].pc = "io"] /\ UNCHANGED clean
    <3> DEFINE j == [hd[h] EXCEPT !.fd = Lowest, !.pc = "io"]
    <3>1. Lowest \in Fds
      BY <2>2, LowestFree
    <3>2. /\ j \in Handler /\ j.pc = "io" /\ j.fd = Lowest /\ j.mount_fd = hd[h].mount_fd
          /\ hd' = [hd EXCEPT ![h] = j]
      BY <1>1, <2>2, <3>1 DEF Handler
    <3> HIDE DEF j
    <3>3. Lowest \in Held(j) /\ Held(hd[h]) \subseteq Held(j)
      BY <1>1, <2>2, <3>1, <3>2 DEF Held, HandlerShape, Fds, NoFd
    <3>4. \A n \in Fds : fds'[n] # NoFile => n \in Held(j) \/ fds'[n] = fds[n]
      BY <1>1, <2>2, <3>3 DEF Opened, TableOK
    <3> QED BY <1>4, <2>2, <3>2, <3>3, <3>4
  <2> QED BY <1>6, <2>1, <2>2 DEF open_by_handle_at
<1>7. ASSUME hd[h].pc \in {"io", "sync"}, UNCHANGED <<fds, clean>>,
             NEW pc \in {"sync", "close"}, NEW n \in {-1, 0, 1}, NEW v \in Writes \cup {NoWrite},
             hd' = [hd EXCEPT ![h] = [hd[h] EXCEPT !.pc = pc, !.n = n, !.v = v]]
      PROVE  DescriptorsReturned'
  <2> DEFINE j == [hd[h] EXCEPT !.pc = pc, !.n = n, !.v = v]
  <2>1. j \in Handler
    BY <1>1 DEF Handler
  <2>1a. j.pc = pc /\ j.fd = hd[h].fd /\ j.mount_fd = hd[h].mount_fd
    BY <1>1 DEF Handler
  <2>2. hd' = [hd EXCEPT ![h] = j]
    BY <1>7
  <2> HIDE DEF j
  <2>3. Held(j) = Held(hd[h])
    BY <1>7, <2>1a DEF Held
  <2> QED BY <1>4, <1>7, <2>1, <2>2, <2>3
<1>8. CASE \/ Read(h) \/ Write(h) \/ WriteSync(h) \/ Write_Async(h) \/ Fsync(h)
  <2>1. hd[h].pc \in {"io", "sync"}
    BY <1>8 DEF Read, Write, WriteSync, Write_Async, Fsync, AtIO
  <2>2. \/ Return(h, "CANCELLED")
        \/ /\ UNCHANGED <<fds, clean>>
           /\ \/ \E v : hd' = [hd EXCEPT ![h].pc = "close", ![h].v = v]
              \/ \E pc \in {"sync", "close"} : hd' = [hd EXCEPT ![h].pc = pc]
              \/ \E pc \in {"sync", "close"}, n \in {-1, 0, 1} :
                   hd' = [hd EXCEPT ![h].pc = pc, ![h].n = n]
    BY <1>8 DEF Read, Write, WriteSync, Write_Async, Fsync, Goto
  <2>3. hd[h].n \in {-1, 0, 1} /\ hd[h].v \in Writes \cup {NoWrite}
    BY <1>1 DEF Handler
  <2>4. ASSUME NEW v, hd' = [hd EXCEPT ![h].pc = "close", ![h].v = v], UNCHANGED <<fds, clean>>
        PROVE  DescriptorsReturned'
    <3> DEFINE j == [hd[h] EXCEPT !.pc = "close", !.v = v]
    <3>1. hd'[h] = j /\ \A g \in Handlers \ {h} : hd'[g] = hd[g]
      BY <1>1, <2>4
    <3>2. j.pc = "close" /\ j.fd = hd[h].fd /\ j.mount_fd = hd[h].mount_fd
      BY <1>1 DEF Handler
    <3>3. Held(hd'[h]) = Held(hd[h])
      BY <2>1, <3>1, <3>2 DEF Held
    <3> QED BY <2>4, <3>1, <3>3, ReturnedStep
  <2>5. ASSUME NEW pc \in {"sync", "close"}, UNCHANGED <<fds, clean>>,
               \/ hd' = [hd EXCEPT ![h].pc = pc]
               \/ \E n \in {-1, 0, 1} : hd' = [hd EXCEPT ![h].pc = pc, ![h].n = n]
        PROVE  DescriptorsReturned'
    <3>1. CASE hd' = [hd EXCEPT ![h].pc = pc]
      <4>1. hd' = [hd EXCEPT ![h] = [hd[h] EXCEPT !.pc = pc, !.n = hd[h].n, !.v = hd[h].v]]
        BY <1>1, <3>1, Assignments
      <4> QED BY <1>7, <2>1, <2>3, <2>5, <4>1
    <3>2. ASSUME NEW n \in {-1, 0, 1}, hd' = [hd EXCEPT ![h].pc = pc, ![h].n = n]
          PROVE  DescriptorsReturned'
      <4>0. [hd EXCEPT ![h].pc = pc, ![h].n = n] =
              [hd EXCEPT ![h] = [hd[h] EXCEPT !.pc = pc, !.n = n, !.v = hd[h].v]]
        BY <1>1, Assignments, ZenonT(60)
      <4>1. hd' = [hd EXCEPT ![h] = [hd[h] EXCEPT !.pc = pc, !.n = n, !.v = hd[h].v]]
        BY <3>2, <4>0
      <4> QED BY <1>7, <2>1, <2>3, <2>5, <4>1
    <3> QED BY <2>5, <3>1, <3>2
  <2> QED BY <1>3, <2>2, <2>4, <2>5
<1>9. CASE Close(h)
  <2>1. CASE hd[h].pc = "close"
    <3> DEFINE j == [hd[h] EXCEPT !.pc = "close2"]
    <3>1. /\ j \in Handler /\ j.pc = "close2" /\ j.op = hd[h].op
          /\ j.fd = hd[h].fd /\ j.mount_fd = hd[h].mount_fd
      BY <1>1 DEF Handler
    <3>2. /\ hd' = [hd EXCEPT ![h] = j] /\ UNCHANGED clean
          /\ fds' = Closed({CloseOrder(hd[h])[1]})
      BY <1>1, <1>9, <2>1 DEF Close, Goto
    <3> HIDE DEF j
    <3>3. Held(hd[h]) \subseteq Held(j) \cup {CloseOrder(hd[h])[1]}
      BY <1>1, <2>1, <3>1 DEF Held, CloseOrder, HandlerShape, Fds, NoFd
    <3>4. \A n \in Fds : fds'[n] # NoFile => fds'[n] = fds[n] /\ n # CloseOrder(hd[h])[1]
      BY <3>2 DEF Closed
    <3> QED BY <1>4, <3>1, <3>2, <3>3, <3>4
  <2>2. CASE hd[h].pc = "close2"
    <3>1. /\ hd' = [hd EXCEPT ![h] = Idle] /\ (clean' => clean)
          /\ fds' = Closed({CloseOrder(hd[h])[2]})
      BY <1>9, <2>2 DEF Close, Return
    <3>2. hd'[h] = Idle /\ \A g \in Handlers \ {h} : hd'[g] = hd[g]
      BY <1>1, <3>1
    <3>3. Held(hd[h]) \subseteq {CloseOrder(hd[h])[2]}
      BY <2>2 DEF Held
    <3>4. \A n \in Fds : fds'[n] # NoFile => fds'[n] = fds[n] /\ n # CloseOrder(hd[h])[2]
      BY <3>1 DEF Closed
    <3> QED BY <3>1, <3>2, <3>3, <3>4, ReturnedStep
  <2> QED BY <1>9, <2>1, <2>2 DEF Close
<1> QED BY <1>5, <1>6, <1>8, <1>9 DEF Serve

LEMMA NextReturned ==
  ASSUME FInv, DescriptorsReturned, [Next]_vars
  PROVE  DescriptorsReturned'
<1>1. CallsOK
  BY Parts
<1>2. CASE UNCHANGED <<fds, clean, hd>>
  BY <1>1, <1>2, ReturnedSame
<1>3. CASE Exit
  BY <1>3 DEF Exit, DescriptorsReturned
<1>4. CASE ServerStep /\ UNCHANGED clientVars
  <2>1. ASSUME NEW h \in Handlers, Serve(h)
        PROVE  DescriptorsReturned'
    BY <1>4, <2>1, ServeReturned
  <2>2. ASSUME NEW c \in Clients, LoseRpc(c)
        PROVE  DescriptorsReturned'
    <3>1. UNCHANGED <<fds, clean>>
      BY <2>2 DEF LoseRpc
    <3> QED BY <1>1, <1>4, <2>2, <3>1, LoseCalls, ReturnedSame
  <2>3. ASSUME NEW c \in Clients, Lookup(c) \/ RpcUnavailable(c)
        PROVE  DescriptorsReturned'
    BY <1>2, <2>3 DEF Lookup, RpcUnavailable, process
  <2>4. ASSUME NEW k \in DOMAIN aio, AioRun(k)
        PROVE  DescriptorsReturned'
    BY <1>2, <2>4 DEF AioRun
  <2>5. CASE Replace \/ RunServer
    BY <1>2, <2>5 DEF Replace, RunServer, process
  <2>6. CASE ServerCrash \/ PowerLoss
    BY <1>3, <2>6 DEF ServerCrash, PowerLoss
  <2> QED BY <1>4, <2>1, <2>2, <2>3, <2>4, <2>5, <2>6 DEF ServerStep
<1>5. CASE UNCHANGED <<files, process, faults, landed, bad>>
  BY <1>2, <1>5 DEF process
<1>6. CASE UNCHANGED vars
  BY <1>2, <1>6 DEF vars, serverVars
<1> QED BY <1>4, <1>5, <1>6 DEF Next

\* While every handler of a server process has returned OK, it has no descriptor
\* open that nobody will close.
THEOREM NoLeakWithoutError == Spec => []DescriptorsReturned
<1>1. Init => FInv /\ DownInv /\ DescriptorsReturned
  BY InitFInv DEF Init, ServerInit, DownInv, DescriptorsReturned
<1>2. FInv /\ DownInv /\ DescriptorsReturned /\ [Next]_vars
        => (FInv /\ DownInv /\ DescriptorsReturned)'
  BY NextFInv, NextReturned
<1> QED BY <1>1, <1>2, PTL DEF Spec
=============================================================================
