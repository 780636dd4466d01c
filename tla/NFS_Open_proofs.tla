---------------------------- MODULE NFS_Open_proofs ----------------------------
(***************************************************************************)
(* Close-to-open, for all values of the constants: what the kernel has of  *)
(* a file that is open is not older than the synchronous writes that were  *)
(* acknowledged at its open (OpenInv).  A page gets there by a read, which *)
(* finds in the file what DurableInv says of those writes, or by a write   *)
(* of the client's own, which OnceInv tells apart from them.               *)
(***************************************************************************)
EXTENDS NFS_Durable_proofs

-----------------------------------------------------------------------------
(* OpenInv, and what it says with the histories as values: F is what was   *)
(* acknowledged at the open, A what is acknowledged now.                   *)

Owes(F, b, log, i, off, v) ==
  \A a \in F :
    a.c \in SyncClients /\ a.fh = i /\ a.off = off /\ off < 2 * Int32Blocks /\ i \notin b =>
      Under(log, a.w, <<i, off>>, v)

HandlerOwes(k, F, b, log) ==
  k.c \in Clients /\ k.op = "Read" /\ k.pc \in {"close", "close2"} =>
    Owes(F[k.c], b, log, k.fh, k.off, k.v)

RpcOwes(r, F, b, log) ==
  r.op = "Read" /\ r.st = "replied" /\ r.status = "OK" => Owes(F, b, log, r.fh, r.off, r.v)

PageOwes(c, off, p, F, A, b, log) ==
  p # NotCached =>
    \/ Owes(F, b, log, p.i, off, p.v)
    \/ [c |-> c, w |-> p.v, fh |-> p.i, off |-> off] \in A \ F

Unacked(c) == Writing(c) => \A a \in acked : a.w # app[c].w

LEMMA OpenParts ==
  OpenInv <=>
    /\ \A a \in acked : a.w \in issued
    /\ \A c \in Clients : Unacked(c)
    /\ \A h \in Handlers : HandlerOwes(hd[h], floor, bad, landed)
    /\ \A c \in Clients : RpcOwes(rpc[c], floor[c], bad, landed)
    /\ \A c \in Clients, off \in Offsets :
         PageOwes(c, off, page[c][off], floor[c], acked, bad, landed)
  BY DEF OpenInv, NotOlder, Reached, Under, Owes, HandlerOwes, RpcOwes, PageOwes, Unacked

LEMMA OpenPartsNext ==
  OpenInv' <=>
    /\ \A a \in acked' : a.w \in issued'
    /\ \A c \in Clients : Unacked(c)'
    /\ \A h \in Handlers : HandlerOwes(hd'[h], floor', bad', landed')
    /\ \A c \in Clients : RpcOwes(rpc'[c], floor'[c], bad', landed')
    /\ \A c \in Clients, off \in Offsets :
         PageOwes(c, off, page'[c][off], floor'[c], acked', bad', landed')
  BY DEF OpenInv, NotOlder, Reached, Under, Owes, HandlerOwes, RpcOwes, PageOwes, Unacked

-----------------------------------------------------------------------------
(* The steps of the server.                                                *)

\* Later writes make nothing older, and a failed fsync excuses more.
OwesKept ==
  \A F, i, off, v : Owes(F, bad, landed, i, off, v) => Owes(F, bad', landed', i, off, v)

LEMMA KeptOwes ==
  ASSUME FilesOK, landed' = landed \/ \E e : landed' = Append(landed, e), bad \subseteq bad'
  PROVE  OwesKept
<1>1. landed \in Log
  BY DEF FilesOK, Log
<1>2. \A w, x, final : Under(landed, w, x, final) => Under(landed', w, x, final)
  BY <1>1, UnderGrows
<1> QED BY <1>2 DEF OwesKept, Owes

LEMMA ServerStepKept ==
  ASSUME FInv, ServerStep
  PROVE  OwesKept
<1>1. ASSUME NEW h \in Handlers, Serve(h)
      PROVE  (landed' = landed \/ \E e : landed' = Append(landed, e)) /\ bad \subseteq bad'
  <2>1. CASE \E c \in Clients : open_mount_path_by_id(h, c)
    BY <2>1 DEF open_mount_path_by_id
  <2>2. CASE open_by_handle_at(h) \/ Read(h) \/ Write_Async(h) \/ Close(h)
    BY <2>2 DEF open_by_handle_at, Read, Write_Async, Close
  <2>3. CASE Write(h)
    BY <2>3 DEF Write, Land
  <2>4. CASE WriteSync(h) \/ Fsync(h)
    BY <2>4 DEF WriteSync, Fsync, SyncFile
  <2> QED BY <1>1, <2>1, <2>2, <2>3, <2>4 DEF Serve
<1>2. ASSUME NEW c \in Clients, Lookup(c) \/ LoseRpc(c) \/ RpcUnavailable(c)
      PROVE  landed' = landed /\ bad' = bad
  BY <1>2 DEF Lookup, LoseRpc, RpcUnavailable
<1>3. ASSUME NEW k \in DOMAIN aio, AioRun(k)
      PROVE  (landed' = landed \/ \E e : landed' = Append(landed, e)) /\ bad' = bad
  BY <1>3 DEF AioRun, Land
<1>4. CASE Replace \/ ServerCrash \/ PowerLoss \/ RunServer
  BY <1>4, KeptOwes, Parts DEF Replace, ServerCrash, PowerLoss, RunServer
<1> QED BY <1>1, <1>2, <1>3, <1>4, KeptOwes, Parts DEF ServerStep

LEMMA OpenServer ==
  ASSUME OpenInv, OwesKept, UNCHANGED clientVars,
         \A h \in Handlers : HandlerOwes(hd'[h], floor, bad, landed),
         \A c \in Clients : RpcOwes(rpc'[c], floor[c], bad, landed)
  PROVE  OpenInv'
<1>1. /\ acked' = acked /\ issued' = issued /\ app' = app /\ page' = page /\ floor' = floor
  BY DEF clientVars
<1>2. \A c \in Clients : Unacked(c)'
  BY <1>1, OpenParts DEF Unacked, Writing
<1>3. \A h \in Handlers : HandlerOwes(hd'[h], floor', bad', landed')
  BY <1>1 DEF HandlerOwes, OwesKept
<1>4. \A c \in Clients : RpcOwes(rpc'[c], floor'[c], bad', landed')
  BY <1>1 DEF RpcOwes, OwesKept
<1>5. \A c \in Clients, off \in Offsets :
        PageOwes(c, off, page'[c][off], floor'[c], acked', bad', landed')
  BY <1>1, OpenParts DEF PageOwes, OwesKept
<1> QED BY <1>1, <1>2, <1>3, <1>4, <1>5, OpenParts, OpenPartsNext

\* Handler h goes on.
LEMMA GoOnOpen ==
  ASSUME OpenInv, OwesKept, UNCHANGED <<clientVars, rpc>>, NEW h \in Handlers,
         \A g \in Handlers \ {h} : hd'[g] = hd[g],
         HandlerOwes(hd'[h], floor, bad, landed)
  PROVE  OpenInv'
<1>1. \A g \in Handlers : HandlerOwes(hd'[g], floor, bad, landed)
  BY OpenParts
<1>2. \A c \in Clients : RpcOwes(rpc'[c], floor[c], bad, landed)
  BY OpenParts
<1> QED BY <1>1, <1>2, OpenServer

LEMMA ReturnOpen ==
  ASSUME FInv, OpenInv, OwesKept, UNCHANGED clientVars, NEW h \in Handlers,
         hd[h].pc # "idle", NEW status, status = "OK" => hd[h].pc = "close2", Return(h, status)
  PROVE  OpenInv'
<1>1. /\ CallsOK /\ HandlerShape(hd[h]) /\ Linked(h) /\ hd[h] \in Handler
      /\ hd \in [Handlers -> Handler]
  BY Parts DEF CallsOK
<1>2. hd'[h] = Idle /\ \A g \in Handlers \ {h} : hd'[g] = hd[g]
  BY <1>1 DEF Return
<1>3. \A g \in Handlers : HandlerOwes(hd'[g], floor, bad, landed)
  <2>1. HandlerOwes(Idle, floor, bad, landed)
    BY DEF HandlerOwes, Idle
  <2> QED BY <1>2, <2>1, OpenParts
<1>4. \A c \in Clients : RpcOwes(rpc'[c], floor[c], bad, landed)
  <2>1. CASE hd[h].c \notin Clients
    <3>1. rpc' = rpc
      BY <1>1, <2>1 DEF Return, HandlerShape, Handler
    <3> QED BY <3>1, OpenParts
  <2>2. CASE hd[h].c \in Clients
    <3>1. PICK c \in Clients : c = hd[h].c
      BY <2>2
    <3>2. rpc' = Answer(c, status, hd[h].fh, hd[h].n, hd[h].v)
      BY <3>1, NotClients DEF Return
    <3>3. rpc[c].op = hd[h].op /\ rpc[c].off = hd[h].off
      BY <1>1, <3>1 DEF Linked
    <3>4. /\ \A d \in Clients \ {c} : rpc'[d] = rpc[d]
          /\ rpc'[c].op = hd[h].op /\ rpc'[c].off = hd[h].off /\ rpc'[c].status = status
          /\ status = "OK" => rpc'[c].fh = hd[h].fh /\ rpc'[c].v = hd[h].v
      BY <1>1, <3>2, <3>3, AnswerFields
    <3>5. HandlerOwes(hd[h], floor, bad, landed)
      BY OpenParts
    <3>6. RpcOwes(rpc'[c], floor[c], bad, landed)
      BY <3>1, <3>4, <3>5 DEF RpcOwes, HandlerOwes
    <3> QED BY <3>4, <3>6, OpenParts
  <2> QED BY <2>1, <2>2
<1> QED BY <1>3, <1>4, OpenServer

LEMMA ExitOpen ==
  ASSUME FInv, OpenInv, OwesKept, UNCHANGED clientVars, Exit
  PROVE  OpenInv'
<1>1. \A h \in Handlers : HandlerOwes(hd'[h], floor, bad, landed)
  BY DEF Exit, HandlerOwes, Idle
<1>2. ASSUME NEW c \in Clients
      PROVE  RpcOwes(rpc'[c], floor[c], bad, landed)
  <2>1. rpc[c] \in Rpc /\ RpcOwes(rpc[c], floor[c], bad, landed)
    BY Parts, OpenParts DEF CallsOK
  <2>2. CASE rpc[c].st # "sent"
    BY <2>1, <2>2 DEF Exit
  <2>3. CASE rpc[c].st = "sent"
    <3>1. rpc'[c] = [rpc[c] EXCEPT !.st = "replied", !.status = "UNAVAILABLE"]
      BY <2>3 DEF Exit
    <3>2. rpc'[c].status = "UNAVAILABLE"
      BY <2>1, <3>1 DEF Rpc
    <3> QED BY <3>2 DEF RpcOwes
  <2> QED BY <2>2, <2>3
<1> QED BY <1>1, <1>2, OpenServer

\* What is in the file when a handler reads it is not older than what was
\* acknowledged: that is on its disk, and what is on disk is under it.
LEMMA ReadFinds ==
  ASSUME FInv, OnceInv, DurableInv, NEW F \in SUBSET acked, NEW i, NEW off \in Offsets,
         Int32(off) >= 0
  PROVE  Owes(F, bad, landed, i, off, content[<<i, Int32(off)>>])
<1>1. /\ landed \in Log /\ Distinct(landed) /\ FilesDurable(content, disk, landed)
  BY Parts, OncePlaceOnce, ReachedUnder, DurableParts DEF FilesOK, Log
<1>2. ASSUME NEW a \in F, a.c \in SyncClients, a.fh = i, a.off = off,
             off < 2 * Int32Blocks, i \notin bad
      PROVE  Under(landed, a.w, <<i, off>>, content[<<i, Int32(off)>>])
  <2> DEFINE x == Target(a)
  <2>1. Int32(off) = off
    BY <1>2, Int32Exact
  <2>2. x = <<i, off>>
    BY <1>2, <2>1 DEF Target
  <2> HIDE DEF x
  <2>3. Under(landed, a.w, x, disk[x])
    BY <1>2, DurableParts DEF AckDurable, DurableIn, x
  <2>4. x \in Cells /\ disk[x] \in Writes
    BY <1>1, <2>3, UnderType
  <2>5. Under(landed, disk[x], x, content[x])
    BY <1>1, <2>4, AsyncIOAssumption DEF FilesDurable
  <2>6. Under(landed, a.w, x, content[x])
    BY <1>1, <2>3, <2>5, UnderTrans
  <2> QED BY <2>1, <2>2, <2>6
<1> QED BY <1>2 DEF Owes

LEMMA ServeOpen ==
  ASSUME FInv, OnceInv, DurableInv, OpenInv, UNCHANGED clientVars, NEW h \in Handlers, Serve(h)
  PROVE  OpenInv'
<1>1. /\ TableOK /\ CallsOK /\ ClientsOK /\ hd \in [Handlers -> Handler] /\ hd[h] \in Handler
      /\ HandlerShape(hd[h]) /\ OwesKept
  <2>1. ServerStep
    BY DEF ServerStep
  <2> QED BY <2>1, ServerStepKept, Parts DEF CallsOK
<1>2. ASSUME NEW c \in Clients, open_mount_path_by_id(h, c)
      PROVE  OpenInv'
  <2> DEFINE k == [Idle EXCEPT !.pc = "open", !.c = c, !.op = rpc[c].op, !.fh = rpc[c].fh,
                               !.off = rpc[c].off, !.w = rpc[c].w]
  <2> DEFINE i == [k EXCEPT !.mount_fd = Lowest]
  <2>1. k.pc = "open" /\ i.pc = "open"
    BY DEF Idle
  <2>2. \/ Exit
        \/ hd' = [hd EXCEPT ![h] = k] /\ rpc' = rpc
        \/ hd' = [hd EXCEPT ![h] = i] /\ rpc' = rpc
    BY <1>2 DEF open_mount_path_by_id
  <2> HIDE DEF i, k
  <2>3. CASE Exit
    BY <1>1, <2>3, ExitOpen
  <2>4. ASSUME NEW j, j.pc = "open", hd' = [hd EXCEPT ![h] = j], rpc' = rpc
        PROVE  OpenInv'
    <3>1. hd'[h] = j /\ \A g \in Handlers \ {h} : hd'[g] = hd[g]
      BY <1>1, <2>4
    <3>2. HandlerOwes(hd'[h], floor, bad, landed)
      BY <2>4, <3>1 DEF HandlerOwes
    <3> QED BY <1>1, <2>4, <3>1, <3>2, GoOnOpen
  <2> QED BY <2>1, <2>2, <2>3, <2>4
<1>3. CASE open_by_handle_at(h)
  <2>1. hd[h].pc = "open"
    BY <1>3 DEF open_by_handle_at
  <2>2. ASSUME NEW status, status # "OK", FailedOpen(h, status)
        PROVE  OpenInv'
    BY <1>1, <2>1, <2>2, ReturnOpen DEF FailedOpen
  <2>3. CASE hd' = [hd EXCEPT ![h].fd = Lowest, ![h].pc = "io"] /\ rpc' = rpc
    <3>1. /\ \A g \in Handlers \ {h} : hd'[g] = hd[g]
          /\ hd'[h] = [hd[h] EXCEPT !.fd = Lowest, !.pc = "io"]
      BY <1>1, <2>3
    <3>2. hd'[h].pc = "io"
      BY <1>1, <3>1 DEF Handler
    <3>3. HandlerOwes(hd'[h], floor, bad, landed)
      BY <3>2 DEF HandlerOwes
    <3> QED BY <1>1, <2>3, <3>1, <3>3, GoOnOpen
  <2> QED BY <1>3, <2>2, <2>3 DEF open_by_handle_at
<1>4. CASE Read(h)
  <2> DEFINE x == <<fds[hd[h].fd].i, Int32(hd[h].off)>>
  <2>1. hd[h].pc = "io" /\ hd[h].op = "Read"
    BY <1>4 DEF Read, AtIO
  <2>2. CASE Return(h, "CANCELLED")
    BY <1>1, <2>1, <2>2, ReturnOpen
  <2>3. CASE /\ Int32(hd[h].off) >= 0 /\ rpc' = rpc
             /\ hd' = [hd EXCEPT ![h].pc = "close", ![h].v = content[x]]
    <3>1. hd[h].off \in Offsets /\ fds[hd[h].fd].i = hd[h].fh
      BY <1>1, <2>1, AtWork
    <3>2. x = <<hd[h].fh, Int32(hd[h].off)>>
      BY <3>1
    <3> HIDE DEF x
    <3>3. Moved(h, "close") /\ hd'[h].v = content[x]
      BY <1>1, <2>3, Advance
    <3>4. ASSUME hd[h].c \in Clients
          PROVE  Owes(floor[hd[h].c], bad, landed, hd[h].fh, hd[h].off, content[x])
      <4>1. floor[hd[h].c] \in SUBSET acked
        BY <1>1, <3>4 DEF ClientsOK
      <4> QED BY <2>3, <3>1, <3>2, <4>1, ReadFinds
    <3>5. HandlerOwes(hd'[h], floor, bad, landed)
      BY <3>3, <3>4 DEF Moved, HandlerOwes
    <3> QED BY <1>1, <2>3, <3>3, <3>5, GoOnOpen DEF Moved
  <2> QED BY <1>4, <2>2, <2>3 DEF Read
<1>5. CASE Write(h) \/ WriteSync(h) \/ Write_Async(h) \/ Fsync(h)
  <2>1. hd[h].op # "Read" /\ rpc' = rpc
    BY <1>1, <1>5 DEF Write, WriteSync, Write_Async, Fsync, AtIO, HandlerShape
  <2>2. PICK pc : \/ hd' = [hd EXCEPT ![h].pc = pc]
                  \/ \E n : hd' = [hd EXCEPT ![h].pc = pc, ![h].n = n]
    BY <1>5 DEF Write, WriteSync, Write_Async, Fsync, Goto
  <2>3. Moved(h, pc)
    BY <1>1, <2>2, Advance
  <2>4. HandlerOwes(hd'[h], floor, bad, landed)
    BY <2>1, <2>3 DEF HandlerOwes, Moved
  <2> QED BY <1>1, <2>1, <2>3, <2>4, GoOnOpen DEF Moved
<1>6. CASE Close(h)
  <2>1. CASE hd[h].pc = "close2" /\ Return(h, "OK")
    BY <1>1, <2>1, ReturnOpen
  <2>2. CASE hd[h].pc = "close" /\ hd' = [hd EXCEPT ![h].pc = "close2"] /\ rpc' = rpc
    <3>1. Moved(h, "close2") /\ hd'[h].v = hd[h].v
      BY <1>1, <2>2, Advance
    <3>2. HandlerOwes(hd[h], floor, bad, landed)
      BY OpenParts
    <3>3. HandlerOwes(hd'[h], floor, bad, landed)
      BY <2>2, <3>1, <3>2 DEF HandlerOwes, Moved
    <3> QED BY <1>1, <2>2, <3>1, <3>3, GoOnOpen DEF Moved
  <2> QED BY <1>6, <2>1, <2>2 DEF Close, Goto
<1> QED BY <1>2, <1>3, <1>4, <1>5, <1>6 DEF Serve

LEMMA ServerStepOpen ==
  ASSUME FInv, OnceInv, DurableInv, OpenInv, UNCHANGED clientVars, ServerStep
  PROVE  OpenInv'
<1>1. CallsOK /\ OwesKept
  BY Parts, ServerStepKept
<1>2. ASSUME NEW c \in Clients, NEW status, NEW fh, rpc' = Answer(c, status, fh, 0, NoWrite),
             status # "OK" \/ rpc[c].op # "Read",
             \A h \in Handlers : hd'[h] = hd[h] \/ hd'[h] = [hd[h] EXCEPT !.c = "orphan"]
      PROVE  OpenInv'
  <2>1. ASSUME NEW h \in Handlers
        PROVE  HandlerOwes(hd'[h], floor, bad, landed)
    <3>1. HandlerOwes(hd[h], floor, bad, landed) /\ hd[h] \in Handler
      BY <1>1, OpenParts DEF CallsOK
    <3>2. CASE hd'[h] = [hd[h] EXCEPT !.c = "orphan"]
      <4>1. hd'[h].c = "orphan"
        BY <3>1, <3>2 DEF Handler
      <4> QED BY <4>1, NotClients DEF HandlerOwes
    <3> QED BY <1>2, <3>1, <3>2
  <2>2. \A d \in Clients : RpcOwes(rpc'[d], floor[d], bad, landed)
    <3>1. /\ rpc'[c].status = status /\ rpc'[c].op = rpc[c].op
          /\ \A d \in Clients \ {c} : rpc'[d] = rpc[d]
      BY <1>1, <1>2, AnswerFields
    <3>2. RpcOwes(rpc'[c], floor[c], bad, landed)
      BY <1>2, <3>1 DEF RpcOwes
    <3> QED BY <3>1, <3>2, OpenParts
  <2> QED BY <1>1, <2>1, <2>2, OpenServer
<1>3. ASSUME NEW h \in Handlers, Serve(h)
      PROVE  OpenInv'
  BY <1>3, ServeOpen
<1>4. ASSUME NEW c \in Clients, Lookup(c) \/ RpcUnavailable(c)
      PROVE  OpenInv'
  <2>1. hd' = hd
    BY <1>4 DEF Lookup, RpcUnavailable, process
  <2>2. CASE rpc[c].op = "Lookup" /\ rpc' = Answer(c, "OK", here, 0, NoWrite)
    BY <1>2, <2>1, <2>2
  <2>3. CASE rpc' = Answer(c, "UNAVAILABLE", EmptyHandle, 0, NoWrite)
    BY <1>2, <2>1, <2>3
  <2> QED BY <1>4, <2>2, <2>3 DEF Lookup, RpcUnavailable
<1>5. ASSUME NEW c \in Clients, LoseRpc(c)
      PROVE  OpenInv'
  <2>1. /\ rpc' = Answer(c, "UNAVAILABLE", EmptyHandle, 0, NoWrite)
        /\ \A h \in Handlers : hd'[h] = hd[h] \/ hd'[h] = [hd[h] EXCEPT !.c = "orphan"]
    BY <1>5 DEF LoseRpc
  <2> QED BY <1>2, <2>1
<1>6. CASE (\E k \in DOMAIN aio : AioRun(k)) \/ Replace \/ RunServer
  <2>1. hd' = hd /\ rpc' = rpc
    BY <1>6 DEF AioRun, Replace, RunServer, process
  <2> QED BY <1>1, <2>1, OpenServer, OpenParts
<1>7. CASE ServerCrash \/ PowerLoss
  BY <1>1, <1>7, ExitOpen DEF ServerCrash, PowerLoss
<1> QED BY <1>3, <1>4, <1>5, <1>6, <1>7 DEF ServerStep

-----------------------------------------------------------------------------
(* The steps of the clients: the server stands still.                      *)

LEMMA OpenClient ==
  ASSUME OpenInv, NEW c \in Clients, UNCHANGED <<hd, landed, bad>>,
         \A d \in Clients \ {c} :
           rpc'[d] = rpc[d] /\ app'[d] = app[d] /\ page'[d] = page[d] /\ floor'[d] = floor[d],
         acked \subseteq acked', \A a \in acked' : a.w \in issued', \A d \in Clients : Unacked(d)',
         floor'[c] = floor[c] \/ \A h \in Handlers : hd[h].c # c,
         RpcOwes(rpc'[c], floor'[c], bad, landed),
         \A off \in Offsets : PageOwes(c, off, page'[c][off], floor'[c], acked', bad, landed)
  PROVE  OpenInv'
<1>1. \A h \in Handlers : HandlerOwes(hd'[h], floor', bad', landed')
  <2>1. \A h \in Handlers : hd[h].c \in Clients => floor'[hd[h].c] = floor[hd[h].c]
    OBVIOUS
  <2> QED BY <2>1, OpenParts DEF HandlerOwes
<1>2. \A d \in Clients : RpcOwes(rpc'[d], floor'[d], bad', landed')
  BY OpenParts
<1>3. ASSUME NEW d \in Clients, NEW off \in Offsets
      PROVE  PageOwes(d, off, page'[d][off], floor'[d], acked', bad', landed')
  <2>1. CASE d = c
    BY <2>1
  <2>2. CASE d # c
    <3>1. PageOwes(d, off, page[d][off], floor[d], acked, bad, landed)
      BY OpenParts
    <3> QED BY <2>2, <3>1 DEF PageOwes
  <2> QED BY <2>1, <2>2
<1> QED BY <1>1, <1>2, <1>3, OpenPartsNext

\* Client c moves and acknowledges nothing.
LEMMA QuietOpen ==
  ASSUME FInv, OpenInv, NEW c \in Clients, UNCHANGED <<hd, landed, bad, acked, floor>>,
         \A d \in Clients \ {c} : rpc'[d] = rpc[d] /\ app'[d] = app[d] /\ page'[d] = page[d],
         issued \subseteq issued',
         Writing(c)' => \/ Writing(c) /\ app'[c].w = app[c].w
                        \/ app'[c].w \notin issued,
         RpcOwes(rpc'[c], floor[c], bad, landed),
         \A off \in Offsets : PageOwes(c, off, page'[c][off], floor[c], acked, bad, landed)
  PROVE  OpenInv'
<1>1. \A a \in acked' : a.w \in issued'
  BY OpenParts
<1>2. ASSUME NEW d \in Clients
      PROVE  Unacked(d)'
  <2>1. CASE d = c
    BY <2>1, OpenParts DEF Unacked
  <2>2. CASE d # c
    BY <2>2, OpenParts DEF Unacked, Writing
  <2> QED BY <2>1, <2>2
<1> QED BY <1>1, <1>2, OpenClient

LEMMA AskOpen ==
  ASSUME FInv, OpenInv, NEW c \in Clients, UNCHANGED <<hd, landed, bad>>, NEW op, Ask(c, op)
  PROVE  OpenInv'
<1>1. /\ rpc \in [Clients -> Rpc] /\ app' = app /\ page' = page
      /\ UNCHANGED <<acked, floor, issued>>
  BY Parts DEF CallsOK, Ask, clientVars
<1>2. \A d \in Clients \ {c} : rpc'[d] = rpc[d]
  BY <1>1 DEF Ask
<1>3. rpc'[c].st = "sent"
  BY <1>1 DEF Ask, NoRpc
<1>4. RpcOwes(rpc'[c], floor[c], bad, landed)
  BY <1>3 DEF RpcOwes
<1>5. Writing(c)' => Writing(c) /\ app'[c].w = app[c].w
  BY <1>1 DEF Writing
<1>6. \A off \in Offsets : PageOwes(c, off, page'[c][off], floor[c], acked, bad, landed)
  BY <1>1, OpenParts
<1> QED BY <1>1, <1>2, <1>4, <1>5, <1>6, QuietOpen

\* A callback starts over.
LEMMA StaleOpen ==
  ASSUME FInv, OpenInv, NEW c \in Clients, UNCHANGED <<hd, landed, bad>>,
         app[c].todo # <<>>, Stale(c)
  PROVE  OpenInv'
<1>1. page' = page /\ UNCHANGED <<acked, floor, issued>> /\ rpc'[c] = NoRpc
  BY Parts DEF Stale, ClientsOK, CallsOK
<1>2. RpcOwes(NoRpc, floor[c], bad, landed)
  BY DEF RpcOwes, NoRpc
<1>3. \A off \in Offsets : PageOwes(c, off, page'[c][off], floor[c], acked, bad, landed)
  BY <1>1, OpenParts
<1> QED BY <1>1, <1>2, <1>3, StaleWriting, QuietOpen

\* A callback ends that acknowledges nothing; it may change a page.
LEMMA DoneOpen ==
  ASSUME FInv, OpenInv, NEW c \in Clients, UNCHANGED <<hd, landed, bad, acked>>,
         app[c].todo # <<>>, Done(c), \A d \in Clients \ {c} : page'[d] = page[d],
         \A off \in Offsets : page'[c][off] = page[c][off]
                              \/ PageOwes(c, off, page'[c][off], floor[c], acked, bad, landed)
  PROVE  OpenInv'
<1>1. UNCHANGED <<floor, issued>> /\ rpc'[c] = NoRpc
  BY Parts DEF Done, CallsOK
<1>2. RpcOwes(NoRpc, floor[c], bad, landed)
  BY DEF RpcOwes, NoRpc
<1>3. \A off \in Offsets : PageOwes(c, off, page'[c][off], floor[c], acked, bad, landed)
  BY OpenParts
<1> QED BY <1>1, <1>2, <1>3, DoneWriting, QuietOpen

LEMMA readOpen ==
  ASSUME FInv, OpenInv, NEW c \in Clients, UNCHANGED <<hd, landed, bad>>, read(c)
  PROVE  OpenInv'
<1> DEFINE r == rpc[c]
<1>1. app[c].todo # <<>> /\ Head(app[c].todo) = "read"
  BY DEF read, Running
<1>2. page \in [Clients -> [Offsets -> Page \cup {NotCached}]] /\ app[c].off \in Offsets
  BY <1>1, AtCallback, Parts DEF ClientsOK, Application
<1>3. CASE Answered(c) /\ Done(c) /\ acked' = acked /\ page' = page
  BY <1>1, <1>3, DoneOpen
<1>4. CASE /\ Answered(c) /\ Done(c) /\ acked' = acked /\ r.status = "OK"
           /\ page' = [page EXCEPT ![c][app[c].off] = Kept([v |-> r.v, i |-> r.fh])]
  <2>1. /\ \A d \in Clients \ {c} : page'[d] = page[d]
        /\ \A off \in Offsets \ {app[c].off} : page'[c][off] = page[c][off]
        /\ page'[c][app[c].off] = Kept([v |-> r.v, i |-> r.fh])
    BY <1>2, <1>4
  <2>2. r.op = "Read" /\ r.st = "replied" /\ r.off = app[c].off
    BY <1>1, <1>4, AtCallback DEF RpcShape, OpOf, Answered, Replied
  <2>3. Owes(floor[c], bad, landed, r.fh, app[c].off, r.v)
    BY <1>4, <2>2, OpenParts DEF RpcOwes
  <2>4. PageOwes(c, app[c].off, page'[c][app[c].off], floor[c], acked, bad, landed)
    <3>1. CASE page'[c][app[c].off] = NotCached
      BY <3>1 DEF PageOwes
    <3>2. CASE page'[c][app[c].off] = [v |-> r.v, i |-> r.fh]
      BY <2>3, <3>2 DEF PageOwes
    <3> QED BY <2>1, <3>1, <3>2 DEF Kept
  <2> QED BY <1>1, <1>4, <2>1, <2>4, DoneOpen
<1>5. CASE \E op : Ask(c, op)
  BY <1>5, AskOpen
<1>6. CASE Stale(c)
  BY <1>1, <1>6, StaleOpen
<1> QED BY <1>3, <1>4, <1>5, <1>6 DEF read

\* The page of a write is the client's own from now on: nobody has made this
\* write before, so that it was not acknowledged when the file was opened.
LEMMA writeOpen ==
  ASSUME FInv, OnceInv, OpenInv, NEW c \in Clients, UNCHANGED <<hd, landed, bad>>, write(c)
  PROVE  OpenInv'
<1> DEFINE a == [c |-> c, w |-> app[c].w, fh |-> handle[c], off |-> app[c].off]
<1> DEFINE p == Kept([v |-> app[c].w, i |-> handle[c]])
<1>1. app[c].todo # <<>> /\ Head(app[c].todo) = "write"
  BY DEF write, Running
<1>2. page \in [Clients -> [Offsets -> Page \cup {NotCached}]] /\ app[c].off \in Offsets
      /\ floor[c] \in SUBSET acked
  BY <1>1, AtCallback, Parts DEF ClientsOK, Application
<1>3. CASE \E op : Ask(c, op)
  BY <1>3, AskOpen
<1>4. CASE Stale(c)
  BY <1>1, <1>4, StaleOpen
<1>5. CASE /\ Done(c) /\ acked' = acked
           /\ page' = [page EXCEPT ![c][app[c].off] = NotCached]
  <2>1. \A off \in Offsets : page'[c][off] = page[c][off] \/ page'[c][off] = NotCached
    BY <1>2, <1>5
  <2>2. \A off \in Offsets : page'[c][off] = page[c][off]
                             \/ PageOwes(c, off, page'[c][off], floor[c], acked, bad, landed)
    BY <2>1 DEF PageOwes
  <2>3. \A d \in Clients \ {c} : page'[d] = page[d]
    BY <1>2, <1>5
  <2> QED BY <1>1, <1>5, <2>2, <2>3, DoneOpen
<1>6. CASE /\ Done(c) /\ acked' = acked \cup {a}
           /\ page' = [page EXCEPT ![c][app[c].off] = p]
  <2>1. Writing(c)
    <3>1. 1 \in DOMAIN app[c].todo /\ app[c].todo[1] = "write"
      BY <1>1, AtCallback
    <3> QED BY <3>1 DEF Writing
  <2>2. a.w = app[c].w /\ a.c = c
    OBVIOUS
  <2>3. a \notin floor[c] /\ a.w \in issued
    BY <1>2, <2>1, <2>2, OpenParts DEF Unacked, OnceInv
  <2>4. UNCHANGED <<floor, issued>> /\ rpc'[c] = NoRpc
    BY <1>6, Parts DEF Done, CallsOK
  <2>5. /\ \A d \in Clients \ {c} : page'[d] = page[d]
        /\ \A off \in Offsets \ {app[c].off} : page'[c][off] = page[c][off]
        /\ page'[c][app[c].off] = p
    BY <1>2, <1>6
  <2>6. PageOwes(c, app[c].off, p, floor[c], acked', bad, landed)
    <3>1. CASE p = NotCached
      BY <3>1 DEF PageOwes
    <3>2. CASE p = [v |-> app[c].w, i |-> handle[c]]
      <4>1. [c |-> c, w |-> p.v, fh |-> p.i, off |-> app[c].off] = a
        BY <3>2
      <4> HIDE DEF a, p
      <4> QED BY <1>6, <2>3, <4>1 DEF PageOwes
    <3> QED BY <3>1, <3>2 DEF Kept
  <2>7. ASSUME NEW off \in Offsets
        PROVE  PageOwes(c, off, page'[c][off], floor'[c], acked', bad, landed)
    <3>1. CASE off = app[c].off
      BY <2>4, <2>5, <2>6, <3>1
    <3>2. CASE off # app[c].off
      <4>1. PageOwes(c, off, page[c][off], floor[c], acked, bad, landed)
        BY OpenParts
      <4>2. page'[c][off] = page[c][off] /\ floor' = floor /\ acked \subseteq acked'
        BY <1>6, <2>4, <2>5, <3>2
      <4> QED BY <4>1, <4>2 DEF PageOwes
    <3> QED BY <3>1, <3>2
  <2> HIDE DEF a, p
  <2>8. \A b \in acked' : b.w \in issued'
    BY <1>6, <2>3, <2>4, OpenParts
  <2>9. ASSUME NEW d \in Clients
        PROVE  Unacked(d)'
    <3>1. CASE d = c
      BY <1>1, <1>6, <3>1, DoneWriting DEF Unacked
    <3>2. CASE d # c
      <4>1. app'[d] = app[d] /\ (Writing(d)' <=> Writing(d))
        BY <1>1, <1>6, <3>2, DoneWriting DEF Writing
      <4>2. Writing(d) => app[d].w # a.w
        BY <2>1, <2>2, <3>2 DEF OnceInv
      <4>3. Unacked(d)
        BY OpenParts
      <4> QED BY <1>6, <4>1, <4>2, <4>3 DEF Unacked
    <3> QED BY <3>1, <3>2
  <2>10. RpcOwes(NoRpc, floor'[c], bad, landed)
    BY DEF RpcOwes, NoRpc
  <2>11. \A d \in Clients \ {c} : rpc'[d] = rpc[d] /\ app'[d] = app[d] /\ floor'[d] = floor[d]
    BY <1>1, <1>6, <2>4, DoneWriting
  <2> QED BY <1>6, <2>4, <2>5, <2>7, <2>8, <2>9, <2>10, <2>11, OpenClient
<1> QED BY <1>3, <1>4, <1>5, <1>6 DEF write

\* A file that was opened starts without pages, and with nothing on its way.
LEMMA SysReturnOpen ==
  ASSUME PagesDropped, FInv, OpenInv, NEW c \in Clients,
         UNCHANGED <<hd, landed, bad>>, SysReturn(c)
  PROVE  OpenInv'
<1>1. /\ CallsOK /\ ClientsOK /\ app \in [Clients -> Application] /\ app[c].todo = <<>>
      /\ page \in [Clients -> [Offsets -> Page \cup {NotCached}]]
      /\ floor \in [Clients -> SUBSET acked]
      /\ UNCHANGED <<acked, issued, rpc>> /\ app' = [app EXCEPT ![c] = Ready(app[c].next)]
  BY Parts DEF ClientsOK, SysReturn
<1>2. ~Writing(c)' /\ \A d \in Clients \ {c} : app'[d] = app[d]
  <2>1. app'[c].todo = <<>>
    BY <1>1 DEF Ready
  <2> QED BY <1>1, <2>1 DEF Writing
<1>3. CASE floor' = floor /\ page' = page
  <2>1. \A off \in Offsets : PageOwes(c, off, page'[c][off], floor[c], acked, bad, landed)
    BY <1>3, OpenParts
  <2>2. RpcOwes(rpc'[c], floor[c], bad, landed)
    BY <1>1, OpenParts
  <2> QED BY <1>1, <1>2, <1>3, <2>1, <2>2, QuietOpen
<1>4. CASE floor' = [floor EXCEPT ![c] = acked] /\ page' = [page EXCEPT ![c] = NoPages]
  <2>1. \A d \in Clients \ {c} : page'[d] = page[d] /\ floor'[d] = floor[d] /\ rpc'[d] = rpc[d]
    BY <1>1, <1>4
  <2>2. rpc[c].st = "none"
    BY <1>1 DEF CallsOK, RpcShape
  <2>3. \A h \in Handlers : hd[h].c # c
    BY <1>1, <2>2 DEF CallsOK, Linked
  <2>4. RpcOwes(rpc'[c], floor'[c], bad, landed)
    BY <1>1, <2>2 DEF RpcOwes
  <2>5. ASSUME NEW off \in Offsets
        PROVE  PageOwes(c, off, page'[c][off], floor'[c], acked', bad, landed)
    <3>1. page'[c][off] = NotCached
      BY <1>1, <1>4 DEF NoPages
    <3> QED BY <3>1 DEF PageOwes
  <2>6. \A a \in acked' : a.w \in issued'
    BY <1>1, OpenParts
  <2>7. ASSUME NEW d \in Clients
        PROVE  Unacked(d)'
    <3>1. CASE d = c
      BY <1>2, <3>1 DEF Unacked
    <3>2. CASE d # c
      BY <1>1, <1>2, <3>2, OpenParts DEF Unacked, Writing
    <3> QED BY <3>1, <3>2
  <2> QED BY <1>1, <1>2, <2>1, <2>3, <2>4, <2>5, <2>6, <2>7, OpenClient
<1>5. "FOPEN_KEEP_CACHE" \notin open_flags
  BY DEF open_flags, fuse_file_info, PagesDropped
<1> QED BY <1>3, <1>4, <1>5 DEF SysReturn

LEMMA ClientStepOpen ==
  ASSUME PagesDropped, FInv, OnceInv, OpenInv, NEW c \in Clients,
         UNCHANGED <<hd, landed, bad>>, ClientStep(c)
  PROVE  OpenInv'
<1>1. CASE SysCall(c)
  <2>1. page' = page /\ UNCHANGED <<acked, floor, rpc>>
    BY <1>1 DEF SysCall
  <2>2. RpcOwes(rpc'[c], floor[c], bad, landed)
    BY <2>1, OpenParts
  <2>3. \A off \in Offsets : PageOwes(c, off, page'[c][off], floor[c], acked, bad, landed)
    BY <2>1, OpenParts
  <2>4. Writing(c)' => app'[c].w \notin issued
    BY <1>1, SysCallWriting
  <2>5. issued \subseteq issued' /\ \A d \in Clients \ {c} : rpc'[d] = rpc[d] /\ app'[d] = app[d]
    BY <1>1, SysCallWriting
  <2> QED BY <2>1, <2>2, <2>3, <2>4, <2>5, QuietOpen
<1>2. CASE open(c) \/ fsync(c)
  <2>1. app[c].todo # <<>>
    BY <1>2 DEF open, fsync, Running
  <2>2. CASE \E op : Ask(c, op)
    BY <2>2, AskOpen
  <2>3. CASE Stale(c)
    BY <2>1, <2>3, StaleOpen
  <2>4. CASE Done(c) /\ acked' = acked /\ page' = page
    BY <2>1, <2>4, DoneOpen
  <2> QED BY <1>2, <2>2, <2>3, <2>4 DEF open, fsync
<1> QED BY <1>1, <1>2, SysReturnOpen, readOpen, writeOpen DEF ClientStep

LEMMA NextOpen ==
  ASSUME PagesDropped, FInv, OnceInv, DurableInv, OpenInv, [Next]_vars
  PROVE  OpenInv'
<1>1. CASE ServerStep /\ UNCHANGED clientVars
  BY <1>1, ServerStepOpen
<1>2. ASSUME NEW c \in Clients, ClientStep(c),
             UNCHANGED <<files, process, faults, landed, bad>>
      PROVE  OpenInv'
  BY <1>2, ClientStepOpen DEF process
<1>3. CASE UNCHANGED vars
  <2>1. UNCHANGED <<clientVars, hd, rpc, landed, bad>>
    BY <1>3 DEF vars, serverVars
  <2>2. OwesKept
    BY <2>1 DEF OwesKept
  <2> QED BY <2>1, <2>2, OpenServer, OpenParts
<1> QED BY <1>1, <1>2, <1>3 DEF Next

LEMMA InitOpen == Init => OpenInv
<1> SUFFICES ASSUME Init PROVE OpenInv
  OBVIOUS
<1>1. acked = {} /\ \A c \in Clients, off \in Offsets : page[c][off] = NotCached
  BY DEF Init, NoPages
<1>2. \A h \in Handlers : hd[h].pc = "idle"
  BY DEF Init, ServerInit, Idle
<1>3. \A c \in Clients : rpc[c].st = "none"
  BY DEF Init, ServerInit, NoRpc
<1> QED BY <1>1, <1>2, <1>3 DEF OpenInv

LEMMA OpenCovers ==
  ASSUME FInv, OpenInv
  PROVE  CloseToOpen
<1> SUFFICES ASSUME NEW c \in opened, NEW a \in floor[c], NEW p, p = page[c][a.off],
                    a.c \in SyncClients, a.off < 2 * Int32Blocks, a.fh \notin bad,
                    p # NotCached, p.i = a.fh
             PROVE  \/ Reached(a.w, <<a.fh, a.off>>, p.v)
                    \/ [a EXCEPT !.c = c, !.w = p.v] \in acked \ floor[c]
  BY DEF CloseToOpen
<1>1. c \in Clients /\ a \in Acked
  BY Parts DEF ClientsOK
<1>2. a.off \in Offsets /\ [a EXCEPT !.c = c, !.w = p.v] = [c |-> c, w |-> p.v, fh |-> p.i, off |-> a.off]
  <2> DEFINE b == [a EXCEPT !.c = c, !.w = p.v]
  <2>1. b \in [c : {c}, w : {p.v}, fh : Inodes, off : Offsets] /\ b.fh = a.fh /\ b.off = a.off
    BY <1>1 DEF Acked
  <2> HIDE DEF b
  <2>2. b = [c |-> b.c, w |-> b.w, fh |-> b.fh, off |-> b.off] /\ b.c = c /\ b.w = p.v
    BY <2>1
  <2>3. a.off \in Offsets
    BY <1>1 DEF Acked
  <2> QED BY <2>1, <2>2, <2>3 DEF b
<1>3. PageOwes(c, a.off, p, floor[c], acked, bad, landed)
  BY <1>1, <1>2, OpenParts
<1>4. CASE Owes(floor[c], bad, landed, p.i, a.off, p.v)
  BY <1>4, ReachedUnder DEF Owes
<1> QED BY <1>2, <1>3, <1>4 DEF PageOwes

\* Every call on its way, every descriptor, write, file and page is as FileInv
\* says, after every step, on a mount with neither of the options kernel_cache and
\* auto_cache: the invariant behind the properties of file I/O.
THEOREM FileInvariant ==
  ASSUME PagesDropped
  PROVE  Spec => []FileInv
<1>1. Init => FileInv
  <2>1. Init => DownInv /\ DescriptorsReturned
    BY DEF Init, ServerInit, DownInv, DescriptorsReturned
  <2> QED BY <2>1, InitFInv, InitOnce, InitDurable, InitOpen DEF FileInv
<1>2. FileInv /\ [Next]_vars => FileInv'
  BY NextFInv, NextReturned, NextOnce, NextDurable, NextOpen DEF FileInv
<1> QED BY <1>1, <1>2, PTL DEF Spec

\* On a mount with neither of the options kernel_cache and auto_cache, what a
\* client has of a file that it has open is not older than the synchronous writes
\* that were acknowledged when its open returned: open keeps no page, so that
\* each page comes from a read made since or from a write of the client's own.
THEOREM CloseToOpenHolds ==
  ASSUME PagesDropped
  PROVE  Spec => []CloseToOpen
<1>1. FileInv => CloseToOpen
  BY OpenCovers DEF FileInv
<1> QED BY <1>1, FileInvariant, PTL
=============================================================================
