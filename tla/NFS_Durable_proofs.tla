-------------------------- MODULE NFS_Durable_proofs --------------------------
(***************************************************************************)
(* Theorems about what is left of a synchronous write, for all values of   *)
(* the constants: once it was acknowledged it is on the disk or under a    *)
(* later write, because each actor that knows of it knows how far it got   *)
(* (DurableInv).                                                           *)
(***************************************************************************)
EXTENDS NFS_Write_proofs

-----------------------------------------------------------------------------
(* Histories of writes, as values: Reached(w, x, final) for a given log.   *)

Log == Seq([w : Writes, cell : Cells])

Under(log, w, x, final) ==
  \E j \in DOMAIN log :
    /\ log[j] = [w |-> w, cell |-> x]
    /\ \E k \in j..Len(log) : log[k].cell = x /\ log[k].w = final

Distinct(log) == \A j, k \in DOMAIN log : log[j].w = log[k].w => j = k

LEMMA ReachedUnder ==
  /\ \A w, x, final : Reached(w, x, final) <=> Under(landed, w, x, final)
  /\ WriteAtMostOnce <=> Distinct(landed)
  BY DEF Reached, Under, WriteAtMostOnce, Distinct

LEMMA LogEntries ==
  ASSUME NEW log \in Log
  PROVE  /\ DOMAIN log = 1..Len(log) /\ Len(log) \in Nat
         /\ \A j \in DOMAIN log : log[j] \in [w : Writes, cell : Cells]
<1> DEFINE L == [w : Writes, cell : Cells]
<1>1. log \in Seq(L)
  BY DEF Log
<1> HIDE DEF L
<1>2. DOMAIN log = 1..Len(log) /\ Len(log) \in Nat /\ \A j \in DOMAIN log : log[j] \in L
  BY <1>1
<1> QED BY <1>2 DEF L

LEMMA UnderType ==
  ASSUME NEW log \in Log, NEW w, NEW x, NEW final, Under(log, w, x, final)
  PROVE  w \in Writes /\ x \in Cells /\ final \in Writes
<1>1. PICK j \in DOMAIN log : /\ log[j] = [w |-> w, cell |-> x]
                              /\ \E k \in j..Len(log) : log[k].cell = x /\ log[k].w = final
  BY DEF Under
<1>2. PICK k \in j..Len(log) : log[k].cell = x /\ log[k].w = final
  BY <1>1
<1>3. j \in DOMAIN log /\ k \in DOMAIN log
  BY <1>1, <1>2, LogEntries
<1>4. log[j] \in [w : Writes, cell : Cells] /\ log[k] \in [w : Writes, cell : Cells]
  BY <1>3, LogEntries
<1> QED BY <1>1, <1>2, <1>4

LEMMA UnderSelf ==
  ASSUME NEW log \in Log, NEW w, NEW x, NEW final, Under(log, w, x, final)
  PROVE  Under(log, w, x, w)
<1>1. PICK j \in DOMAIN log : log[j] = [w |-> w, cell |-> x]
  BY DEF Under
<1>2. j \in j..Len(log) /\ log[j].cell = x /\ log[j].w = w
  BY <1>1, LogEntries
<1> QED BY <1>1, <1>2 DEF Under

\* A write of which there is one only is later than those it is over.
LEMMA UnderTrans ==
  ASSUME NEW log \in Log, Distinct(log), NEW w, NEW x, NEW v, NEW final,
         Under(log, w, x, v), Under(log, v, x, final)
  PROVE  Under(log, w, x, final)
<1>1. PICK j \in DOMAIN log : /\ log[j] = [w |-> w, cell |-> x]
                              /\ \E k \in j..Len(log) : log[k].cell = x /\ log[k].w = v
  BY DEF Under
<1>2. PICK k \in j..Len(log) : log[k].cell = x /\ log[k].w = v
  BY <1>1
<1>3. PICK i \in DOMAIN log : /\ log[i] = [w |-> v, cell |-> x]
                              /\ \E m \in i..Len(log) : log[m].cell = x /\ log[m].w = final
  BY DEF Under
<1>4. PICK m \in i..Len(log) : log[m].cell = x /\ log[m].w = final
  BY <1>3
<1>5. j \in Nat /\ k \in DOMAIN log /\ Len(log) \in Nat
  BY <1>1, <1>2, LogEntries
<1>6. i = k
  BY <1>2, <1>3, <1>5 DEF Distinct
<1>7. m \in j..Len(log)
  BY <1>2, <1>4, <1>5, <1>6
<1> QED BY <1>1, <1>4, <1>7 DEF Under

\* The log grows.
LEMMA UnderGrows ==
  ASSUME NEW log \in Log, NEW e, NEW w, NEW x, NEW final, Under(log, w, x, final)
  PROVE  /\ Under(Append(log, e), w, x, final)
         /\ e.cell = x => Under(Append(log, e), w, x, e.w)
<1> DEFINE more == Append(log, e)
<1>1. PICK j \in DOMAIN log : /\ log[j] = [w |-> w, cell |-> x]
                              /\ \E k \in j..Len(log) : log[k].cell = x /\ log[k].w = final
  BY DEF Under
<1>2. PICK k \in j..Len(log) : log[k].cell = x /\ log[k].w = final
  BY <1>1
<1>3. j \in 1..Len(log) /\ k \in 1..Len(log) /\ Len(log) \in Nat
  BY <1>1, <1>2, LogEntries
<1>4. /\ Len(more) = Len(log) + 1 /\ DOMAIN more = 1..(Len(log) + 1)
      /\ \A i \in 1..Len(log) : more[i] = log[i]
      /\ more[Len(log) + 1] = e
  <2> DEFINE L == [w : Writes, cell : Cells]
  <2>1. log \in Seq(L)
    BY DEF Log
  <2> HIDE DEF L
  <2> QED BY <2>1
<1> HIDE DEF more
<1>5. more[j] = [w |-> w, cell |-> x] /\ j \in DOMAIN more
  BY <1>1, <1>3, <1>4
<1>6. k \in j..Len(more) /\ more[k].cell = x /\ more[k].w = final
  BY <1>2, <1>3, <1>4
<1>7. Len(log) + 1 \in j..Len(more)
  BY <1>3, <1>4
<1>8. Under(more, w, x, final)
  BY <1>5, <1>6 DEF Under
<1>9. e.cell = x => Under(more, w, x, e.w)
  BY <1>4, <1>5, <1>7 DEF Under
<1> QED BY <1>8, <1>9 DEF more

LEMMA UnderLast ==
  ASSUME NEW log \in Log, NEW w \in Writes, NEW x \in Cells
  PROVE  Under(Append(log, [w |-> w, cell |-> x]), w, x, w)
<1> DEFINE e == [w |-> w, cell |-> x]
<1> DEFINE more == Append(log, e)
<1> DEFINE n == Len(log) + 1
<1>1. Len(more) = n /\ n \in DOMAIN more /\ more[n] = e /\ n \in Nat
  <2> DEFINE L == [w : Writes, cell : Cells]
  <2>1. log \in Seq(L) /\ e \in L
    BY DEF Log
  <2> HIDE DEF L, e
  <2> QED BY <2>1
<1> HIDE DEF more, n
<1>2. n \in n..Len(more)
  BY <1>1
<1>3. Under(more, w, x, w)
  BY <1>1, <1>2 DEF Under
<1> QED BY <1>3 DEF more

-----------------------------------------------------------------------------
(* DurableInv, and what it says with the files as values: c the contents,  *)
(* d what is on disk, b the files whose fsync failed.                      *)

DurableIn(k, d, b, log) == k.fh \in b \/ Under(log, k.w, Target(k), d[Target(k)])

FilesDurable(c, d, log) ==
  /\ \A x \in Cells : c[x] = NoWrite \/ Under(log, c[x], x, c[x])
  /\ \A x \in Cells : d[x] = NoWrite \/ Under(log, d[x], x, c[x])

HandlerDurable(k, c, d, b, log) ==
  /\ k.pc = "sync" => Under(log, k.w, Target(k), c[Target(k)])
  /\ k.pc \in {"close", "close2"} /\ k.op = "Write" /\ k.n = 1 => DurableIn(k, d, b, log)

RpcDurable(r, d, b, log) == r.op = "Write" /\ r.n = 1 => DurableIn(r, d, b, log)

AckDurable(a, d, b, log) == a.c \in SyncClients => DurableIn(a, d, b, log)

LEMMA DurableParts ==
  DurableInv <=>
    /\ FilesDurable(content, disk, landed)
    /\ \A h \in Handlers : HandlerDurable(hd[h], content, disk, bad, landed)
    /\ \A c \in Clients : RpcDurable(rpc[c], disk, bad, landed)
    /\ \A a \in acked : AckDurable(a, disk, bad, landed)
  BY DEF DurableInv, Durable, Reached, Under, DurableIn, FilesDurable, HandlerDurable,
         RpcDurable, AckDurable

LEMMA DurablePartsNext ==
  DurableInv' <=>
    /\ FilesDurable(content', disk', landed')
    /\ \A h \in Handlers : HandlerDurable(hd'[h], content', disk', bad', landed')
    /\ \A c \in Clients : RpcDurable(rpc'[c], disk', bad', landed')
    /\ \A a \in acked' : AckDurable(a, disk', bad', landed')
  BY DEF DurableInv, Durable, Reached, Under, DurableIn, FilesDurable, HandlerDurable,
         RpcDurable, AckDurable, Target

\* A step of the files takes back nothing of what was on disk, and, unless the
\* power is lost, nothing of what was in the files.
DiskKept ==
  \A k : DurableIn(k, disk, bad, landed) => DurableIn(k, disk', bad', landed')

ContentKept ==
  \A w, x : Under(landed, w, x, content[x]) => Under(landed', w, x, content'[x])

LEMMA SameFiles ==
  ASSUME FilesDurable(content, disk, landed), UNCHANGED <<content, disk, landed>>,
         bad \subseteq bad'
  PROVE  FilesDurable(content', disk', landed') /\ DiskKept /\ ContentKept
<1>1. content' = content /\ disk' = disk /\ landed' = landed
  OBVIOUS
<1> QED BY <1>1 DEF DiskKept, ContentKept, DurableIn

LEMMA LandFiles ==
  ASSUME FilesOK, FilesDurable(content, disk, landed), UNCHANGED <<disk, bad>>,
         NEW w \in Writes, NEW i \in Inodes, NEW off \in Blocks, Land(w, i, off)
  PROVE  /\ FilesDurable(content', disk', landed') /\ DiskKept /\ ContentKept
         /\ Under(landed', w, <<i, off>>, content'[<<i, off>>])
<1> DEFINE x == <<i, off>>
<1> DEFINE e == [w |-> w, cell |-> x]
<1>1. /\ x \in Cells /\ e \in [w : Writes, cell : Cells] /\ landed \in Log
      /\ landed' = Append(landed, e) /\ disk' = disk /\ bad' = bad
      /\ content' = [content EXCEPT ![x] = w] /\ content \in [Cells -> Writes \cup {NoWrite}]
      /\ e.cell = x /\ e.w = w
  BY DEF FilesOK, Log, Land, Cells
<1>2. Under(landed', w, x, w)
  BY <1>1, UnderLast
<1> HIDE DEF e, x
<1>3. content'[x] = w /\ \A y \in Cells \ {x} : content'[y] = content[y]
  BY <1>1
<1>4. \A v, y, final : Under(landed, v, y, final) =>
        Under(landed', v, y, final) /\ (y = x => Under(landed', v, y, w))
  BY <1>1, UnderGrows
<1>5. FilesDurable(content', disk', landed')
  <2>1. ASSUME NEW y \in Cells
        PROVE  /\ content'[y] = NoWrite \/ Under(landed', content'[y], y, content'[y])
               /\ disk'[y] = NoWrite \/ Under(landed', disk'[y], y, content'[y])
    <3>1. CASE y = x
      BY <1>1, <1>2, <1>3, <1>4, <3>1 DEF FilesDurable
    <3>2. CASE y # x
      BY <1>1, <1>3, <1>4, <3>2 DEF FilesDurable
    <3> QED BY <3>1, <3>2
  <2> QED BY <2>1 DEF FilesDurable
<1>6. DiskKept
  BY <1>1, <1>4 DEF DiskKept, DurableIn
<1>7. ContentKept
  <2>1. ASSUME NEW v, NEW y, Under(landed, v, y, content[y])
        PROVE  Under(landed', v, y, content'[y])
    <3>1. y \in Cells
      BY <1>1, <2>1, UnderType
    <3> QED BY <1>3, <1>4, <2>1, <3>1
  <2> QED BY <2>1 DEF ContentKept
<1> QED BY <1>2, <1>3, <1>5, <1>6, <1>7 DEF x

\* What is on disk is under what is in the file, so that writing the file back,
\* as a whole or in part, loses nothing.
LEMMA WriteBack ==
  ASSUME FilesOK, FilesDurable(content, disk, landed), Distinct(landed),
         UNCHANGED <<landed, bad>>,
         \A x \in Cells : disk'[x] \in {disk[x], content[x]}
  PROVE  DiskKept
<1>1. landed \in Log /\ landed' = landed /\ bad' = bad
  BY DEF FilesOK, Log
<1>2. ASSUME NEW k, DurableIn(k, disk, bad, landed)
      PROVE  DurableIn(k, disk', bad', landed')
  <2> DEFINE x == Target(k)
  <2> HIDE DEF x
  <2>1. CASE k.fh \in bad
    BY <1>1, <2>1 DEF DurableIn
  <2>2. CASE Under(landed, k.w, x, disk[x])
    <3>1. x \in Cells /\ disk[x] \in Writes
      BY <1>1, <2>2, UnderType
    <3>2. Under(landed, disk[x], x, content[x])
      BY <3>1, AsyncIOAssumption DEF FilesDurable
    <3>3. Under(landed, k.w, x, content[x])
      BY <1>1, <2>2, <3>2, UnderTrans
    <3> QED BY <1>1, <2>2, <3>1, <3>3 DEF DurableIn, x
  <2> QED BY <1>2, <2>1, <2>2 DEF DurableIn, x
<1> QED BY <1>2 DEF DiskKept

LEMMA SyncFiles ==
  ASSUME FilesOK, FilesDurable(content, disk, landed), Distinct(landed),
         UNCHANGED <<content, landed>>, NEW h \in Handlers, NEW n \in {0, -1}, SyncFile(h, n)
  PROVE  /\ FilesDurable(content', disk', landed') /\ DiskKept /\ ContentKept
         /\ \/ fds[hd[h].fd].i \in bad'
            \/ \A x \in Cells : x[1] = fds[hd[h].fd].i => disk'[x] = content'[x]
<1> DEFINE i == fds[hd[h].fd].i
<1>1. CASE n = 0 /\ disk' = Flushed(i) /\ bad' = bad
  <2>1. \A x \in Cells : disk'[x] = IF x[1] = i THEN content[x] ELSE disk[x]
    BY <1>1 DEF Flushed
  <2> HIDE DEF i
  <2>2. FilesDurable(content', disk', landed')
    BY <2>1 DEF FilesDurable
  <2>3. DiskKept
    BY <1>1, <2>1, WriteBack
  <2> QED BY <2>1, <2>2, <2>3 DEF ContentKept, i
<1>2. CASE bad' = bad \cup {i} /\ disk' = disk
  BY <1>2, SameFiles
<1> QED BY <1>1, <1>2 DEF SyncFile

LEMMA PowerLossFiles ==
  ASSUME FilesOK, FilesDurable(content, disk, landed), Distinct(landed), PowerLoss
  PROVE  FilesDurable(content', disk', landed') /\ DiskKept
<1>1. landed' = landed /\ bad' = bad /\ disk' = content' /\ landed \in Log
  BY DEF PowerLoss, FilesOK, Log
<1>2. \A x \in Cells : content'[x] \in {disk[x], content[x]}
  BY DEF PowerLoss
<1>3. DiskKept
  BY <1>1, <1>2, WriteBack
<1>4. ASSUME NEW x \in Cells
      PROVE  content'[x] = NoWrite \/ Under(landed, content'[x], x, content'[x])
  <2>1. CASE content'[x] = content[x]
    BY <2>1 DEF FilesDurable
  <2>2. CASE content'[x] = disk[x]
    BY <1>1, <2>2, UnderSelf DEF FilesDurable
  <2> QED BY <1>2, <2>1, <2>2
<1> QED BY <1>1, <1>3, <1>4 DEF FilesDurable

\* The other actors move when the files do: what they know of stays durable,
\* and what they learn is durable before or after the step.
LEMMA DurableMove ==
  ASSUME DurableInv, FilesDurable(content', disk', landed'), DiskKept,
         \A h \in Handlers :
           \/ /\ HandlerDurable(hd'[h], content, disk, bad, landed)
              /\ ContentKept \/ hd'[h].pc # "sync"
           \/ HandlerDurable(hd'[h], content', disk', bad', landed'),
         \A c \in Clients : RpcDurable(rpc'[c], disk, bad, landed),
         \A a \in acked' : AckDurable(a, disk, bad, landed)
  PROVE  DurableInv'
<1>1. \A h \in Handlers : HandlerDurable(hd'[h], content', disk', bad', landed')
  BY DEF HandlerDurable, DiskKept, ContentKept
<1>2. \A c \in Clients : RpcDurable(rpc'[c], disk', bad', landed')
  BY DEF RpcDurable, DiskKept
<1>3. \A a \in acked' : AckDurable(a, disk', bad', landed')
  BY DEF AckDurable, DiskKept
<1> QED BY <1>1, <1>2, <1>3, DurablePartsNext

-----------------------------------------------------------------------------
(* The steps of the server.                                                *)

LEMMA SameRequest ==
  ASSUME NEW k, NEW j, k.fh = j.fh, k.off = j.off, k.w = j.w, NEW d, NEW b, NEW log
  PROVE  DurableIn(k, d, b, log) <=> DurableIn(j, d, b, log)
  BY DEF DurableIn, Target

\* Nothing happens to the files.
LEMMA StillDurable ==
  ASSUME DurableInv, UNCHANGED <<content, disk, landed, bad>>,
         \A h \in Handlers : HandlerDurable(hd'[h], content, disk, bad, landed),
         \A c \in Clients : RpcDurable(rpc'[c], disk, bad, landed),
         \A a \in acked' : AckDurable(a, disk, bad, landed)
  PROVE  DurableInv'
<1>1. FilesDurable(content, disk, landed)
  BY DurableParts
<1>2. FilesDurable(content', disk', landed') /\ DiskKept /\ ContentKept
  BY <1>1, SameFiles
<1> QED BY <1>2, DurableMove

\* Handler h goes on.
LEMMA GoOnDurable ==
  ASSUME DurableInv, UNCHANGED <<content, disk, landed, bad, rpc, acked>>, NEW h \in Handlers,
         \A g \in Handlers \ {h} : hd'[g] = hd[g],
         HandlerDurable(hd'[h], content, disk, bad, landed)
  PROVE  DurableInv'
<1>1. \A g \in Handlers : HandlerDurable(hd'[g], content, disk, bad, landed)
  BY DurableParts
<1>2. \A c \in Clients : RpcDurable(rpc'[c], disk, bad, landed)
  BY DurableParts
<1>3. \A a \in acked' : AckDurable(a, disk, bad, landed)
  BY DurableParts
<1> QED BY <1>1, <1>2, <1>3, StillDurable

\* A reply to a call: what the client learns, the handler knew.
LEMMA ReturnDurable ==
  ASSUME FInv, DurableInv, UNCHANGED <<content, disk, landed, bad, acked>>, NEW h \in Handlers,
         hd[h].pc # "idle", NEW status, status = "OK" => hd[h].pc = "close2", Return(h, status)
  PROVE  DurableInv'
<1>1. /\ CallsOK /\ HandlerShape(hd[h]) /\ Linked(h) /\ hd[h] \in Handler
      /\ hd \in [Handlers -> Handler]
  BY Parts DEF CallsOK
<1>2. hd'[h] = Idle /\ \A g \in Handlers \ {h} : hd'[g] = hd[g]
  BY <1>1 DEF Return
<1>3. \A g \in Handlers : HandlerDurable(hd'[g], content, disk, bad, landed)
  <2>1. HandlerDurable(Idle, content, disk, bad, landed)
    BY DEF HandlerDurable, Idle
  <2> QED BY <1>2, <2>1, DurableParts
<1>4. \A c \in Clients : RpcDurable(rpc'[c], disk, bad, landed)
  <2>1. CASE hd[h].c \notin Clients
    <3>1. rpc' = rpc
      BY <1>1, <2>1 DEF Return, HandlerShape, Handler
    <3> QED BY <3>1, DurableParts
  <2>2. CASE hd[h].c \in Clients
    <3>1. PICK c \in Clients : c = hd[h].c
      BY <2>2
    <3>2. rpc' = Answer(c, status, hd[h].fh, hd[h].n, hd[h].v)
      BY <3>1, NotClients DEF Return
    <3>3. /\ rpc[c].op = hd[h].op /\ rpc[c].w = hd[h].w /\ rpc[c].off = hd[h].off
      BY <1>1, <3>1 DEF Linked
    <3>4. /\ \A d \in Clients \ {c} : rpc'[d] = rpc[d]
          /\ rpc'[c].op = hd[h].op /\ rpc'[c].off = hd[h].off /\ rpc'[c].w = hd[h].w
          /\ status = "OK" => rpc'[c].fh = hd[h].fh
          /\ rpc'[c].n = (IF status = "OK" THEN hd[h].n ELSE 0)
      BY <1>1, <3>2, <3>3, AnswerFields
    <3>5. ASSUME rpc'[c].op = "Write", rpc'[c].n = 1
          PROVE  DurableIn(rpc'[c], disk, bad, landed)
      <4>1. /\ status = "OK" /\ hd[h].pc = "close2" /\ hd[h].op = "Write" /\ hd[h].n = 1
            /\ rpc'[c].fh = hd[h].fh
        BY <3>4, <3>5
      <4>2. DurableIn(hd[h], disk, bad, landed)
        BY <4>1, DurableParts DEF HandlerDurable
      <4> QED BY <3>4, <4>1, <4>2, SameRequest
    <3>6. RpcDurable(rpc'[c], disk, bad, landed)
      BY <3>5 DEF RpcDurable
    <3> QED BY <3>4, <3>6, DurableParts
  <2> QED BY <2>1, <2>2
<1>5. \A a \in acked' : AckDurable(a, disk, bad, landed)
  BY DurableParts
<1> QED BY <1>3, <1>4, <1>5, StillDurable

\* No handler is left, and the calls get no body; the power may be lost too.
LEMMA ExitDurable ==
  ASSUME FInv, DurableInv, acked' = acked, FilesDurable(content', disk', landed'), DiskKept, Exit
  PROVE  DurableInv'
<1>1. \A h \in Handlers : /\ HandlerDurable(hd'[h], content, disk, bad, landed)
                          /\ hd'[h].pc # "sync"
  BY DEF Exit, HandlerDurable, Idle
<1>2. ASSUME NEW c \in Clients
      PROVE  RpcDurable(rpc'[c], disk, bad, landed)
  <2>1. rpc[c] \in Rpc /\ RpcDurable(rpc[c], disk, bad, landed)
    BY Parts, DurableParts DEF CallsOK
  <2>2. CASE rpc[c].st # "sent"
    BY <2>1, <2>2 DEF Exit
  <2>3. CASE rpc[c].st = "sent"
    <3>1. rpc'[c] = [rpc[c] EXCEPT !.st = "replied", !.status = "UNAVAILABLE"]
      BY <2>3 DEF Exit
    <3>2. /\ rpc'[c].op = rpc[c].op /\ rpc'[c].n = rpc[c].n /\ rpc'[c].fh = rpc[c].fh
          /\ rpc'[c].off = rpc[c].off /\ rpc'[c].w = rpc[c].w
      BY <2>1, <3>1 DEF Rpc
    <3> QED BY <2>1, <3>2, SameRequest DEF RpcDurable
  <2> QED BY <2>2, <2>3
<1>3. \A a \in acked' : AckDurable(a, disk, bad, landed)
  BY DurableParts
<1> QED BY <1>1, <1>2, <1>3, DurableMove

\* The assignments that handlers make to their local variables.
Moved(h, pc) ==
  /\ \A g \in Handlers \ {h} : hd'[g] = hd[g]
  /\ hd'[h].pc = pc
  /\ hd'[h].c = hd[h].c /\ hd'[h].op = hd[h].op /\ hd'[h].fh = hd[h].fh
  /\ hd'[h].off = hd[h].off /\ hd'[h].w = hd[h].w

LEMMA Advance ==
  ASSUME CallsOK, NEW h \in Handlers, NEW pc
  PROVE  /\ hd' = [hd EXCEPT ![h].pc = pc] => Moved(h, pc) /\ hd'[h].n = hd[h].n /\ hd'[h].v = hd[h].v
         /\ \A n : hd' = [hd EXCEPT ![h].pc = pc, ![h].n = n] => Moved(h, pc) /\ hd'[h].n = n
         /\ \A v : hd' = [hd EXCEPT ![h].pc = pc, ![h].v = v] => Moved(h, pc) /\ hd'[h].v = v
<1>1. hd \in [Handlers -> Handler] /\ hd[h] \in Handler
  BY DEF CallsOK
<1>2. ASSUME NEW n, NEW v, hd' = [hd EXCEPT ![h] = [hd[h] EXCEPT !.pc = pc, !.n = n, !.v = v]]
      PROVE  Moved(h, pc) /\ hd'[h].n = n /\ hd'[h].v = v
  BY <1>1, <1>2 DEF Handler, Moved
<1>3. ASSUME hd' = [hd EXCEPT ![h].pc = pc]
      PROVE  Moved(h, pc) /\ hd'[h].n = hd[h].n /\ hd'[h].v = hd[h].v
  <2>1. hd' = [hd EXCEPT ![h] = [hd[h] EXCEPT !.pc = pc, !.n = hd[h].n, !.v = hd[h].v]]
    BY <1>3, Assignments
  <2> QED BY <1>2, <2>1
<1>4. ASSUME NEW n, hd' = [hd EXCEPT ![h].pc = pc, ![h].n = n]
      PROVE  Moved(h, pc) /\ hd'[h].n = n
  <2>1. hd' = [hd EXCEPT ![h] = [hd[h] EXCEPT !.pc = pc, !.n = n]]
    BY <1>1, <1>4
  <2> QED BY <1>1, <2>1 DEF Handler, Moved
<1>5. ASSUME NEW v, hd' = [hd EXCEPT ![h].pc = pc, ![h].v = v]
      PROVE  Moved(h, pc) /\ hd'[h].v = v
  <2>1. hd' = [hd EXCEPT ![h] = [hd[h] EXCEPT !.pc = pc, !.n = hd[h].n, !.v = v]]
    BY <1>5, Assignments, ZenonT(60)
  <2> QED BY <1>2, <2>1
<1> QED BY <1>3, <1>4, <1>5

LEMMA WriteDurable ==
  ASSUME FInv, Distinct(landed), DurableInv, acked' = acked, NEW h \in Handlers, Write(h)
  PROVE  DurableInv'
<1>1. /\ FilesOK /\ TableOK /\ CallsOK /\ HandlerShape(hd[h]) /\ FilesDurable(content, disk, landed)
      /\ hd[h].pc = "io" /\ hd[h].op = "Write"
  BY Parts, DurableParts DEF CallsOK, Write, AtIO
<1>2. /\ hd[h].off \in Offsets /\ hd[h].fh \in Inodes /\ fds[hd[h].fd].i = hd[h].fh
      /\ hd[h].w \in Writes
  BY <1>1, AtWork DEF WriteOps
<1>3. CASE /\ UNCHANGED <<content, landed>>
           /\ \/ hd' = [hd EXCEPT ![h].pc = "close"]
              \/ hd' = [hd EXCEPT ![h].pc = "close", ![h].n = -1]
  <2>1. hd[h].n = 0
    BY <1>1 DEF HandlerShape
  <2>2. Moved(h, "close") /\ hd'[h].n \in {0, -1}
    BY <1>1, <1>3, <2>1, Advance
  <2>3. HandlerDurable(hd'[h], content, disk, bad, landed)
    BY <2>2 DEF HandlerDurable, Moved
  <2> QED BY <1>3, <2>2, <2>3, GoOnDurable DEF Write, Moved
<1>4. CASE /\ Int32(hd[h].off) >= 0 /\ Land(hd[h].w, fds[hd[h].fd].i, Int32(hd[h].off))
           /\ hd' = [hd EXCEPT ![h].pc = "sync", ![h].n = 1]
  <2>1. /\ \A g \in Handlers \ {h} : hd'[g] = hd[g]
        /\ hd'[h].pc = "sync" /\ hd'[h].w = hd[h].w /\ Target(hd'[h]) = Target(hd[h])
    <3>1. Moved(h, "sync")
      BY <1>1, <1>4, Advance
    <3> QED BY <3>1 DEF Moved, Target
  <2>2. /\ FilesDurable(content', disk', landed') /\ DiskKept /\ ContentKept
        /\ Under(landed', hd[h].w, Target(hd[h]), content'[Target(hd[h])])
    <3>1. UNCHANGED <<disk, bad>> /\ Int32(hd[h].off) \in Blocks
      BY <1>2, <1>4, SeekType DEF Write
    <3>2. Land(hd[h].w, hd[h].fh, Int32(hd[h].off))
      BY <1>2, <1>4
    <3> HIDE DEF Land
    <3> QED BY <1>1, <1>2, <3>1, <3>2, LandFiles DEF Target
  <2>3. HandlerDurable(hd'[h], content', disk', bad', landed')
    BY <2>1, <2>2 DEF HandlerDurable
  <2>4. \A g \in Handlers \ {h} : HandlerDurable(hd'[g], content, disk, bad, landed)
    BY <2>1, DurableParts
  <2>5. (\A c \in Clients : RpcDurable(rpc'[c], disk, bad, landed)) /\ (\A a \in acked' : AckDurable(a, disk, bad, landed))
    BY DurableParts DEF Write
  <2> QED BY <2>2, <2>3, <2>4, <2>5, DurableMove
<1> QED BY <1>3, <1>4 DEF Write, Goto

\* After the fsync in Write the block is on disk, unless the fsync failed.
LEMMA SyncDurable ==
  ASSUME FInv, Distinct(landed), DurableInv, acked' = acked, NEW h \in Handlers,
         WriteSync(h) \/ Fsync(h)
  PROVE  DurableInv'
<1>1. /\ FilesOK /\ TableOK /\ CallsOK /\ HandlerShape(hd[h]) /\ FilesDurable(content, disk, landed)
      /\ hd[h].pc \in {"io", "sync"} /\ UNCHANGED <<content, landed, rpc>>
      /\ hd[h].pc = "sync" \/ hd[h].op = "Fsync"
  BY Parts, DurableParts DEF CallsOK, WriteSync, Fsync, AtIO
<1>2. fds[hd[h].fd].i = hd[h].fh
  BY <1>1, AtWork
<1>3. PICK n \in {0, -1} : SyncFile(h, n)
  BY DEF WriteSync, Fsync
<1>4. /\ FilesDurable(content', disk', landed') /\ DiskKept /\ ContentKept
      /\ \/ hd[h].fh \in bad'
         \/ \A x \in Cells : x[1] = hd[h].fh => disk'[x] = content'[x]
  BY <1>1, <1>2, <1>3, SyncFiles
<1>5. \/ hd' = [hd EXCEPT ![h].pc = "close"]
      \/ \E m : hd' = [hd EXCEPT ![h].pc = "close", ![h].n = m]
  BY DEF WriteSync, Fsync, Goto
<1>6. /\ \A g \in Handlers \ {h} : hd'[g] = hd[g]
      /\ hd'[h].pc = "close" /\ hd'[h].op = hd[h].op /\ hd'[h].w = hd[h].w
      /\ hd'[h].fh = hd[h].fh /\ hd'[h].off = hd[h].off
  <2>1. CallsOK
    BY <1>1
  <2>2. Moved(h, "close")
    BY <1>5, <2>1, Advance
  <2> QED BY <2>2 DEF Moved
<1>7. HandlerDurable(hd'[h], content', disk', bad', landed')
  <2>1. ASSUME hd[h].pc = "sync"
        PROVE  DurableIn(hd[h], disk', bad', landed')
    <3>1. Under(landed, hd[h].w, Target(hd[h]), content[Target(hd[h])])
      BY <2>1, DurableParts DEF HandlerDurable
    <3>2. Target(hd[h]) \in Cells
      BY <1>1, <3>1, UnderType DEF FilesOK, Log
    <3>3. Target(hd[h])[1] = hd[h].fh
      BY DEF Target
    <3>4. content' = content /\ landed' = landed
      BY <1>1
    <3> QED BY <1>4, <3>1, <3>2, <3>3, <3>4 DEF DurableIn
  <2>2. hd[h].pc = "sync" => DurableIn(hd'[h], disk', bad', landed')
    BY <1>6, <2>1, SameRequest
  <2> QED BY <1>1, <1>6, <2>2 DEF HandlerDurable
<1>8. \A g \in Handlers \ {h} : HandlerDurable(hd'[g], content, disk, bad, landed)
  BY <1>6, DurableParts
<1>9. (\A c \in Clients : RpcDurable(rpc'[c], disk, bad, landed)) /\ (\A a \in acked' : AckDurable(a, disk, bad, landed))
  BY <1>1, DurableParts
<1> QED BY <1>4, <1>7, <1>8, <1>9, DurableMove

LEMMA ServeDurable ==
  ASSUME FInv, Distinct(landed), DurableInv, acked' = acked, NEW h \in Handlers, Serve(h)
  PROVE  DurableInv'
<1>1. FilesOK /\ CallsOK /\ FilesDurable(content, disk, landed) /\ hd \in [Handlers -> Handler]
      /\ hd[h] \in Handler
  BY Parts, DurableParts DEF CallsOK
<1>2. ASSUME UNCHANGED <<content, disk, landed, bad>>
      PROVE  FilesDurable(content', disk', landed') /\ DiskKept /\ ContentKept
  BY <1>1, <1>2, SameFiles
<1>3. ASSUME NEW c \in Clients, open_mount_path_by_id(h, c)
      PROVE  DurableInv'
  <2> DEFINE k == [Idle EXCEPT !.pc = "open", !.c = c, !.op = rpc[c].op, !.fh = rpc[c].fh,
                               !.off = rpc[c].off, !.w = rpc[c].w]
  <2> DEFINE i == [k EXCEPT !.mount_fd = Lowest]
  <2>1. UNCHANGED <<content, disk, landed, bad>>
    BY <1>3 DEF open_mount_path_by_id, files
  <2>2. k.pc = "open" /\ i.pc = "open"
    BY DEF Idle
  <2>3. \/ Exit
        \/ hd' = [hd EXCEPT ![h] = k] /\ rpc' = rpc
        \/ hd' = [hd EXCEPT ![h] = i] /\ rpc' = rpc
    BY <1>3 DEF open_mount_path_by_id
  <2> HIDE DEF i, k
  <2>4. CASE Exit
    BY <1>2, <2>1, <2>4, ExitDurable
  <2>5. ASSUME NEW j, j.pc = "open", hd' = [hd EXCEPT ![h] = j], rpc' = rpc
        PROVE  DurableInv'
    <3>1. hd'[h] = j /\ \A g \in Handlers \ {h} : hd'[g] = hd[g]
      BY <1>1, <2>5
    <3>2. HandlerDurable(hd'[h], content, disk, bad, landed)
      BY <2>5, <3>1 DEF HandlerDurable
    <3> QED BY <2>1, <2>5, <3>1, <3>2, GoOnDurable
  <2> QED BY <2>2, <2>3, <2>4, <2>5
<1>4. CASE open_by_handle_at(h)
  <2>1. hd[h].pc = "open" /\ UNCHANGED <<content, disk, landed, bad>>
    BY <1>4 DEF open_by_handle_at, files
  <2>2. ASSUME NEW status, status # "OK", FailedOpen(h, status)
        PROVE  DurableInv'
    BY <2>1, <2>2, ReturnDurable DEF FailedOpen
  <2>3. CASE hd' = [hd EXCEPT ![h].fd = Lowest, ![h].pc = "io"] /\ rpc' = rpc
    <3>1. /\ \A g \in Handlers \ {h} : hd'[g] = hd[g]
          /\ hd'[h] = [hd[h] EXCEPT !.fd = Lowest, !.pc = "io"]
      BY <1>1, <2>3
    <3>2. hd'[h].pc = "io"
      BY <1>1, <3>1 DEF Handler
    <3>3. HandlerDurable(hd'[h], content, disk, bad, landed)
      BY <3>2 DEF HandlerDurable
    <3> QED BY <2>1, <2>3, <3>1, <3>3, GoOnDurable
  <2> QED BY <1>4, <2>2, <2>3 DEF open_by_handle_at
<1>5. CASE Read(h)
  <2>1. hd[h].pc = "io" /\ hd[h].op = "Read" /\ UNCHANGED <<content, disk, landed, bad>>
    BY <1>5 DEF Read, AtIO, files
  <2>2. CASE Return(h, "CANCELLED")
    BY <2>1, <2>2, ReturnDurable
  <2>3. ASSUME NEW v, hd' = [hd EXCEPT ![h].pc = "close", ![h].v = v], rpc' = rpc
        PROVE  DurableInv'
    <3>1. /\ \A g \in Handlers \ {h} : hd'[g] = hd[g]
          /\ hd'[h].pc = "close" /\ hd'[h].op = hd[h].op
      BY <1>1, <2>3, Advance DEF Moved
    <3>2. HandlerDurable(hd'[h], content, disk, bad, landed)
      BY <2>1, <3>1 DEF HandlerDurable
    <3> QED BY <2>1, <2>3, <3>1, <3>2, GoOnDurable
  <2> QED BY <1>5, <2>2, <2>3 DEF Read
<1>6. CASE Write_Async(h)
  <2>1. hd[h].op = "Write_Async" /\ UNCHANGED <<content, disk, landed, bad, rpc>>
        /\ hd' = [hd EXCEPT ![h].pc = "close", ![h].n = 1]
    BY <1>6 DEF Write_Async, AtIO, files
  <2>2. /\ \A g \in Handlers \ {h} : hd'[g] = hd[g]
        /\ hd'[h].pc = "close" /\ hd'[h].op = hd[h].op
    BY <1>1, <2>1, Advance DEF Moved
  <2>3. HandlerDurable(hd'[h], content, disk, bad, landed)
    BY <2>1, <2>2 DEF HandlerDurable
  <2> QED BY <2>1, <2>2, <2>3, GoOnDurable
<1>7. CASE Close(h)
  <2>1. UNCHANGED <<content, disk, landed, bad>>
    BY <1>7 DEF Close, files
  <2>2. CASE hd[h].pc = "close2" /\ Return(h, "OK")
    BY <2>1, <2>2, ReturnDurable
  <2>3. CASE hd[h].pc = "close" /\ hd' = [hd EXCEPT ![h].pc = "close2"] /\ rpc' = rpc
    <3>1. /\ \A g \in Handlers \ {h} : hd'[g] = hd[g]
          /\ hd'[h].pc = "close2" /\ hd'[h].op = hd[h].op /\ hd'[h].n = hd[h].n
          /\ hd'[h].w = hd[h].w /\ hd'[h].fh = hd[h].fh /\ hd'[h].off = hd[h].off
      BY <1>1, <2>3, Advance DEF Moved
    <3>2. HandlerDurable(hd[h], content, disk, bad, landed)
      BY DurableParts
    <3>3. HandlerDurable(hd'[h], content, disk, bad, landed)
      BY <2>3, <3>1, <3>2, SameRequest DEF HandlerDurable
    <3> QED BY <2>1, <2>3, <3>1, <3>3, GoOnDurable
  <2> QED BY <1>7, <2>2, <2>3 DEF Close, Goto
<1> QED BY <1>3, <1>4, <1>5, <1>6, <1>7, WriteDurable, SyncDurable DEF Serve

LEMMA AioDurable ==
  ASSUME FInv, DurableInv, UNCHANGED clientVars, NEW k \in DOMAIN aio, AioRun(k)
  PROVE  DurableInv'
<1> DEFINE Q == [fd : Fds, off : Int, w : Writes]
<1> DEFINE q == aio[k]
<1>1. /\ FilesOK /\ TableOK /\ FilesDurable(content, disk, landed) /\ aio \in Seq(Q)
      /\ UNCHANGED <<disk, bad, hd, rpc, acked>>
  BY Parts, DurableParts DEF FilesOK, AioRun, clientVars
<1>2. q \in Q
  <2> HIDE DEF Q
  <2> QED BY <1>1
<1>3. q.off < Int32Blocks
  BY <1>1 DEF FilesOK, QueueShape
<1>4. FilesDurable(content', disk', landed') /\ DiskKept /\ ContentKept
  <2>1. CASE UNCHANGED <<content, landed>>
    BY <1>1, <2>1, SameFiles
  <2>2. CASE fds[q.fd].mode = "O_WRONLY" /\ q.off >= 0 /\ Land(q.w, fds[q.fd].i, q.off)
    <3>1. fds[q.fd].i \in Inodes
      <4>1. fds[q.fd] \in OpenFiles \cup {NoFile}
        BY <1>1, <1>2 DEF TableOK
      <4> QED BY <2>2, <4>1 DEF OpenFiles, NoFile, MountDir
    <3>2. q.w \in Writes /\ q.off \in Blocks
      BY <1>2, <1>3, <2>2, AsyncIOAssumption DEF Blocks
    <3>3. Land(q.w, fds[q.fd].i, q.off)
      BY <2>2
    <3> HIDE DEF Land, q
    <3> QED BY <1>1, <3>1, <3>2, <3>3, LandFiles
  <2> QED BY <2>1, <2>2 DEF AioRun
<1>5. /\ \A h \in Handlers : HandlerDurable(hd'[h], content, disk, bad, landed)
      /\ \A c \in Clients : RpcDurable(rpc'[c], disk, bad, landed)
      /\ \A a \in acked' : AckDurable(a, disk, bad, landed)
  BY <1>1, DurableParts
<1> QED BY <1>4, <1>5, DurableMove

\* gRPC, or the server without a handler, replies to client c: no byte was
\* written.
LEMMA AnswerDurable ==
  ASSUME CallsOK, DurableInv, UNCHANGED <<content, disk, landed, bad, acked>>,
         NEW c \in Clients, NEW status, NEW fh, NEW v, rpc' = Answer(c, status, fh, 0, v),
         \A h \in Handlers : hd'[h] = hd[h] \/ hd'[h] = [hd[h] EXCEPT !.c = "orphan"]
  PROVE  DurableInv'
<1>1. \A d \in Clients : RpcDurable(rpc'[d], disk, bad, landed)
  <2>1. rpc'[c].n = 0 /\ \A d \in Clients \ {c} : rpc'[d] = rpc[d]
    BY AnswerFields
  <2> QED BY <2>1, DurableParts DEF RpcDurable
<1>2. ASSUME NEW h \in Handlers
      PROVE  HandlerDurable(hd'[h], content, disk, bad, landed)
  <2>1. HandlerDurable(hd[h], content, disk, bad, landed) /\ hd[h] \in Handler
    BY DurableParts DEF CallsOK
  <2>2. CASE hd'[h] = [hd[h] EXCEPT !.c = "orphan"]
    <3>1. /\ hd'[h].pc = hd[h].pc /\ hd'[h].op = hd[h].op /\ hd'[h].n = hd[h].n
          /\ hd'[h].fh = hd[h].fh /\ hd'[h].off = hd[h].off /\ hd'[h].w = hd[h].w
      BY <2>1, <2>2 DEF Handler
    <3>2. DurableIn(hd'[h], disk, bad, landed) <=> DurableIn(hd[h], disk, bad, landed)
      BY <3>1, SameRequest
    <3>3. Target(hd'[h]) = Target(hd[h])
      BY <3>1 DEF Target
    <3> QED BY <2>1, <3>1, <3>2, <3>3 DEF HandlerDurable
  <2> QED BY <2>1, <2>2
<1>3. \A a \in acked' : AckDurable(a, disk, bad, landed)
  BY DurableParts
<1> QED BY <1>1, <1>2, <1>3, StillDurable

LEMMA ServerStepDurable ==
  ASSUME FInv, OnceInv, DurableInv, UNCHANGED clientVars, ServerStep
  PROVE  DurableInv'
<1>1. /\ FilesOK /\ CallsOK /\ Distinct(landed) /\ acked' = acked
      /\ FilesDurable(content, disk, landed)
  BY Parts, DurableParts, OncePlaceOnce, ReachedUnder DEF clientVars
<1>2. ASSUME NEW h \in Handlers, Serve(h)
      PROVE  DurableInv'
  BY <1>1, <1>2, ServeDurable
<1>3. ASSUME NEW c \in Clients, Lookup(c) \/ RpcUnavailable(c)
      PROVE  DurableInv'
  <2>1. UNCHANGED <<content, disk, landed, bad>> /\ hd' = hd
    BY <1>3 DEF Lookup, RpcUnavailable, files, process
  <2>2. \/ rpc' = Answer(c, "OK", here, 0, NoWrite)
        \/ rpc' = Answer(c, "UNAVAILABLE", EmptyHandle, 0, NoWrite)
    BY <1>3 DEF Lookup, RpcUnavailable
  <2> QED BY <1>1, <2>1, <2>2, AnswerDurable
<1>4. ASSUME NEW c \in Clients, LoseRpc(c)
      PROVE  DurableInv'
  <2>1. /\ UNCHANGED <<content, disk, landed, bad>>
        /\ rpc' = Answer(c, "UNAVAILABLE", EmptyHandle, 0, NoWrite)
        /\ \A h \in Handlers : hd'[h] = hd[h] \/ hd'[h] = [hd[h] EXCEPT !.c = "orphan"]
    BY <1>4 DEF LoseRpc, files
  <2> QED BY <1>1, <2>1, AnswerDurable
<1>5. ASSUME NEW k \in DOMAIN aio, AioRun(k)
      PROVE  DurableInv'
  BY <1>5, AioDurable
<1>6. CASE Replace \/ RunServer
  <2>1. UNCHANGED <<content, disk, landed, bad, hd, rpc>>
    BY <1>6 DEF Replace, RunServer, process, files
  <2> QED BY <1>1, <2>1, StillDurable, DurableParts
<1>7. CASE ServerCrash
  <2>1. Exit /\ UNCHANGED <<content, disk, landed, bad>>
    BY <1>7 DEF ServerCrash, files
  <2>2. FilesDurable(content', disk', landed') /\ DiskKept
    BY <1>1, <2>1, SameFiles
  <2> QED BY <1>1, <2>1, <2>2, ExitDurable
<1>8. CASE PowerLoss
  <2>1. Exit
    BY <1>8 DEF PowerLoss
  <2>2. FilesDurable(content', disk', landed') /\ DiskKept
    BY <1>1, <1>8, PowerLossFiles
  <2> QED BY <1>1, <2>1, <2>2, ExitDurable
<1> QED BY <1>2, <1>3, <1>4, <1>5, <1>6, <1>7, <1>8 DEF ServerStep

-----------------------------------------------------------------------------
(* The steps of the clients.                                               *)

LEMMA AskDurable ==
  ASSUME FInv, DurableInv, NEW c \in Clients, UNCHANGED <<files, process, landed, bad>>,
         NEW op, Ask(c, op)
  PROVE  DurableInv'
<1>1. rpc \in [Clients -> Rpc]
  BY Parts DEF CallsOK
<1>2. \A d \in Clients : RpcDurable(rpc'[d], disk, bad, landed)
  <2>1. rpc'[c].n = 0 /\ \A d \in Clients \ {c} : rpc'[d] = rpc[d]
    BY <1>1 DEF Ask, NoRpc
  <2> QED BY <2>1, DurableParts DEF RpcDurable
<1>3. UNCHANGED <<content, disk, landed, bad, hd, acked>>
  BY DEF files, process, Ask, clientVars
<1> QED BY <1>2, <1>3, StillDurable, DurableParts

\* A callback ends, or starts over.
LEMMA EndDurable ==
  ASSUME FInv, DurableInv, NEW c \in Clients, UNCHANGED <<files, process, landed, bad>>,
         rpc' = [rpc EXCEPT ![c] = NoRpc] \/ rpc' = rpc,
         \A a \in acked' \ acked : AckDurable(a, disk, bad, landed)
  PROVE  DurableInv'
<1>1. rpc \in [Clients -> Rpc]
  BY Parts DEF CallsOK
<1>2. \A d \in Clients : RpcDurable(rpc'[d], disk, bad, landed)
  BY <1>1, DurableParts DEF RpcDurable, NoRpc
<1>3. UNCHANGED <<content, disk, landed, bad, hd>>
  BY DEF files, process
<1>4. \A a \in acked' : AckDurable(a, disk, bad, landed)
  BY DurableParts
<1> QED BY <1>2, <1>3, <1>4, StillDurable, DurableParts

\* The client counts a write as acknowledged when the reply says that all of it
\* was written.
LEMMA writeDurable ==
  ASSUME FInv, DurableInv, NEW c \in Clients, UNCHANGED <<files, process, landed, bad>>, write(c)
  PROVE  DurableInv'
<1> DEFINE a == [c |-> c, w |-> app[c].w, fh |-> handle[c], off |-> app[c].off]
<1>1. CASE Stale(c)
  BY <1>1, EndDurable DEF Stale
<1>2. CASE Answered(c) /\ Done(c) /\ acked' = IF rpc[c].n = 1 THEN acked \cup {a} ELSE acked
  <2>1. rpc' = [rpc EXCEPT ![c] = NoRpc]
    BY <1>2 DEF Done
  <2>2. ASSUME rpc[c].n = 1, c \in SyncClients
        PROVE  DurableIn(a, disk, bad, landed)
    <3>1. app[c].todo # <<>> /\ Head(app[c].todo) = "write" /\ rpc[c].st = "replied"
      BY <1>2 DEF write, Running, Answered, Replied
    <3>2. rpc[c].op = "Write"
      BY <2>2, <3>1, AtCallback DEF RpcShape, OpOf, Write_File
    <3>3. rpc[c].fh = a.fh /\ rpc[c].off = a.off /\ rpc[c].w = a.w
      BY <3>1, <3>2, AtCallback DEF RpcShape
    <3>4. DurableIn(rpc[c], disk, bad, landed)
      BY <2>2, <3>2, DurableParts DEF RpcDurable
    <3> HIDE DEF a
    <3> QED BY <3>3, <3>4, SameRequest
  <2>3. a.c = c
    OBVIOUS
  <2> HIDE DEF a
  <2>4. \A b \in acked' \ acked : AckDurable(b, disk, bad, landed)
    BY <1>2, <2>2, <2>3 DEF AckDurable
  <2> QED BY <2>1, <2>4, EndDurable
<1>3. CASE \E op : Ask(c, op)
  BY <1>3, AskDurable
<1> QED BY <1>1, <1>2, <1>3 DEF write

LEMMA ClientStepDurable ==
  ASSUME FInv, DurableInv, NEW c \in Clients, UNCHANGED <<files, process, landed, bad>>,
         ClientStep(c)
  PROVE  DurableInv'
<1>1. CASE SysCall(c) \/ SysReturn(c)
  BY <1>1, EndDurable DEF SysCall, SysReturn
<1>2. CASE open(c) \/ read(c) \/ fsync(c)
  <2>1. CASE \E op : Ask(c, op)
    BY <2>1, AskDurable
  <2>2. CASE acked' = acked /\ (Done(c) \/ Stale(c))
    BY <2>2, EndDurable DEF Done, Stale
  <2> QED BY <1>2, <2>1, <2>2 DEF open, read, fsync, Stale
<1> QED BY <1>1, <1>2, writeDurable DEF ClientStep

LEMMA NextDurable ==
  ASSUME FInv, OnceInv, DurableInv, [Next]_vars
  PROVE  DurableInv'
<1>1. CASE ServerStep /\ UNCHANGED clientVars
  BY <1>1, ServerStepDurable
<1>2. ASSUME NEW c \in Clients, ClientStep(c),
             UNCHANGED <<files, process, faults, landed, bad>>
      PROVE  DurableInv'
  BY <1>2, ClientStepDurable
<1>3. CASE UNCHANGED vars
  <2>1. UNCHANGED <<content, disk, landed, bad, hd, rpc, acked>>
    BY <1>3 DEF vars, serverVars, clientVars
  <2> QED BY <2>1, StillDurable, DurableParts
<1> QED BY <1>1, <1>2, <1>3 DEF Next

LEMMA InitDurable == Init => DurableInv
<1> SUFFICES ASSUME Init PROVE DurableInv
  OBVIOUS
<1>1. FilesDurable(content, disk, landed)
  BY DEF Init, ServerInit, FilesDurable
<1>2. \A h \in Handlers : HandlerDurable(hd[h], content, disk, bad, landed)
  BY DEF Init, ServerInit, HandlerDurable, Idle
<1>3. \A c \in Clients : RpcDurable(rpc[c], disk, bad, landed)
  BY DEF Init, ServerInit, RpcDurable, NoRpc
<1>4. acked = {}
  BY DEF Init
<1> QED BY <1>1, <1>2, <1>3, <1>4, DurableParts

LEMMA DurableCovers ==
  ASSUME FInv, DurableInv
  PROVE  SyncWritesDurable
<1>1. landed \in Log /\ acked \subseteq Acked
  BY Parts DEF FilesOK, ClientsOK, Log
<1>2. ASSUME NEW a \in acked, a.c \in SyncClients, a.off < 2 * Int32Blocks, a.fh \notin bad
      PROVE  Reached(a.w, <<a.fh, a.off>>, disk[<<a.fh, a.off>>])
  <2>1. Under(landed, a.w, Target(a), disk[Target(a)])
    BY <1>2, DurableParts DEF AckDurable, DurableIn
  <2>2. a.off \in Offsets /\ Target(a) \in Cells
    BY <1>1, <2>1, UnderType DEF Acked
  <2>3. Int32(a.off) >= 0
    BY <2>2 DEF Target, Cells, Blocks
  <2>4. Target(a) = <<a.fh, a.off>>
    BY <1>2, <2>2, <2>3, Int32Exact DEF Target
  <2> QED BY <2>1, <2>4, ReachedUnder
<1> QED BY <1>2 DEF SyncWritesDurable

\* What a synchronous Write acknowledged is on the disk of the file, at its
\* offset or under a later write, whatever crashes or is lost afterwards, unless
\* an fsync of that file failed, which Write does not look at.
THEOREM SyncWritesSurvive == Spec => []SyncWritesDurable
<1> DEFINE I == FInv /\ DownInv /\ OnceInv /\ DurableInv
<1>1. Init => I
  BY InitFInv, InitOnce, InitDurable DEF Init, ServerInit, DownInv
<1>2. I /\ [Next]_vars => I'
  BY NextFInv, NextOnce, NextDurable
<1>3. I => SyncWritesDurable
  BY DurableCovers
<1> QED BY <1>1, <1>2, <1>3, PTL DEF Spec
=============================================================================
