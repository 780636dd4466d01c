--------------------------- MODULE NFS_Write_proofs ---------------------------
(***************************************************************************)
(* The writes of applications, for all values of the constants: a write is *)
(* executed at most once, because it is always in one place, still to be   *)
(* sent, with a handler, in the queue of aio or in the file (OnceInv).     *)
(***************************************************************************)
EXTENDS NFS_File_IO_proofs

-----------------------------------------------------------------------------
(* Places.                                                                 *)

LEMMA PlaceMembers ==
  ASSUME NEW w
  PROVE  /\ \A c \in Clients : ToSend(c) /\ app[c].w = w => <<"client", c>> \in Places(w)
         /\ \A h \in Handlers : Carrying(h) /\ hd[h].w = w => <<"handler", h>> \in Places(w)
         /\ \A j \in DOMAIN aio : aio[j].w = w => <<"aio", j>> \in Places(w)
         /\ \A j \in DOMAIN landed : landed[j].w = w => <<"file", j>> \in Places(w)
  BY DEF Places

\* Where nothing new comes, what is left was there.
LEMMA PlacesShrink ==
  ASSUME NEW w,
         \A c \in Clients : ToSend(c)' /\ app'[c].w = w => ToSend(c) /\ app[c].w = w,
         \A h \in Handlers : Carrying(h)' /\ hd'[h].w = w => Carrying(h) /\ hd[h].w = w,
         \A j \in DOMAIN aio' : aio'[j].w = w => j \in DOMAIN aio /\ aio[j].w = w,
         \A j \in DOMAIN landed' : landed'[j].w = w => j \in DOMAIN landed /\ landed[j].w = w
  PROVE  Places(w)' \subseteq Places(w)
  BY DEF Places

\* Write w moves from place x to place y, the others stay or vanish.
LEMMA PlacesMove ==
  ASSUME \A v \in Writes : OnePlace(v), issued' = issued, NEW w \in Writes, NEW x \in Places(w), NEW y,
         \A v \in Writes \ {w} : Places(v)' \subseteq Places(v),
         Places(w)' \subseteq (Places(w) \ {x}) \cup {y}
  PROVE  \A v \in Writes : OnePlace(v)'
<1>1. OnePlace(w)'
  <2>1. Places(w) = {x} /\ w \in issued
    BY DEF OnePlace
  <2> QED BY <2>1 DEF OnePlace
<1>2. ASSUME NEW v \in Writes \ {w}
      PROVE  OnePlace(v)'
  BY DEF OnePlace
<1> QED BY <1>1, <1>2

\* Nothing moves.
LEMMA PlacesStay ==
  ASSUME \A v \in Writes : OnePlace(v), issued \subseteq issued',
         \A v \in Writes : Places(v)' \subseteq Places(v)
  PROVE  \A v \in Writes : OnePlace(v)'
  BY DEF OnePlace

-----------------------------------------------------------------------------
(* The steps of the server: the applications stand still.                  *)

LEMMA WritingSame ==
  ASSUME OnceInv, UNCHANGED clientVars, \A w \in Writes : OnePlace(w)'
  PROVE  OnceInv'
<1>1. \A c \in Clients : (Writing(c)' <=> Writing(c)) /\ app'[c] = app[c] /\ issued' = issued
  BY DEF Writing, clientVars
<1> QED BY <1>1 DEF OnceInv

\* No write goes on.
LEMMA OnceStay ==
  ASSUME OnceInv, UNCHANGED <<clientVars, landed>>,
         \A c \in Clients : ToSend(c)' => ToSend(c),
         \A h \in Handlers : Carrying(h)' => Carrying(h) /\ hd'[h].w = hd[h].w,
         \A j \in DOMAIN aio' : j \in DOMAIN aio /\ aio'[j] = aio[j]
  PROVE  OnceInv'
<1>1. app' = app /\ issued' = issued /\ landed' = landed
  BY DEF clientVars
<1>2. ASSUME NEW v \in Writes
      PROVE  Places(v)' \subseteq Places(v)
  <2>1. \A c \in Clients : ToSend(c)' /\ app'[c].w = v => ToSend(c) /\ app[c].w = v
    BY <1>1
  <2>2. \A h \in Handlers : Carrying(h)' /\ hd'[h].w = v => Carrying(h) /\ hd[h].w = v
    OBVIOUS
  <2>3. \A j \in DOMAIN aio' : aio'[j].w = v => j \in DOMAIN aio /\ aio[j].w = v
    OBVIOUS
  <2>4. \A j \in DOMAIN landed' : landed'[j].w = v => j \in DOMAIN landed /\ landed[j].w = v
    BY <1>1
  <2> QED BY <2>1, <2>2, <2>3, <2>4, PlacesShrink
<1>3. (\A v \in Writes : OnePlace(v)) /\ issued \subseteq issued'
  BY <1>1 DEF OnceInv
<1>4. \A v \in Writes : OnePlace(v)'
  BY <1>2, <1>3, PlacesStay
<1> QED BY <1>4, WritingSame

\* A write that is with a client is not with a handler.
LEMMA ToSendSame ==
  ASSUME NEW c \in Clients, app' = app, rpc' = rpc,
         \A h \in Handlers : hd[h].c = c => hd'[h].c = c
  PROVE  ToSend(c)' => ToSend(c)
  BY DEF ToSend, Writing

\* A handler goes on without making the write that it carries.
LEMMA GoOnOnce ==
  ASSUME CallsOK, OnceInv, UNCHANGED <<clientVars, landed, aio, rpc>>, NEW h \in Handlers,
         \A g \in Handlers \ {h} : hd'[g] = hd[g],
         hd'[h].c = hd[h].c, hd'[h].w = hd[h].w, Carrying(h)' => Carrying(h)
  PROVE  OnceInv'
<1>1. app' = app /\ aio' = aio /\ rpc' = rpc
  BY DEF clientVars
<1>2. \A c \in Clients : ToSend(c)' => ToSend(c)
  <2>1. \A g \in Handlers : hd'[g].c = hd[g].c
    OBVIOUS
  <2> QED BY <1>1, <2>1, ToSendSame
<1>3. ASSUME NEW g \in Handlers
      PROVE  Carrying(g)' => Carrying(g) /\ hd'[g].w = hd[g].w
  BY DEF Carrying
<1> QED BY <1>1, <1>2, <1>3, OnceStay

LEMMA ReturnOnce ==
  ASSUME FInv, OnceInv, UNCHANGED <<clientVars, landed, aio>>, NEW h \in Handlers,
         hd[h].pc # "idle", NEW status \in Statuses, Return(h, status),
         status = "INVALID_ARGUMENT" => hd[h].pc = "open"
  PROVE  OnceInv'
<1>1. /\ CallsOK /\ ClientsOK /\ hd \in [Handlers -> Handler] /\ hd[h] \in Handler
      /\ HandlerShape(hd[h]) /\ Linked(h) /\ rpc \in [Clients -> Rpc] /\ app' = app /\ aio' = aio
  BY Parts DEF CallsOK, clientVars
<1>2. hd'[h] = Idle /\ \A g \in Handlers \ {h} : hd'[g] = hd[g]
  BY <1>1 DEF Return
<1>3. /\ \A g \in Handlers \ {h} : Carrying(g)' => Carrying(g) /\ hd'[g].w = hd[g].w
      /\ ~Carrying(h)'
  BY <1>2 DEF Carrying, Idle
<1>4. CASE hd[h].c \notin Clients
  <2>1. rpc' = rpc
    BY <1>1, <1>4 DEF Return, HandlerShape, Handler
  <2>2. \A c \in Clients : ToSend(c)' => ToSend(c)
    <3>1. \A c \in Clients : \A g \in Handlers : hd[g].c = c => hd'[g].c = c
      BY <1>2, <1>4
    <3> QED BY <1>1, <2>1, <3>1, ToSendSame
  <2> QED BY <1>1, <1>3, <2>2, OnceStay
<1>5. CASE hd[h].c \in Clients
  <2>0. PICK c \in Clients : c = hd[h].c
    BY <1>5
  <2>1. /\ rpc[c].st = "sent" /\ rpc[c].op = hd[h].op /\ rpc[c].w = hd[h].w
        /\ \A g \in Handlers \ {h} : hd[g].c # c
    BY <1>1, <2>0 DEF Linked
  <2>2. rpc' = Answer(c, status, hd[h].fh, hd[h].n, hd[h].v)
    BY <2>0, NotClients DEF Return
  <2>3. /\ \A d \in Clients \ {c} : rpc'[d] = rpc[d]
        /\ rpc'[c].op = rpc[c].op /\ rpc'[c].st = "replied" /\ rpc'[c].status = status
    <3>1. rpc[c] \in Rpc
      BY <1>1
    <3> QED BY <1>1, <2>2, <3>1 DEF Answer, Rpc
  <2>4. ASSUME NEW d \in Clients \ {c}
        PROVE  ToSend(d)' => ToSend(d)
    <3>1. \A g \in Handlers : hd[g].c = d => hd'[g].c = d
      BY <1>2, <2>0
    <3> QED BY <1>1, <2>3, <3>1 DEF ToSend, Writing
  <2>5. CASE ~(status = "INVALID_ARGUMENT" /\ hd[h].op \in WriteOps)
    <3>1. ToSend(c)' => ToSend(c)
      BY <1>1, <2>1, <2>3, <2>5 DEF ToSend, Writing
    <3>2. \A d \in Clients : ToSend(d)' => ToSend(d)
      BY <2>4, <3>1
    <3> QED BY <1>1, <1>3, <3>2, OnceStay
  <2>6. CASE status = "INVALID_ARGUMENT" /\ hd[h].op \in WriteOps
    <3>1. Carrying(h) /\ hd[h].w \in Writes
      BY <1>1, <2>6 DEF Carrying, HandlerShape
    <3>1a. PICK w \in Writes : w = hd[h].w
      BY <3>1
    <3>2. app[c].w = w
      BY <1>1, <2>1, <2>6, <3>1a, SentWrite
    <3> DEFINE x == <<"handler", h>>
    <3> DEFINE y == <<"client", c>>
    <3>3. x \in Places(w)
      BY <3>1, <3>1a, PlaceMembers
    <3>4. ASSUME NEW v \in Writes, NEW z \in Places(v)'
          PROVE  z # x /\ (z \in Places(v) \/ (z = y /\ v = w))
      BY <1>1, <1>3, <2>4, <3>2 DEF Places
    <3> HIDE DEF x, y
    <3>5. \A v \in Writes : OnePlace(v)'
      <4>1. \A v \in Writes \ {w} : Places(v)' \subseteq Places(v)
        BY <3>4
      <4>2. Places(w)' \subseteq (Places(w) \ {x}) \cup {y}
        BY <3>1, <3>4
      <4>3. (\A v \in Writes : OnePlace(v)) /\ issued' = issued
        BY DEF OnceInv, clientVars
      <4> QED BY <3>1, <3>3, <4>1, <4>2, <4>3, PlacesMove
    <3> QED BY <3>5, WritingSame
  <2> QED BY <2>5, <2>6
<1> QED BY <1>4, <1>5

LEMMA ExitOnce ==
  ASSUME CallsOK, OnceInv, UNCHANGED <<clientVars, landed>>, Exit
  PROVE  OnceInv'
<1>1. ASSUME NEW c \in Clients, ToSend(c)'
      PROVE  ToSend(c)
  <2>1. rpc[c] \in Rpc /\ app' = app
    BY DEF CallsOK, clientVars
  <2>2. CASE rpc[c].st = "sent"
    <3>1. rpc'[c] = [rpc[c] EXCEPT !.st = "replied", !.status = "UNAVAILABLE"]
      BY <2>2 DEF Exit
    <3>2. rpc'[c].st = "replied" /\ rpc'[c].status = "UNAVAILABLE" /\ rpc'[c].op = rpc[c].op
      BY <2>1, <3>1 DEF Rpc
    <3> QED BY <1>1, <2>1, <3>2 DEF ToSend, Writing
  <2>3. CASE rpc[c].st # "sent"
    <3>1. rpc'[c] = rpc[c]
      BY <2>3 DEF Exit
    <3> QED BY <1>1, <2>1, <2>3, <3>1 DEF ToSend, Writing
  <2> QED BY <2>2, <2>3
<1>2. \A h \in Handlers : ~Carrying(h)'
  BY DEF Exit, Carrying, Idle
<1>3. DOMAIN aio' = {}
  <2>1. aio' = <<>>
    BY DEF Exit
  <2> QED BY <2>1
<1> QED BY <1>1, <1>2, <1>3, OnceStay

\* A handler takes a call; if it is a write, it goes from the client to it.
LEMMA TakeOnce ==
  ASSUME FInv, OnceInv, UNCHANGED <<clientVars, landed, aio, rpc>>,
         NEW h \in Handlers, NEW c \in Clients, Arrived(c),
         \A g \in Handlers \ {h} : hd'[g] = hd[g], hd[h].pc = "idle",
         hd'[h].c = c, hd'[h].op = rpc[c].op, hd'[h].w = rpc[c].w
  PROVE  OnceInv'
<1>1. /\ CallsOK /\ ClientsOK /\ app' = app /\ aio' = aio /\ rpc' = rpc /\ issued' = issued
      /\ landed' = landed /\ rpc[c].st = "sent" /\ \A g \in Handlers : hd[g].c # c
  BY Parts DEF clientVars, Arrived
<1>2. ASSUME NEW d \in Clients
      PROVE  ToSend(d)' => ToSend(d)
  <2>1. \A g \in Handlers : hd[g].c = d => hd'[g].c = d
    <3>1. hd[h] = Idle
      BY <1>1 DEF CallsOK, HandlerShape
    <3> QED BY <3>1, NotClients DEF Idle
  <2> QED BY <1>1, <2>1, ToSendSame
<1>3. \A g \in Handlers \ {h} : Carrying(g)' => Carrying(g) /\ hd'[g].w = hd[g].w
  BY DEF Carrying
<1>4. CASE rpc[c].op \notin WriteOps
  <2>1. ~Carrying(h)'
    BY <1>4 DEF Carrying
  <2> QED BY <1>1, <1>2, <1>3, <2>1, OnceStay
<1>5. CASE rpc[c].op \in WriteOps
  <2>1. /\ Head(app[c].todo) = "write" /\ Len(app[c].todo) = 1 /\ app[c].todo # <<>>
        /\ app[c].w \in Writes /\ rpc[c].w = app[c].w /\ app[c] \in Application
    BY <1>1, <1>5, SentWrite DEF ClientsOK
  <2>2. PICK w \in Writes : w = app[c].w
    BY <2>1
  <2>3. ToSend(c)
    <3>1. 1 \in DOMAIN app[c].todo /\ app[c].todo[1] = "write"
      BY <2>1 DEF Application
    <3> QED BY <1>1, <3>1 DEF ToSend, Writing
  <2>4. ~ToSend(c)'
    BY <1>1, <1>5 DEF ToSend
  <2> DEFINE x == <<"client", c>>
  <2> DEFINE y == <<"handler", h>>
  <2>5. x \in Places(w)
    BY <2>2, <2>3, PlaceMembers
  <2>6. ASSUME NEW v \in Writes, NEW z \in Places(v)'
        PROVE  z # x /\ (z \in Places(v) \/ (z = y /\ v = w))
    BY <1>1, <1>2, <1>3, <2>1, <2>2, <2>4 DEF Places
  <2> HIDE DEF x, y
  <2>7. \A v \in Writes : OnePlace(v)'
    <3>1. \A v \in Writes \ {w} : Places(v)' \subseteq Places(v)
      BY <2>6
    <3>2. Places(w)' \subseteq (Places(w) \ {x}) \cup {y}
      BY <2>6
    <3>3. (\A v \in Writes : OnePlace(v)) /\ issued' = issued
      BY <1>1 DEF OnceInv
    <3> QED BY <2>5, <3>1, <3>2, <3>3, PlacesMove
  <2> QED BY <2>7, WritingSame
<1> QED BY <1>4, <1>5

\* A handler makes the write that it carries: in the file, or as a request.
LEMMA MakeOnce ==
  ASSUME FInv, OnceInv, UNCHANGED <<clientVars, rpc>>, NEW h \in Handlers, Carrying(h),
         NEW w \in Writes, w = hd[h].w,
         \A g \in Handlers \ {h} : hd'[g] = hd[g], hd'[h].c = hd[h].c, ~Carrying(h)',
         \/ aio' = aio /\ \E cell : landed' = Append(landed, [w |-> w, cell |-> cell])
         \/ landed' = landed /\ \E q : q.w = w /\ aio' = Append(aio, q)
  PROVE  OnceInv'
<1>1. /\ app' = app /\ rpc' = rpc /\ issued' = issued /\ FilesOK
  BY Parts DEF clientVars
<1>2. \A d \in Clients : ToSend(d)' => ToSend(d)
  <2>1. \A g \in Handlers : hd'[g].c = hd[g].c
    OBVIOUS
  <2> QED BY <1>1, <2>1, ToSendSame
<1>3. \A g \in Handlers \ {h} : Carrying(g)' => Carrying(g) /\ hd'[g].w = hd[g].w
  BY DEF Carrying
<1> DEFINE x == <<"handler", h>>
<1>4. x \in Places(w)
  BY PlaceMembers
<1>5. ASSUME NEW y,
             \A v \in Writes : \A z \in Places(v)' : z # x /\ (z \in Places(v) \/ (z = y /\ v = w))
      PROVE  OnceInv'
  <2> HIDE DEF x
  <2>1. \A v \in Writes \ {w} : Places(v)' \subseteq Places(v)
    BY <1>5
  <2>2. Places(w)' \subseteq (Places(w) \ {x}) \cup {y}
    BY <1>5
  <2>3. (\A v \in Writes : OnePlace(v)) /\ issued' = issued
    BY <1>1 DEF OnceInv
  <2>4. \A v \in Writes : OnePlace(v)'
    BY <1>4, <2>1, <2>2, <2>3, PlacesMove
  <2> QED BY <2>4, WritingSame
<1>6. ASSUME aio' = aio, NEW cell, landed' = Append(landed, [w |-> w, cell |-> cell])
      PROVE  OnceInv'
  <2> DEFINE n == Len(landed) + 1
  <2>1. \A j \in DOMAIN landed' : (j \in DOMAIN landed /\ landed'[j] = landed[j])
                                  \/ (j = n /\ landed'[j].w = w)
    BY <1>1, <1>6 DEF FilesOK
  <2> DEFINE y == <<"file", n>>
  <2> HIDE DEF n
  <2>2. ASSUME NEW v \in Writes, NEW z \in Places(v)'
        PROVE  z # x /\ (z \in Places(v) \/ (z = y /\ v = w))
    BY <1>1, <1>2, <1>3, <1>6, <2>1 DEF Places
  <2> HIDE DEF x, y
  <2> QED BY <1>5, <2>2
<1>7. ASSUME landed' = landed, NEW q, q.w = w, aio' = Append(aio, q)
      PROVE  OnceInv'
  <2> DEFINE n == Len(aio) + 1
  <2>1. \A j \in DOMAIN aio' : (j \in DOMAIN aio /\ aio'[j] = aio[j])
                               \/ (j = n /\ aio'[j].w = w)
    BY <1>1, <1>7 DEF FilesOK
  <2> DEFINE y == <<"aio", n>>
  <2> HIDE DEF n
  <2>2. ASSUME NEW v \in Writes, NEW z \in Places(v)'
        PROVE  z # x /\ (z \in Places(v) \/ (z = y /\ v = w))
    BY <1>1, <1>2, <1>3, <1>7, <2>1 DEF Places
  <2> HIDE DEF x, y
  <2> QED BY <1>5, <2>2
<1> QED BY <1>6, <1>7

\* An aio thread takes a request from the queue; the others move up.
LEMMA AioOnce ==
  ASSUME FInv, OnceInv, UNCHANGED clientVars, NEW k \in DOMAIN aio, AioRun(k)
  PROVE  OnceInv'
<1> DEFINE n == Len(landed) + 1
<1> DEFINE s(j) == IF j < k THEN j ELSE j + 1
<1>1. /\ app' = app /\ rpc' = rpc /\ hd' = hd /\ issued' = issued /\ aio' = RemoveAt(aio, k)
      /\ FilesOK
  BY Parts DEF clientVars, AioRun
<1>2. PICK w \in Writes : w = aio[k].w
  <2> DEFINE Q == [fd : Fds, off : Int, w : Writes]
  <2>1. aio \in Seq(Q)
    BY <1>1 DEF FilesOK
  <2>2. aio[k] \in Q
    <3> HIDE DEF Q
    <3> QED BY <2>1
  <2> QED BY <2>2
<1>3. /\ \A j \in DOMAIN aio' : s(j) \in DOMAIN aio /\ s(j) # k /\ aio'[j] = aio[s(j)]
      /\ \A i, j \in DOMAIN aio' : s(i) = s(j) => i = j
  <2> DEFINE Q == [fd : Fds, off : Int, w : Writes]
  <2>1. aio \in Seq(Q)
    BY <1>1 DEF FilesOK
  <2> HIDE DEF Q
  <2>2. k \in 1..Len(aio) /\ Len(aio) \in Nat
    BY <2>1
  <2>3. /\ aio' \in Seq(Q) /\ Len(aio') = Len(aio) - 1
        /\ \A j \in 1..(Len(aio) - 1) : aio'[j] = aio[s(j)]
    BY <1>1, <2>1, <2>2, RemoveAtProperties
  <2>4. DOMAIN aio' = 1..(Len(aio) - 1) /\ DOMAIN aio = 1..Len(aio)
    BY <2>1, <2>3
  <2>5. \A j \in 1..(Len(aio) - 1) : s(j) \in 1..Len(aio) /\ s(j) # k
    BY <2>2
  <2>6. \A i, j \in 1..(Len(aio) - 1) : s(i) = s(j) => i = j
    BY <2>2
  <2> HIDE DEF s
  <2> QED BY <2>3, <2>4, <2>5, <2>6
<1>4. \A j \in DOMAIN landed' : (j \in DOMAIN landed /\ landed'[j] = landed[j])
                                \/ (j = n /\ landed'[j].w = w)
  <2>1. CASE UNCHANGED landed
    BY <2>1
  <2>2. CASE ~UNCHANGED landed
    <3>1. PICK x : landed' = Append(landed, [w |-> w, cell |-> x])
      BY <1>2, <2>2 DEF AioRun, Land
    <3> QED BY <1>1, <3>1 DEF FilesOK
  <2> QED BY <2>1, <2>2
<1> HIDE DEF n, s
<1>5. ASSUME NEW c \in Clients
      PROVE  ToSend(c)' <=> ToSend(c)
  BY <1>1 DEF ToSend, Writing
<1>6. ASSUME NEW v \in Writes, NEW z \in Places(v)'
      PROVE  \/ z = <<"file", n>> /\ v = w
             \/ \E j \in DOMAIN aio' : z = <<"aio", j>> /\ <<"aio", s(j)>> \in Places(v)
             \/ z \in Places(v) /\ z[1] # "aio"
  <2>1. CASE \E c \in Clients : z = <<"client", c>> /\ ToSend(c)' /\ app'[c].w = v
    BY <1>1, <1>5, <2>1, PlaceMembers
  <2>2. CASE \E h \in Handlers : z = <<"handler", h>> /\ Carrying(h)' /\ hd'[h].w = v
    BY <1>1, <2>2, PlaceMembers DEF Carrying
  <2>3. CASE \E j \in DOMAIN aio' : z = <<"aio", j>> /\ aio'[j].w = v
    BY <1>3, <2>3, PlaceMembers
  <2>4. CASE \E j \in DOMAIN landed' : z = <<"file", j>> /\ landed'[j].w = v
    BY <1>4, <2>4, PlaceMembers
  <2> QED BY <2>1, <2>2, <2>3, <2>4 DEF Places
<1>7. ASSUME NEW v \in Writes
      PROVE  OnePlace(v)'
  <2>1. OnePlace(v)
    BY DEF OnceInv
  <2>2. CASE v = w
    <3>1. Places(w) = {<<"aio", k>>} /\ w \in issued
      BY <1>2, <2>1, <2>2, PlaceMembers DEF OnePlace
    <3>2. \A j \in DOMAIN aio' : <<"aio", s(j)>> \notin Places(v)
      BY <1>3, <2>2, <3>1
    <3>3. \A z \in Places(v) : z[1] = "aio"
      BY <2>2, <3>1
    <3>4. \A z \in Places(v)' : z = <<"file", n>>
      BY <1>6, <3>2, <3>3
    <3> QED BY <1>1, <2>2, <3>1, <3>4 DEF OnePlace
  <2>3. CASE v # w
    <3>1. ASSUME NEW x \in Places(v)', NEW y \in Places(v)'
          PROVE  x = y
      <4>1. CASE x \in Places(v) /\ x[1] # "aio"
        <5>1. \A j \in DOMAIN aio' : <<"aio", s(j)>> \notin Places(v)
          BY <2>1, <4>1 DEF OnePlace
        <5>2. y \in Places(v)
          BY <1>6, <2>3, <5>1
        <5> QED BY <2>1, <4>1, <5>2 DEF OnePlace
      <4>2. ASSUME NEW i \in DOMAIN aio', x = <<"aio", i>>, <<"aio", s(i)>> \in Places(v)
            PROVE  x = y
        <5>1. y \notin Places(v) \/ y[1] = "aio"
          BY <2>1, <4>2 DEF OnePlace
        <5>2. PICK j \in DOMAIN aio' : y = <<"aio", j>> /\ <<"aio", s(j)>> \in Places(v)
          BY <1>6, <2>3, <5>1
        <5>3. s(i) = s(j)
          BY <2>1, <4>2, <5>2 DEF OnePlace
        <5> QED BY <1>3, <4>2, <5>2, <5>3
      <4> QED BY <1>6, <2>3, <4>1, <4>2
    <3>2. Places(v)' # {} => Places(v) # {}
      BY <1>6, <2>3
    <3> QED BY <1>1, <2>1, <3>1, <3>2 DEF OnePlace
  <2> QED BY <2>2, <2>3
<1> QED BY <1>7, WritingSame

LEMMA ServeOnce ==
  ASSUME FInv, OnceInv, UNCHANGED clientVars, NEW h \in Handlers, Serve(h)
  PROVE  OnceInv'
<1>1. /\ FilesOK /\ TableOK /\ CallsOK /\ hd \in [Handlers -> Handler] /\ hd[h] \in Handler
      /\ HandlerShape(hd[h])
  BY Parts DEF CallsOK
<1>2. ASSUME NEW c \in Clients, open_mount_path_by_id(h, c)
      PROVE  OnceInv'
  <2> DEFINE k == [Idle EXCEPT !.pc = "open", !.c = c, !.op = rpc[c].op, !.fh = rpc[c].fh,
                               !.off = rpc[c].off, !.w = rpc[c].w]
  <2>1. Arrived(c) /\ hd[h].pc = "idle" /\ UNCHANGED landed
    BY <1>2 DEF open_mount_path_by_id
  <2>2. CASE Exit
    BY <1>1, <2>1, <2>2, ExitOnce
  <2>3. ASSUME NEW j, hd' = [hd EXCEPT ![h] = j], j.c = c, j.op = rpc[c].op, j.w = rpc[c].w,
               UNCHANGED <<aio, rpc>>
        PROVE  OnceInv'
    <3>1. hd'[h] = j /\ \A g \in Handlers \ {h} : hd'[g] = hd[g]
      BY <1>1, <2>3
    <3> QED BY <2>1, <2>3, <3>1, TakeOnce
  <2>4. k.c = c /\ k.op = rpc[c].op /\ k.w = rpc[c].w
    BY DEF Idle
  <2> DEFINE i == [k EXCEPT !.mount_fd = Lowest]
  <2>5. i.c = c /\ i.op = rpc[c].op /\ i.w = rpc[c].w
    BY DEF Idle
  <2>6. \/ Exit
        \/ hd' = [hd EXCEPT ![h] = k] /\ UNCHANGED <<aio, rpc>>
        \/ hd' = [hd EXCEPT ![h] = i] /\ UNCHANGED <<aio, rpc>>
    BY <1>2 DEF open_mount_path_by_id
  <2> HIDE DEF i, k
  <2> QED BY <2>2, <2>3, <2>4, <2>5, <2>6
<1>3. CASE open_by_handle_at(h)
  <2>1. hd[h].pc = "open" /\ UNCHANGED <<landed, aio>>
    BY <1>3 DEF open_by_handle_at
  <2>2. ASSUME NEW status \in Statuses, FailedOpen(h, status)
        PROVE  OnceInv'
    BY <2>1, <2>2, ReturnOnce DEF FailedOpen
  <2>3. CASE hd' = [hd EXCEPT ![h].fd = Lowest, ![h].pc = "io"] /\ rpc' = rpc
    <3>1. /\ \A g \in Handlers \ {h} : hd'[g] = hd[g]
          /\ hd'[h] = [hd[h] EXCEPT !.fd = Lowest, !.pc = "io"]
      BY <1>1, <2>3
    <3>2. hd'[h].c = hd[h].c /\ hd'[h].w = hd[h].w /\ hd'[h].op = hd[h].op
      BY <1>1, <3>1 DEF Handler
    <3>3. Carrying(h)' => Carrying(h)
      BY <2>1, <3>2 DEF Carrying
    <3> QED BY <1>1, <2>1, <2>3, <3>1, <3>2, <3>3, GoOnOnce
  <2> QED BY <1>3, <2>2, <2>3 DEF open_by_handle_at, Statuses
<1>4. ASSUME UNCHANGED <<rpc>>, hd[h].pc \in {"io", "sync", "close"},
             NEW k, hd' = [hd EXCEPT ![h] = k], k.c = hd[h].c, k.w = hd[h].w,
             k.pc \in {"sync", "close", "close2"}
      PROVE  /\ UNCHANGED <<landed, aio>> => OnceInv'
             /\ Carrying(h) /\ (\E x : landed' = Append(landed, [w |-> hd[h].w, cell |-> x]))
                /\ UNCHANGED aio => OnceInv'
             /\ Carrying(h) /\ (\E q : q.w = hd[h].w /\ aio' = Append(aio, q))
                /\ UNCHANGED landed => OnceInv'
  <2>1. hd'[h] = k /\ \A g \in Handlers \ {h} : hd'[g] = hd[g]
    BY <1>1, <1>4
  <2>2. ~Carrying(h)'
    BY <1>4, <2>1 DEF Carrying
  <2>3. CASE UNCHANGED <<landed, aio>>
    BY <1>1, <1>4, <2>1, <2>2, <2>3, GoOnOnce
  <2>4. CASE Carrying(h)
    <3>1. PICK w \in Writes : w = hd[h].w
      BY <1>1, <2>4 DEF Carrying, HandlerShape
    <3> QED BY <1>4, <2>1, <2>2, <2>3, <2>4, <3>1, MakeOnce
  <2> QED BY <2>3, <2>4
<1>5. CASE Read(h)
  <2>1. hd[h].pc = "io" /\ UNCHANGED <<landed, aio>>
    BY <1>5 DEF Read, AtIO
  <2>2. CASE Return(h, "CANCELLED")
    BY <2>1, <2>2, ReturnOnce DEF Statuses
  <2>3. ASSUME NEW v, hd' = [hd EXCEPT ![h].pc = "close", ![h].v = v], rpc' = rpc
        PROVE  OnceInv'
    <3> DEFINE k == [hd[h] EXCEPT !.pc = "close", !.v = v]
    <3>1. hd' = [hd EXCEPT ![h] = k] /\ k.c = hd[h].c /\ k.w = hd[h].w /\ k.pc = "close"
      BY <1>1, <2>3 DEF Handler
    <3> HIDE DEF k
    <3> QED BY <1>4, <2>1, <2>3, <3>1
  <2> QED BY <1>5, <2>2, <2>3 DEF Read
<1>6. ASSUME NEW pc \in {"sync", "close", "close2"}, hd[h].pc \in {"io", "sync", "close"},
             \/ hd' = [hd EXCEPT ![h].pc = pc]
             \/ \E n : hd' = [hd EXCEPT ![h].pc = pc, ![h].n = n]
      PROVE  \E k : /\ hd' = [hd EXCEPT ![h] = k] /\ k.c = hd[h].c /\ k.w = hd[h].w
                    /\ k.pc \in {"sync", "close", "close2"}
  <2>1. CASE hd' = [hd EXCEPT ![h].pc = pc]
    <3> DEFINE k == [hd[h] EXCEPT !.pc = pc]
    <3>1. hd' = [hd EXCEPT ![h] = k] /\ k.c = hd[h].c /\ k.w = hd[h].w /\ k.pc = pc
      BY <1>1, <2>1 DEF Handler
    <3> HIDE DEF k
    <3> QED BY <3>1
  <2>2. ASSUME NEW n, hd' = [hd EXCEPT ![h].pc = pc, ![h].n = n]
        PROVE  \E k : /\ hd' = [hd EXCEPT ![h] = k] /\ k.c = hd[h].c /\ k.w = hd[h].w
                      /\ k.pc \in {"sync", "close", "close2"}
    <3> DEFINE k == [hd[h] EXCEPT !.pc = pc, !.n = n]
    <3>1. hd' = [hd EXCEPT ![h] = k] /\ k.c = hd[h].c /\ k.w = hd[h].w /\ k.pc = pc
      BY <1>1, <2>2 DEF Handler
    <3> HIDE DEF k
    <3> QED BY <3>1
  <2> QED BY <1>6, <2>1, <2>2
<1>7. CASE Write(h) \/ WriteSync(h) \/ Fsync(h) \/ Write_Async(h)
  <2>1. hd[h].pc \in {"io", "sync"} /\ rpc' = rpc
    BY <1>7 DEF Write, WriteSync, Fsync, Write_Async, AtIO
  <2>2. PICK pc \in {"sync", "close"} :
          \/ hd' = [hd EXCEPT ![h].pc = pc]
          \/ \E n : hd' = [hd EXCEPT ![h].pc = pc, ![h].n = n]
    BY <1>7 DEF Write, WriteSync, Fsync, Write_Async, Goto
  <2>3. PICK k : /\ hd' = [hd EXCEPT ![h] = k] /\ k.c = hd[h].c /\ k.w = hd[h].w
                 /\ k.pc \in {"sync", "close", "close2"}
    BY <1>6, <2>1, <2>2
  <2>4. CASE UNCHANGED <<landed, aio>>
    BY <1>4, <2>1, <2>3, <2>4
  <2>5. CASE Write(h) /\ ~UNCHANGED landed
    <3>1. /\ UNCHANGED aio /\ Carrying(h)
          /\ \E x : landed' = Append(landed, [w |-> hd[h].w, cell |-> x])
      BY <2>5 DEF Write, Land, Carrying, AtIO, WriteOps
    <3> QED BY <1>4, <2>1, <2>3, <3>1
  <2>6. CASE Write_Async(h) /\ ~UNCHANGED aio
    <3>1. UNCHANGED landed /\ Carrying(h)
      BY <2>6 DEF Write_Async, Carrying, AtIO, WriteOps
    <3>2. aio' = Append(aio, [fd |-> hd[h].fd, off |-> Int32(hd[h].off), w |-> hd[h].w])
      BY <2>6 DEF Write_Async
    <3> QED BY <1>4, <2>1, <2>3, <3>1, <3>2
  <2> QED BY <1>7, <2>4, <2>5, <2>6 DEF Write, WriteSync, Fsync, Write_Async
<1>8. CASE Close(h)
  <2>1. hd[h].pc \in {"close", "close2"} /\ UNCHANGED <<landed, aio>>
    BY <1>8 DEF Close
  <2>2. CASE Return(h, "OK")
    BY <2>1, <2>2, ReturnOnce DEF Statuses
  <2>3. CASE hd[h].pc = "close" /\ hd' = [hd EXCEPT ![h].pc = "close2"] /\ rpc' = rpc
    BY <1>4, <1>6, <2>1, <2>3
  <2> QED BY <1>8, <2>2, <2>3 DEF Close, Goto
<1> QED BY <1>2, <1>3, <1>5, <1>7, <1>8 DEF Serve

LEMMA AnswerFields ==
  ASSUME CallsOK, NEW c \in Clients, NEW status, NEW fh, NEW n, NEW v,
         rpc' = Answer(c, status, fh, n, v)
  PROVE  /\ \A d \in Clients \ {c} : rpc'[d] = rpc[d]
         /\ rpc'[c].st = "replied" /\ rpc'[c].status = status
         /\ rpc'[c].op = rpc[c].op /\ rpc'[c].off = rpc[c].off /\ rpc'[c].w = rpc[c].w
         /\ rpc'[c].fh = (IF status = "OK" THEN fh ELSE rpc[c].fh)
         /\ rpc'[c].n = (IF status = "OK" THEN n ELSE 0)
         /\ rpc'[c].v = (IF status = "OK" THEN v ELSE NoWrite)
<1>1. rpc \in [Clients -> Rpc] /\ rpc[c] \in Rpc
  BY DEF CallsOK
<1>2. rpc' = [rpc EXCEPT ![c] =
               [rpc[c] EXCEPT !.st = "replied", !.status = status,
                              !.fh = IF status = "OK" THEN fh ELSE rpc[c].fh,
                              !.n = IF status = "OK" THEN n ELSE 0,
                              !.v = IF status = "OK" THEN v ELSE NoWrite]]
  BY <1>1 DEF Answer
<1> QED BY <1>1, <1>2 DEF Rpc

LEMMA ServerStepOnce ==
  ASSUME FInv, OnceInv, UNCHANGED clientVars, ServerStep
  PROVE  OnceInv'
<1>1. CallsOK /\ hd \in [Handlers -> Handler] /\ app' = app
  BY Parts DEF CallsOK, clientVars
<1>2. ASSUME UNCHANGED <<aio, landed, hd, rpc>>
      PROVE  OnceInv'
  BY <1>1, <1>2, OnceStay DEF ToSend, Writing, Carrying
<1>3. ASSUME UNCHANGED <<aio, landed>>, NEW c \in Clients, NEW status, NEW fh, NEW n, NEW v,
             status # "INVALID_ARGUMENT", rpc' = Answer(c, status, fh, n, v),
             \A g \in Handlers : hd'[g] = hd[g] \/ (hd[g].c = c /\ hd'[g] = [hd[g] EXCEPT !.c = "orphan"])
      PROVE  OnceInv'
  <2>1. /\ \A d \in Clients \ {c} : rpc'[d] = rpc[d]
        /\ rpc'[c].st = "replied" /\ rpc'[c].status = status /\ rpc'[c].op = rpc[c].op
    BY <1>1, <1>3, AnswerFields
  <2>2. ASSUME NEW g \in Handlers
        PROVE  /\ hd'[g].pc = hd[g].pc /\ hd'[g].op = hd[g].op /\ hd'[g].w = hd[g].w
               /\ hd'[g].c = hd[g].c \/ hd[g].c = c
    <3>1. hd[g] \in Handler
      BY <1>1
    <3> QED BY <1>3, <3>1 DEF Handler
  <2>3. ASSUME NEW d \in Clients
        PROVE  ToSend(d)' => ToSend(d)
    <3>1. CASE d = c
      BY <1>1, <1>3, <2>1, <3>1 DEF ToSend, Writing
    <3>2. CASE d # c
      <4>1. \A g \in Handlers : hd[g].c = d => hd'[g].c = d
        BY <2>2, <3>2
      <4> QED BY <1>1, <2>1, <3>2, <4>1 DEF ToSend, Writing
    <3> QED BY <3>1, <3>2
  <2>4. \A g \in Handlers : Carrying(g)' => Carrying(g) /\ hd'[g].w = hd[g].w
    BY <2>2 DEF Carrying
  <2> QED BY <1>3, <2>3, <2>4, OnceStay
<1>4. ASSUME NEW h \in Handlers, Serve(h)
      PROVE  OnceInv'
  BY <1>4, ServeOnce
<1>5. ASSUME NEW c \in Clients, Lookup(c) \/ RpcUnavailable(c)
      PROVE  OnceInv'
  <2>1. UNCHANGED <<aio, landed>> /\ \A g \in Handlers : hd'[g] = hd[g]
    BY <1>5 DEF Lookup, RpcUnavailable, process
  <2>2. CASE rpc' = Answer(c, "OK", here, 0, NoWrite)
    BY <1>3, <2>1, <2>2
  <2>3. CASE rpc' = Answer(c, "UNAVAILABLE", EmptyHandle, 0, NoWrite)
    BY <1>3, <2>1, <2>3
  <2> QED BY <1>5, <2>2, <2>3 DEF Lookup, RpcUnavailable
<1>6. ASSUME NEW c \in Clients, LoseRpc(c)
      PROVE  OnceInv'
  <2>1. /\ UNCHANGED <<aio, landed>>
        /\ rpc' = Answer(c, "UNAVAILABLE", EmptyHandle, 0, NoWrite)
        /\ \A g \in Handlers : hd'[g] = hd[g] \/ (hd[g].c = c /\ hd'[g] = [hd[g] EXCEPT !.c = "orphan"])
    BY <1>1, <1>6 DEF LoseRpc
  <2> QED BY <1>3, <2>1
<1>7. ASSUME NEW k \in DOMAIN aio, AioRun(k)
      PROVE  OnceInv'
  BY <1>7, AioOnce
<1>8. CASE Replace \/ RunServer
  BY <1>2, <1>8 DEF Replace, RunServer, process
<1>9. CASE ServerCrash \/ PowerLoss
  BY <1>1, <1>9, ExitOnce DEF ServerCrash, PowerLoss
<1> QED BY <1>4, <1>5, <1>6, <1>7, <1>8, <1>9 DEF ServerStep

-----------------------------------------------------------------------------
(* The steps of the clients: the server stands still.                      *)

\* Client c moves and makes no write.
LEMMA ClientOnce ==
  ASSUME OnceInv, NEW c \in Clients, UNCHANGED <<hd, aio, landed, issued>>,
         \A d \in Clients \ {c} : rpc'[d] = rpc[d] /\ app'[d] = app[d],
         Writing(c)' => Writing(c) /\ app'[c].w = app[c].w,
         ToSend(c)' => ToSend(c)
  PROVE  OnceInv'
<1>1. ASSUME NEW d \in Clients
      PROVE  /\ Writing(d)' => Writing(d) /\ app'[d].w = app[d].w
             /\ ToSend(d)' => ToSend(d)
  <2>1. CASE d = c
    BY <2>1
  <2>2. CASE d # c
    BY <2>2 DEF Writing, ToSend
  <2> QED BY <2>1, <2>2
<1>2. \A d \in Clients : ToSend(d)' => Writing(d)'
  BY DEF ToSend
<1>3. ASSUME NEW v \in Writes
      PROVE  Places(v)' \subseteq Places(v)
  <2>1. \A d \in Clients : ToSend(d)' /\ app'[d].w = v => ToSend(d) /\ app[d].w = v
    BY <1>1, <1>2
  <2>2. \A h \in Handlers : Carrying(h)' /\ hd'[h].w = v => Carrying(h) /\ hd[h].w = v
    BY DEF Carrying
  <2> QED BY <2>1, <2>2, PlacesShrink
<1>4. \A v \in Writes : OnePlace(v)'
  <2>1. (\A v \in Writes : OnePlace(v)) /\ issued \subseteq issued'
    BY DEF OnceInv
  <2> QED BY <1>3, <2>1, PlacesStay
<1> QED BY <1>1, <1>4 DEF OnceInv

\* The application of c issues write w.
LEMMA IssueOnce ==
  ASSUME OnceInv, NEW c \in Clients, UNCHANGED <<hd, aio, landed>>,
         \A d \in Clients \ {c} : rpc'[d] = rpc[d] /\ app'[d] = app[d],
         NEW w \in Writes \ issued, issued' = issued \cup {w}, app'[c].w = w
  PROVE  OnceInv'
<1>1. ASSUME NEW d \in Clients \ {c}
      PROVE  /\ Writing(d)' <=> Writing(d)
             /\ ToSend(d)' <=> ToSend(d)
  BY DEF Writing, ToSend
<1>2. \A d \in Clients \ {c} : Writing(d)' => app'[d].w \in issued
  BY <1>1 DEF OnceInv
<1>3. Places(w) = {}
  BY DEF OnceInv, OnePlace
<1>4. ASSUME NEW v \in Writes, NEW z \in Places(v)'
      PROVE  z \in Places(v) \/ (v = w /\ z = <<"client", c>>)
  BY <1>1 DEF Places, Carrying
<1>5. ASSUME NEW v \in Writes
      PROVE  OnePlace(v)'
  <2>1. CASE v = w
    BY <1>3, <1>4, <2>1 DEF OnePlace
  <2>2. CASE v # w
    BY <1>4, <2>2 DEF OnePlace, OnceInv
  <2> QED BY <2>1, <2>2
<1>6. \A d \in Clients : Writing(d)' => app'[d].w \in issued'
  BY <1>2
<1>7. ASSUME NEW d \in Clients, NEW e \in Clients, Writing(d)', Writing(e)', app'[d].w = app'[e].w
      PROVE  d = e
  <2>1. CASE d = c \/ e = c
    BY <1>2, <1>7, <2>1
  <2>2. CASE d # c /\ e # c
    BY <1>1, <1>7, <2>2 DEF OnceInv
  <2> QED BY <2>1, <2>2
<1> QED BY <1>5, <1>6, <1>7 DEF OnceInv

\* A write whose turn has not come is still to be sent.
LEMMA NotYetSent ==
  ASSUME FInv, NEW c \in Clients, Writing(c), Head(app[c].todo) # "write"
  PROVE  ToSend(c)
<1>1. RpcShape(c)
  BY Parts DEF CallsOK
<1>2. rpc[c].op \notin WriteOps
  <2>1. CASE rpc[c].st = "none"
    BY <1>1, <2>1 DEF RpcShape, NoRpc, WriteOps
  <2>2. CASE rpc[c].st # "none"
    BY <1>1, <2>2, OpOfWrite DEF RpcShape
  <2> QED BY <2>1, <2>2
<1> QED BY <1>2 DEF ToSend

\* The callback returns: if it was the write, no write is left.
LEMMA DoneWriting ==
  ASSUME FInv, NEW c \in Clients, app[c].todo # <<>>, Done(c)
  PROVE  /\ app'[c].w = app[c].w /\ (Writing(c)' => Writing(c))
         /\ Head(app[c].todo) = "write" => ~Writing(c)'
         /\ \A d \in Clients \ {c} : rpc'[d] = rpc[d] /\ app'[d] = app[d]
<1> DEFINE todo == app[c].todo
<1> DEFINE less == Tail(todo)
<1>1. /\ app[c] \in Application /\ AppShape(c) /\ todo \in Seq(fuse_operations)
      /\ rpc' = [rpc EXCEPT ![c] = NoRpc]
      /\ app' = [app EXCEPT ![c] = [app[c] EXCEPT !.todo = less]]
      /\ app \in [Clients -> Application] /\ rpc \in [Clients -> Rpc]
  BY AtCallback, Parts DEF Done, ClientsOK, CallsOK
<1>2. todo # <<>>
  OBVIOUS
<1> HIDE DEF todo
<1>3. /\ Len(less) = Len(todo) - 1 /\ DOMAIN less = 1..Len(less)
      /\ \A k \in 1..Len(less) : less[k] = todo[k + 1] /\ k + 1 \in DOMAIN todo
  BY <1>1, <1>2
<1> HIDE DEF less
<1>4. /\ app'[c].todo = less /\ app'[c].w = app[c].w
      /\ \A d \in Clients \ {c} : rpc'[d] = rpc[d] /\ app'[d] = app[d]
  BY <1>1 DEF Application
<1>5. Writing(c)' => Writing(c)
  BY <1>3, <1>4 DEF Writing, todo
<1>6. ASSUME Head(todo) = "write"
      PROVE  ~Writing(c)'
  <2>1. 1 \in DOMAIN todo /\ todo[1] = "write"
    BY <1>1, <1>2, <1>6
  <2>2. Len(todo) = 1
    BY <1>1, <2>1 DEF AppShape, todo
  <2> QED BY <1>3, <1>4, <2>2 DEF Writing
<1> QED BY <1>4, <1>5, <1>6 DEF todo

LEMMA DoneOnce ==
  ASSUME FInv, OnceInv, NEW c \in Clients, UNCHANGED <<hd, aio, landed>>,
         app[c].todo # <<>>, Done(c)
  PROVE  OnceInv'
<1>1. ToSend(c)' => ToSend(c)
  <2>1. ToSend(c)' => Writing(c)'
    BY DEF ToSend
  <2> QED BY <2>1, DoneWriting, NotYetSent
<1>2. issued' = issued
  BY DEF Done
<1> QED BY <1>1, <1>2, DoneWriting, ClientOnce

\* The callback starts over.
LEMMA StaleWriting ==
  ASSUME FInv, NEW c \in Clients, app[c].todo # <<>>, Stale(c)
  PROVE  /\ app'[c].w = app[c].w /\ (Writing(c)' => Writing(c))
         /\ \A d \in Clients \ {c} : rpc'[d] = rpc[d] /\ app'[d] = app[d]
<1> DEFINE todo == app[c].todo
<1> DEFINE more == <<"open">> \o todo
<1>1. /\ app[c] \in Application /\ todo \in Seq(fuse_operations)
      /\ rpc' = [rpc EXCEPT ![c] = NoRpc]
      /\ app' = [app EXCEPT ![c] = [app[c] EXCEPT !.todo = more]]
      /\ app \in [Clients -> Application] /\ rpc \in [Clients -> Rpc]
  BY AtCallback, Parts DEF Stale, ClientsOK, CallsOK
<1> HIDE DEF todo
<1>2. /\ more[1] = "open" /\ DOMAIN more = 1..(Len(todo) + 1)
      /\ \A k \in 2..(Len(todo) + 1) : more[k] = todo[k - 1] /\ k - 1 \in DOMAIN todo
  BY <1>1
<1> HIDE DEF more
<1>3. /\ app'[c].todo = more /\ app'[c].w = app[c].w
      /\ \A d \in Clients \ {c} : rpc'[d] = rpc[d] /\ app'[d] = app[d]
  BY <1>1 DEF Application
<1>4. Writing(c)' => Writing(c)
  <2>1. ASSUME NEW k \in DOMAIN more, more[k] = "write"
        PROVE  k - 1 \in DOMAIN todo /\ todo[k - 1] = "write"
    <3>1. k \in 2..(Len(todo) + 1)
      BY <1>1, <1>2, <2>1
    <3> QED BY <1>2, <2>1, <3>1
  <2> QED BY <1>3, <2>1 DEF Writing, todo
<1> QED BY <1>3, <1>4

LEMMA StaleOnce ==
  ASSUME FInv, OnceInv, NEW c \in Clients, UNCHANGED <<hd, aio, landed>>,
         app[c].todo # <<>>, Stale(c)
  PROVE  OnceInv'
<1>1. issued' = issued
  BY DEF Stale
<1>2. ToSend(c)' => ToSend(c)
  BY StaleWriting DEF ToSend, Stale, Replied
<1> QED BY <1>1, <1>2, StaleWriting, ClientOnce

\* The system call is a write that nobody made before, or no write.
LEMMA SysCallWriting ==
  ASSUME FInv, NEW c \in Clients, SysCall(c)
  PROVE  /\ \/ issued' = issued /\ ~Writing(c)'
            \/ app'[c].w \in Writes \ issued /\ issued' = issued \cup {app'[c].w}
         /\ \A d \in Clients \ {c} : rpc'[d] = rpc[d] /\ app'[d] = app[d]
<1>0. app \in [Clients -> Application] /\ app[c] \in Application
  BY Parts DEF ClientsOK
<1> DEFINE call == Head(app[c].next)
<1>1. PICK w \in Writes \cup {NoWrite} :
        /\ IF call.sys = "write" THEN w \in Writes \ issued ELSE w = NoWrite
        /\ app' = [app EXCEPT ![c] = [sys |-> call.sys, next |-> Tail(app[c].next),
                     todo |-> CallbacksOf(c, call.sys), off |-> call.off, w |-> w]]
        /\ issued' = issued \cup ({w} \ {NoWrite}) /\ rpc' = rpc
  BY DEF SysCall
<1>2. call.sys \in SystemCalls
  <2>1. app[c].next \in Seq(Calls) /\ app[c].next # <<>>
    BY <1>0 DEF SysCall, Application
  <2>2. call \in Calls
    BY <2>1
  <2> QED BY <2>2 DEF Calls
<1> HIDE DEF call
<1>3. /\ app'[c].w = w /\ app'[c].todo = CallbacksOf(c, call.sys)
      /\ \A d \in Clients \ {c} : rpc'[d] = rpc[d] /\ app'[d] = app[d]
  BY <1>0, <1>1
<1>4. CASE call.sys = "write"
  <2>1. w \in Writes \ issued /\ issued' = issued \cup {w}
    BY <1>1, <1>4, AsyncIOAssumption
  <2> QED BY <1>3, <2>1
<1>5. CASE call.sys # "write"
  <2>1. issued' = issued
    BY <1>1, <1>5
  <2>2. \A k \in DOMAIN CallbacksOf(c, call.sys) : CallbacksOf(c, call.sys)[k] # "write"
    <3>1. CASE CallbacksOf(c, call.sys) = Callbacks(call.sys)
      BY <1>2, <1>5, <3>1, CallbacksType
    <3>2. CASE CallbacksOf(c, call.sys) = <<>>
      BY <3>2
    <3> QED BY <3>1, <3>2 DEF CallbacksOf
  <2>3. ~Writing(c)'
    BY <1>3, <2>2 DEF Writing
  <2> QED BY <1>3, <2>1, <2>3
<1> QED BY <1>4, <1>5

LEMMA ClientStepOnce ==
  ASSUME FInv, OnceInv, NEW c \in Clients, UNCHANGED <<hd, aio, landed>>, ClientStep(c)
  PROVE  OnceInv'
<1>1. /\ app \in [Clients -> Application] /\ rpc \in [Clients -> Rpc] /\ app[c] \in Application
      /\ RpcShape(c) /\ AppShape(c)
  BY Parts DEF CallsOK, ClientsOK
<1>2. ASSUME NEW op, Ask(c, op)
      PROVE  OnceInv'
  <2>1. /\ app' = app /\ issued' = issued /\ rpc[c].st = "none"
        /\ \A d \in Clients \ {c} : rpc'[d] = rpc[d]
    BY <1>1, <1>2 DEF Ask, clientVars
  <2>2. Writing(c)' <=> Writing(c)
    BY <2>1 DEF Writing
  <2>3. rpc[c].op \notin WriteOps
    BY <1>1, <2>1 DEF RpcShape, NoRpc, WriteOps
  <2>4. ToSend(c)' => ToSend(c)
    BY <2>2, <2>3 DEF ToSend
  <2> QED BY <2>1, <2>2, <2>4, ClientOnce
<1>3. CASE open(c) \/ read(c) \/ write(c) \/ fsync(c)
  <2>1. app[c].todo # <<>>
    BY <1>3 DEF open, read, write, fsync, Running
  <2>2. Done(c) \/ Stale(c) \/ \E op : Ask(c, op)
    BY <1>3 DEF open, read, write, fsync
  <2> QED BY <1>2, <2>1, <2>2, DoneOnce, StaleOnce
<1>4. CASE SysReturn(c)
  <2>1. /\ issued' = issued /\ rpc' = rpc /\ app'[c] = Ready(app[c].next)
        /\ \A d \in Clients \ {c} : app'[d] = app[d]
    BY <1>1, <1>4 DEF SysReturn
  <2>2. app'[c].todo = <<>>
    BY <2>1 DEF Ready
  <2>3. ~Writing(c)' /\ ~ToSend(c)'
    BY <2>2 DEF Writing, ToSend
  <2> QED BY <2>1, <2>3, ClientOnce
<1>5. CASE SysCall(c)
  <2>1. CASE issued' = issued /\ ~Writing(c)'
    BY <1>5, <2>1, SysCallWriting, ClientOnce DEF ToSend
  <2>2. CASE app'[c].w \in Writes \ issued /\ issued' = issued \cup {app'[c].w}
    <3>1. PICK w \in Writes \ issued : w = app'[c].w
      BY <2>2
    <3> QED BY <1>5, <2>2, <3>1, SysCallWriting, IssueOnce
  <2> QED BY <1>5, <2>1, <2>2, SysCallWriting
<1> QED BY <1>3, <1>4, <1>5 DEF ClientStep

LEMMA NextOnce ==
  ASSUME FInv, OnceInv, [Next]_vars
  PROVE  OnceInv'
<1>1. CASE ServerStep /\ UNCHANGED clientVars
  BY <1>1, ServerStepOnce
<1>2. ASSUME NEW c \in Clients, ClientStep(c),
             UNCHANGED <<files, process, faults, landed, bad>>
      PROVE  OnceInv'
  BY <1>2, ClientStepOnce DEF process
<1>3. CASE UNCHANGED vars
  <2>1. UNCHANGED <<clientVars, landed, aio, hd, rpc>>
    BY <1>3 DEF vars, serverVars
  <2> QED BY <2>1, OnceStay DEF ToSend, Writing, Carrying, clientVars
<1> QED BY <1>1, <1>2, <1>3 DEF Next

LEMMA InitOnce == Init => OnceInv
<1> SUFFICES ASSUME Init PROVE OnceInv
  OBVIOUS
<1>1. \A c \in Clients : ~Writing(c)
  <2>1. ASSUME NEW c \in Clients
        PROVE  app[c].todo = <<>>
    <3>1. PICK d \in Clients : app[c] \in {Ready(p) : p \in Workload[d]}
      BY DEF Init
    <3> QED BY <3>1 DEF Ready
  <2> QED BY <2>1 DEF Writing
<1>2. /\ \A h \in Handlers : ~Carrying(h)
      /\ aio = <<>> /\ landed = <<>>
  BY DEF Init, ServerInit, Carrying, Idle
<1>3. \A w \in Writes : Places(w) = {}
  BY <1>1, <1>2 DEF Places, ToSend
<1> QED BY <1>1, <1>3 DEF OnceInv, OnePlace

\* What is in one place was executed once.
LEMMA OncePlaceOnce ==
  ASSUME FInv, OnceInv
  PROVE  WriteAtMostOnce
<1>1. ASSUME NEW j \in DOMAIN landed, NEW k \in DOMAIN landed, landed[j].w = landed[k].w
      PROVE  j = k
  <2> DEFINE L == [w : Writes, cell : Cells]
  <2>1. landed \in Seq(L)
    BY Parts DEF FilesOK
  <2>2. landed[j] \in L
    <3> HIDE DEF L
    <3> QED BY <2>1
  <2>3. PICK w \in Writes : w = landed[j].w
    BY <2>2
  <2>4. <<"file", j>> \in Places(w) /\ <<"file", k>> \in Places(w)
    BY <1>1, <2>3, PlaceMembers
  <2> QED BY <2>4 DEF OnceInv, OnePlace
<1> QED BY <1>1 DEF WriteAtMostOnce

\* A write reaches a file at most once, whatever breaks: ClientFS sends a write
\* again only when the server refused it as stale.
THEOREM WrittenAtMostOnce == Spec => []WriteAtMostOnce
<1>1. Init => FInv /\ DownInv /\ OnceInv
  BY InitFInv, InitOnce DEF Init, ServerInit, DownInv
<1>2. FInv /\ DownInv /\ OnceInv /\ [Next]_vars => (FInv /\ DownInv /\ OnceInv)'
  BY NextFInv, NextOnce
<1>3. FInv /\ OnceInv => WriteAtMostOnce
  BY OncePlaceOnce
<1> QED BY <1>1, <1>2, <1>3, PTL DEF Spec
=============================================================================
