-------------------------- MODULE StreamCalls_proofs --------------------------
(***************************************************************************)
(* What a streaming RPC does to its reader's inbox, whatever it streams:   *)
(* the lemmas that the proofs about both subscriptions share.              *)
(***************************************************************************)
EXTENDS StreamCalls, ChatSystem_proofs

-----------------------------------------------------------------------------
(* A line of positions on their way from a log to one reader's screen.     *)

\* The items of a kind: shown before those in the inbox, those before the one
\* in the handler's hand, all at or below limit, in log order and none twice.
InLine(shown, box, hand, kind, limit) ==
    /\ \A i, j \in DOMAIN shown : i < j => shown[i] < shown[j]
    /\ \A i \in DOMAIN shown : shown[i] \in 1..limit
    /\ \A k \in DOMAIN box : box[k].kind = kind =>
          /\ box[k].at \in 1..limit
          /\ \A i \in DOMAIN shown : shown[i] < box[k].at
          /\ \A j \in DOMAIN box : j < k /\ box[j].kind = kind => box[j].at < box[k].at
    /\ hand # NoItem /\ hand.kind = kind =>
          /\ hand.at \in 1..limit
          /\ \A i \in DOMAIN shown : shown[i] < hand.at
          /\ \A k \in DOMAIN box : box[k].kind = kind => box[k].at < hand.at

\* The log grows, or the cursor moves on without handing anything out.
LEMMA LineWider ==
    ASSUME NEW shown, NEW box, NEW hand, NEW kind, NEW limit \in Nat, NEW wider \in Nat,
           limit <= wider, InLine(shown, box, hand, kind, limit)
    PROVE  InLine(shown, box, hand, kind, wider)
  BY DEF InLine

\* The reader's handler has nothing of the kind in hand.
LEMMA LineEmptyHand ==
    ASSUME NEW shown, NEW box, NEW hand, NEW kind, NEW limit,
           InLine(shown, box, hand, kind, limit),
           NEW other, other = NoItem \/ other.kind # kind
    PROVE  InLine(shown, box, other, kind, limit)
  BY DEF InLine

\* The reader's handler takes the entry after the limit.
LEMMA LineTakes ==
    ASSUME NEW shown, NEW box \in Seq(Item), NEW hand, NEW kind, NEW limit \in Nat,
           shown \in Seq(Nat),
           InLine(shown, box, hand, kind, limit),
           NEW item \in Item, limit < item.at, NEW wider \in Nat, item.at <= wider
    PROVE  InLine(shown, box, item, kind, wider)
  <1>1. item.at \in 1..wider
    BY DEF Item
  <1>2. \A i \in DOMAIN shown : shown[i] < item.at /\ shown[i] \in 1..wider
    BY DEF InLine, Item
  <1>3. \A k \in DOMAIN box : box[k].kind = kind => box[k].at < item.at /\ box[k].at \in 1..wider
    BY DEF InLine, Item
  <1>4. QED
    BY <1>1, <1>2, <1>3 DEF InLine

\* What the handler wrote joins the inbox.
LEMMA LineWrites ==
    ASSUME NEW shown, NEW box \in Seq(Item), NEW hand \in Item, NEW kind, NEW limit,
           InLine(shown, box, hand, kind, limit), hand # NoItem
    PROVE  InLine(shown, Append(box, hand), NoItem, kind, limit)
  <1> DEFINE n == Len(box)
             more == Append(box, hand)
  <1>1. /\ n \in Nat /\ DOMAIN box = 1..n /\ DOMAIN more = 1..(n + 1)
        /\ more[n + 1] = hand /\ \A k \in 1..n : more[k] = box[k]
    OBVIOUS
  <1> HIDE DEF n, more
  <1>2. \A k \in DOMAIN more : more[k].kind = kind =>
          /\ more[k].at \in 1..limit
          /\ \A i \in DOMAIN shown : shown[i] < more[k].at
    BY <1>1 DEF InLine
  <1>3. \A k, j \in DOMAIN more : more[k].kind = kind /\ j < k /\ more[j].kind = kind =>
          more[j].at < more[k].at
    BY <1>1 DEF InLine
  <1>4. InLine(shown, more, NoItem, kind, limit)
    BY <1>2, <1>3 DEF InLine
  <1>5. QED
    BY <1>4 DEF more

\* The session ends: what the stream thread had read stays, in front.
LEMMA LineStops ==
    ASSUME NEW shown, NEW box \in Seq(Item), NEW hand, NEW kind, NEW limit,
           InLine(shown, box, hand, kind, limit), NEW k \in 0..Len(box)
    PROVE  InLine(shown, SubSeq(box, 1, k), NoItem, kind, limit)
  <1> DEFINE less == SubSeq(box, 1, k)
  <1>1. DOMAIN less \subseteq DOMAIN box /\ \A j \in DOMAIN less : less[j] = box[j]
    OBVIOUS
  <1> HIDE DEF less
  <1>2. InLine(shown, less, NoItem, kind, limit)
    BY <1>1 DEF InLine
  <1>3. QED
    BY <1>2 DEF less

LEMMA LineAbandoned ==
    ASSUME NEW shown, NEW box, NEW hand, NEW kind, NEW limit,
           InLine(shown, box, hand, kind, limit)
    PROVE  InLine(shown, <<>>, NoItem, kind, limit)
  BY DEF InLine

\* The head of the inbox is shown.
LEMMA LineShows ==
    ASSUME NEW shown \in Seq(Nat), NEW box \in Seq(Item), NEW hand, NEW kind, NEW limit \in Nat,
           InLine(shown, box, hand, kind, limit), box # <<>>, Head(box).kind = kind
    PROVE  InLine(Append(shown, Head(box).at), Tail(box), hand, kind, limit)
  <1> DEFINE n == Len(box)
             m == Len(shown)
             at == Head(box).at
             rest == Tail(box)
             more == Append(shown, at)
  <1>1. /\ n \in Nat /\ n > 0 /\ DOMAIN box = 1..n /\ DOMAIN rest = 1..(n - 1)
        /\ \A k \in 1..(n - 1) : rest[k] = box[k + 1]
        /\ 1 \in DOMAIN box /\ box[1].kind = kind /\ at = box[1].at /\ at \in Nat
    <2>1. /\ n \in Nat /\ n > 0 /\ DOMAIN box = 1..n /\ DOMAIN rest = 1..(n - 1)
          /\ \A k \in 1..(n - 1) : rest[k] = box[k + 1]
          /\ 1 \in DOMAIN box /\ Head(box) = box[1] /\ box[1] \in Item
      OBVIOUS
    <2> HIDE DEF n, rest
    <2>2. box[1].at \in Nat
      BY <2>1 DEF Item
    <2>3. QED
      BY <2>1, <2>2
  <1>2. /\ m \in Nat /\ DOMAIN shown = 1..m /\ DOMAIN more = 1..(m + 1)
        /\ more[m + 1] = at /\ \A i \in 1..m : more[i] = shown[i] /\ shown[i] \in Nat
    OBVIOUS
  <1> HIDE DEF n, m, at, rest, more
  <1>3. at \in 1..limit /\ \A i \in 1..m : shown[i] < at
    <2>1. box[1].at \in 1..limit /\ \A i \in DOMAIN shown : shown[i] < box[1].at
      BY <1>1 DEF InLine
    <2>2. QED
      BY <1>1, <1>2, <2>1
  <1>4. \A i, j \in DOMAIN more : i < j => more[i] < more[j]
    BY <1>2, <1>3 DEF InLine
  <1>5. \A i \in DOMAIN more : more[i] \in 1..limit
    BY <1>2, <1>3 DEF InLine
  <1>6. \A k \in DOMAIN rest : rest[k].kind = kind =>
          /\ rest[k].at \in 1..limit
          /\ \A i \in DOMAIN more : more[i] < rest[k].at
          /\ \A j \in DOMAIN rest : j < k /\ rest[j].kind = kind => rest[j].at < rest[k].at
    <2> SUFFICES ASSUME NEW k \in 1..(n - 1), rest[k].kind = kind
                 PROVE  /\ rest[k].at \in 1..limit
                        /\ \A i \in DOMAIN more : more[i] < rest[k].at
                        /\ \A j \in DOMAIN rest : j < k /\ rest[j].kind = kind => rest[j].at < rest[k].at
      BY <1>1
    <2>1. rest[k] = box[k + 1] /\ k + 1 \in 1..n /\ 1 < k + 1 /\ 1 \in 1..n
      BY <1>1
    <2>2. rest[k].at \in 1..limit /\ at < rest[k].at /\ \A i \in 1..m : shown[i] < rest[k].at
      <3>1. /\ box[k + 1].kind = kind /\ k + 1 \in DOMAIN box
            /\ box[k + 1].at \in 1..limit
            /\ \A i \in DOMAIN shown : shown[i] < box[k + 1].at
        BY <1>1, <2>1 DEF InLine
      <3>2. box[1].at < box[k + 1].at
        BY <1>1, <2>1, <3>1 DEF InLine
      <3>3. QED
        BY <1>1, <1>2, <2>1, <3>1, <3>2
    <2>3. ASSUME NEW j \in 1..(n - 1), j < k, rest[j].kind = kind
          PROVE  rest[j].at < rest[k].at
      <3>1. rest[j] = box[j + 1] /\ j + 1 \in 1..n /\ j + 1 < k + 1
        BY <1>1, <2>3
      <3>2. QED
        BY <1>1, <2>1, <2>3, <3>1 DEF InLine
    <2>4. \A i \in DOMAIN more : more[i] < rest[k].at
      BY <1>2, <2>2
    <2>5. QED
      BY <1>1, <2>2, <2>3, <2>4
  <1>7. hand # NoItem /\ hand.kind = kind =>
          /\ hand.at \in 1..limit
          /\ \A i \in DOMAIN more : more[i] < hand.at
          /\ \A k \in DOMAIN rest : rest[k].kind = kind => rest[k].at < hand.at
    <2> SUFFICES ASSUME hand # NoItem, hand.kind = kind
                 PROVE  /\ hand.at \in 1..limit
                        /\ \A i \in DOMAIN more : more[i] < hand.at
                        /\ \A k \in DOMAIN rest : rest[k].kind = kind => rest[k].at < hand.at
      OBVIOUS
    <2>1. /\ hand.at \in 1..limit
          /\ \A i \in DOMAIN shown : shown[i] < hand.at
          /\ \A k \in DOMAIN box : box[k].kind = kind => box[k].at < hand.at
      BY DEF InLine
    <2>2. at < hand.at
      BY <1>1, <2>1
    <2>3. \A i \in DOMAIN more : more[i] < hand.at
      BY <1>2, <2>1, <2>2
    <2>4. \A k \in 1..(n - 1) : k + 1 \in 1..n
      BY <1>1
    <2>5. \A k \in DOMAIN rest : rest[k].kind = kind => rest[k].at < hand.at
      BY <1>1, <2>1, <2>4
    <2>6. QED
      BY <2>1, <2>3, <2>5
  <1>8. InLine(more, rest, hand, kind, limit)
    BY <1>4, <1>5, <1>6, <1>7 DEF InLine
  <1>9. QED
    BY <1>8 DEF more, rest, at

\* The head of the inbox, which is of another kind, leaves it.
LEMMA LineSkips ==
    ASSUME NEW shown, NEW box \in Seq(Item), NEW hand, NEW kind, NEW limit,
           InLine(shown, box, hand, kind, limit), box # <<>>
    PROVE  InLine(shown, Tail(box), hand, kind, limit)
  <1> DEFINE n == Len(box)
             rest == Tail(box)
  <1>1. /\ n \in Nat /\ n > 0 /\ DOMAIN box = 1..n /\ DOMAIN rest = 1..(n - 1)
        /\ \A k \in 1..(n - 1) : rest[k] = box[k + 1] /\ k + 1 \in 1..n
    OBVIOUS
  <1>2. \A j, k \in 1..(n - 1) : j < k => j + 1 < k + 1
    BY <1>1
  <1> HIDE DEF n, rest
  <1>3. InLine(shown, rest, hand, kind, limit)
    BY <1>1, <1>2 DEF InLine
  <1>4. QED
    BY <1>3 DEF rest

-----------------------------------------------------------------------------
(* Handlers and the clients that read from them.                           *)

\* The handler a client reads from is a handler for it, and a handler has an
\* item in hand just while it writes.
StreamInv ==
    /\ StreamTypeOK
    /\ \A p \in Peers : stream[p] # NoStream =>
          handlers[stream[p]] # NoHandler /\ handlers[stream[p]].peer = p
    /\ \A h \in StreamThreads : handlers[h] # NoHandler =>
          (handlers[h].item # NoItem <=> handlers[h].pc = "write")

\* What the handler p reads from is about to write.
Hand(p) == IF stream[p] = NoStream THEN NoItem ELSE handlers[stream[p]].item

Places == {"start", "queue", "loop", "privateWait", "public", "wait", "write"}

\* The handler in h goes on to pc with item in hand.
Moves(h, pc, item) ==
    /\ handlers[h] # NoHandler /\ handlers'[h] # NoHandler
    /\ handlers'[h].peer = handlers[h].peer
    /\ handlers'[h].pc = pc /\ handlers'[h].item = item
    /\ handlers'[h] \in Handler
    /\ \A k \in StreamThreads : k # h => handlers'[k] = handlers[k]
    /\ DOMAIN handlers' = StreamThreads /\ handlers' = [k \in StreamThreads |-> handlers'[k]]

LEMMA HandlerTypes ==
    ASSUME StreamInv, NEW h \in StreamThreads, handlers[h] # NoHandler
    PROVE  /\ handlers[h] \in Handler
           /\ handlers[h].peer \in Peers /\ handlers[h].pc \in Places
           /\ handlers[h].item \in Item \cup {NoItem} /\ handlers[h].cancelled \in BOOLEAN
           /\ handlers[h].pc = "write" => handlers[h].item \in Item
           /\ handlers[h].pc # "write" => handlers[h].item = NoItem
  <1>1. handlers[h] \in Handler
    BY DEF StreamInv, StreamTypeOK
  <1>2. QED
    BY <1>1 DEF StreamInv, Handler, Places

LEMMA SetHandler ==
    ASSUME StreamInv, NEW h \in StreamThreads, handlers[h] # NoHandler,
           NEW d \in Handler, d.peer = handlers[h].peer, handlers' = [handlers EXCEPT ![h] = d]
    PROVE  Moves(h, d.pc, d.item)
  BY StreamAssumption DEF Moves, StreamInv, StreamTypeOK

LEMMA GotoMoves ==
    ASSUME StreamInv, NEW h \in StreamThreads, handlers[h] # NoHandler, handlers[h].pc # "write",
           NEW pc \in Places, StreamGoto(h, pc)
    PROVE  Moves(h, pc, NoItem) /\ UNCHANGED <<stream, inbox>>
  <1> DEFINE d == [handlers[h] EXCEPT !.pc = pc]
  <1>1. /\ d \in Handler /\ d.peer = handlers[h].peer /\ d.pc = pc /\ d.item = NoItem
    BY HandlerTypes DEF Handler, Places
  <1>2. handlers' = [handlers EXCEPT ![h] = d] /\ UNCHANGED <<stream, inbox>>
    BY DEF StreamGoto
  <1> HIDE DEF d
  <1>3. QED
    BY <1>1, <1>2, SetHandler

LEMMA TakesMoves ==
    ASSUME StreamInv, NEW h \in StreamThreads, handlers[h] # NoHandler,
           NEW item \in Item, StreamTakes(h, item)
    PROVE  Moves(h, "write", item) /\ UNCHANGED <<stream, inbox>>
  <1> DEFINE d == [handlers[h] EXCEPT !.pc = "write", !.item = item]
  <1>1. /\ d \in Handler /\ d.peer = handlers[h].peer /\ d.pc = "write" /\ d.item = item
    BY HandlerTypes DEF Handler, Places
  <1>2. handlers' = [handlers EXCEPT ![h] = d] /\ UNCHANGED <<stream, inbox>>
    BY DEF StreamTakes, StreamInv, StreamTypeOK
  <1> HIDE DEF d
  <1>3. QED
    BY <1>1, <1>2, SetHandler

\* A step of one handler, and what each client's hand is after it.
LEMMA MovesKept ==
    ASSUME StreamInv, NEW h \in StreamThreads, NEW pc, NEW item,
           Moves(h, pc, item), item # NoItem <=> pc = "write", UNCHANGED stream,
           inbox' \in [Peers -> Seq(Item)]
    PROVE  /\ StreamInv'
           /\ \A p \in Peers : Hand(p)' = IF stream[p] = h THEN item ELSE Hand(p)
  <1>1. StreamTypeOK'
    BY DEF StreamInv, StreamTypeOK, Moves
  <1>2. StreamInv'
    <2>1. \A p \in Peers : stream[p] # NoStream =>
             /\ stream[p] \in StreamThreads /\ handlers'[stream[p]] # NoHandler
             /\ handlers'[stream[p]].peer = p
      BY DEF StreamInv, StreamTypeOK, Moves
    <2>2. \A k \in StreamThreads : handlers'[k] # NoHandler =>
             (handlers'[k].item # NoItem <=> handlers'[k].pc = "write")
      BY DEF StreamInv, Moves
    <2>3. QED
      BY <1>1, <2>1, <2>2 DEF StreamInv
  <1>3. \A p \in Peers : Hand(p)' = IF stream[p] = h THEN item ELSE Hand(p)
    BY StreamAssumption DEF Hand, StreamInv, StreamTypeOK, Moves
  <1>4. QED
    BY <1>2, <1>3

LEMMA EndsKept ==
    ASSUME StreamInv, NEW h \in StreamThreads, StreamEnds(h)
    PROVE  /\ StreamInv'
           /\ UNCHANGED inbox
           /\ handlers'[h] = NoHandler
           /\ \A k \in StreamThreads : k # h => handlers'[k] = handlers[k]
           /\ \A p \in Peers : /\ stream[p] = h => stream'[p] = NoStream /\ Hand(p)' = NoItem
                               /\ stream[p] # h => stream'[p] = stream[p] /\ Hand(p)' = Hand(p)
  <1>1. /\ handlers'[h] = NoHandler /\ UNCHANGED inbox
        /\ \A k \in StreamThreads : k # h => handlers'[k] = handlers[k]
        /\ \A p \in Peers : stream'[p] = IF stream[p] = h THEN NoStream ELSE stream[p]
    BY DEF StreamEnds, StreamInv, StreamTypeOK
  <1>2. StreamTypeOK'
    BY DEF StreamEnds, StreamInv, StreamTypeOK
  <1>3. StreamInv'
    BY <1>1, <1>2 DEF StreamInv, StreamTypeOK
  <1>4. \A p \in Peers : /\ stream[p] = h => stream'[p] = NoStream /\ Hand(p)' = NoItem
                         /\ stream[p] # h => stream'[p] = stream[p] /\ Hand(p)' = Hand(p)
    BY <1>1, StreamAssumption DEF Hand, StreamInv, StreamTypeOK
  <1>5. QED
    BY <1>1, <1>3, <1>4

\* What the client's handler had in hand is in its inbox afterwards.
LEMMA WritesKept ==
    ASSUME StreamInv, NEW h \in StreamThreads, StreamWrites(h),
           NEW q, q = handlers[h].peer, NEW item, item = handlers[h].item
    PROVE  /\ StreamInv'
           /\ q \in Peers /\ item \in Item /\ stream[q] = h /\ handlers[h] # NoHandler
           /\ Moves(h, "loop", NoItem)
           /\ UNCHANGED stream
           /\ inbox'[q] = Append(inbox[q], item) /\ Hand(q) = item /\ Hand(q)' = NoItem
           /\ \A p \in Peers : p # q => inbox'[p] = inbox[p] /\ Hand(p)' = Hand(p)
  <1> DEFINE d == [handlers[h] EXCEPT !.pc = "loop", !.item = NoItem]
  <1>1. /\ q \in Peers /\ item \in Item /\ item # NoItem /\ handlers[h] # NoHandler /\ stream[q] = h
        /\ UNCHANGED stream /\ handlers[h] \in Handler
    BY HandlerTypes, StreamAssumption DEF StreamWrites, Serving, Stale
  <1>2. /\ d \in Handler /\ d.peer = handlers[h].peer /\ d.pc = "loop" /\ d.item = NoItem
    BY <1>1 DEF Handler
  <1>3. handlers' = [handlers EXCEPT ![h] = d]
    BY DEF StreamWrites, StreamInv, StreamTypeOK
  <1> HIDE DEF d
  <1>4. Moves(h, "loop", NoItem)
    BY <1>1, <1>2, <1>3, SetHandler
  <1>5. /\ inbox' = [inbox EXCEPT ![q] = Append(@, item)]
        /\ inbox' \in [Peers -> Seq(Item)]
    BY <1>1 DEF StreamWrites, StreamInv, StreamTypeOK
  <1>6. /\ StreamInv'
        /\ \A p \in Peers : Hand(p)' = IF stream[p] = h THEN NoItem ELSE Hand(p)
    BY <1>1, <1>4, <1>5, MovesKept
  <1>7. Hand(q) = item
    BY <1>1, StreamAssumption DEF Hand
  <1>8. \A p \in Peers : p # q => stream[p] # h
    BY <1>1, StreamAssumption DEF StreamInv
  <1>9. QED
    BY <1>1, <1>4, <1>5, <1>6, <1>7, <1>8 DEF StreamInv, StreamTypeOK

\* What a stale handler had in hand is gone, and nobody's hand is touched.
LEMMA WriteLostKept ==
    ASSUME StreamInv, NEW h \in StreamThreads, StreamWriteLost(h)
    PROVE  /\ StreamInv'
           /\ UNCHANGED <<stream, inbox>>
           /\ handlers[h] # NoHandler /\ handlers[h].item \in Item /\ handlers[h].peer \in Peers
           /\ handlers[h].pc = "write"
           /\ handlers'[h] = NoHandler \/ Moves(h, "loop", NoItem)
           /\ \A k \in StreamThreads : k # h => handlers'[k] = handlers[k]
           /\ \A p \in Peers : stream[p] # h /\ Hand(p)' = Hand(p)
  <1> DEFINE d == [handlers[h] EXCEPT !.pc = "loop", !.item = NoItem]
  <1>1. /\ handlers[h] # NoHandler /\ handlers[h].item \in Item /\ handlers[h] \in Handler
        /\ handlers[h].peer \in Peers /\ stream[handlers[h].peer] # h /\ handlers[h].pc = "write"
        /\ UNCHANGED <<stream, inbox>>
    BY HandlerTypes DEF StreamWriteLost, Serving, Stale
  <1>2. \A p \in Peers : stream[p] # h
    BY <1>1, StreamAssumption DEF StreamInv
  <1>3. CASE handlers' = [handlers EXCEPT ![h] = NoHandler]
    <2>1. /\ handlers'[h] = NoHandler /\ \A k \in StreamThreads : k # h => handlers'[k] = handlers[k]
      BY <1>3 DEF StreamInv, StreamTypeOK
    <2>2. StreamTypeOK'
      BY <1>1, <1>3 DEF StreamInv, StreamTypeOK
    <2>3. StreamInv'
      BY <1>1, <1>2, <2>1, <2>2 DEF StreamInv, StreamTypeOK
    <2>4. \A p \in Peers : Hand(p)' = Hand(p)
      BY <1>1, <1>2, <2>1 DEF Hand, StreamInv, StreamTypeOK
    <2>5. QED
      BY <1>1, <1>2, <2>1, <2>3, <2>4
  <1>4. CASE handlers' = [handlers EXCEPT ![h] = d]
    <2>1. /\ d \in Handler /\ d.peer = handlers[h].peer /\ d.pc = "loop" /\ d.item = NoItem
      BY <1>1 DEF Handler
    <2> HIDE DEF d
    <2>2. Moves(h, "loop", NoItem)
      BY <1>1, <1>4, <2>1, SetHandler
    <2>3. inbox' \in [Peers -> Seq(Item)]
      BY <1>1 DEF StreamInv, StreamTypeOK
    <2>4. /\ StreamInv'
          /\ \A p \in Peers : Hand(p)' = IF stream[p] = h THEN NoItem ELSE Hand(p)
      BY <1>1, <2>2, <2>3, MovesKept
    <2>5. QED
      BY <1>1, <1>2, <2>2, <2>4 DEF Moves
  <1>5. QED
    BY <1>3, <1>4 DEF StreamWriteLost, StreamInv, StreamTypeOK

LEMMA CancelMoves ==
    ASSUME StreamInv, NEW h \in StreamThreads, CancelArrives(h)
    PROVE  /\ handlers[h] # NoHandler
           /\ Moves(h, handlers[h].pc, handlers[h].item) /\ UNCHANGED <<stream, inbox>>
           /\ StreamInv'
           /\ \A p \in Peers : Hand(p)' = Hand(p)
  <1> DEFINE d == [handlers[h] EXCEPT !.cancelled = TRUE]
  <1>1. handlers[h] # NoHandler /\ handlers[h] \in Handler /\ UNCHANGED <<stream, inbox>>
    BY HandlerTypes DEF CancelArrives, Stale
  <1>2. /\ d \in Handler /\ d.peer = handlers[h].peer /\ d.pc = handlers[h].pc
        /\ d.item = handlers[h].item
    BY <1>1 DEF Handler
  <1>3. handlers' = [handlers EXCEPT ![h] = d]
    BY DEF CancelArrives
  <1> HIDE DEF d
  <1>4. Moves(h, handlers[h].pc, handlers[h].item)
    BY <1>1, <1>2, <1>3, SetHandler
  <1>5. inbox' \in [Peers -> Seq(Item)] /\ (handlers[h].item # NoItem <=> handlers[h].pc = "write")
    BY <1>1 DEF StreamInv, StreamTypeOK
  <1>6. /\ StreamInv'
        /\ \A p \in Peers : Hand(p)' = IF stream[p] = h THEN handlers[h].item ELSE Hand(p)
    BY <1>1, <1>4, <1>5, MovesKept
  <1>7. \A p \in Peers : stream[p] = h => Hand(p) = handlers[h].item
    BY StreamAssumption DEF Hand
  <1>8. QED
    BY <1>1, <1>4, <1>6, <1>7

\* A client opens a stream, or does not take part.
LEMMA OpensKept ==
    ASSUME StreamInv, NEW q \in Peers, OpenStream(q)
    PROVE  /\ StreamInv'
           /\ UNCHANGED inbox
           /\ \A p \in Peers : p # q => stream'[p] = stream[p] /\ Hand(p)' = Hand(p)
           /\ Hand(q)' \in {Hand(q), NoItem}
           /\ \A k \in StreamThreads :
                 \/ handlers'[k] = handlers[k]
                 \/ handlers[k] = NoHandler /\ handlers'[k].item = NoItem
           /\ \A p \in Peers : p # q /\ stream[p] # NoStream => handlers'[stream[p]] = handlers[stream[p]]
           /\ \/ stream'[q] = stream[q] /\ q \notin Watchers /\ UNCHANGED <<handlers, stream>>
              \/ /\ stream'[q] # NoStream /\ handlers'[stream'[q]].pc = "start"
                 /\ Hand(q)' = NoItem
  <1>1. CASE q \in Watchers
    <2> DEFINE d == [peer |-> q, pc |-> "start", item |-> NoItem, cancelled |-> FALSE]
    <2>1. PICK h \in StreamThreads :
             /\ handlers[h] = NoHandler
             /\ handlers' = [handlers EXCEPT ![h] = d]
             /\ stream' = [stream EXCEPT ![q] = h]
             /\ UNCHANGED inbox
      BY <1>1 DEF OpenStream
    <2>2. d \in Handler /\ d.peer = q /\ d.pc = "start" /\ d.item = NoItem
      BY DEF Handler
    <2>3. d # NoHandler /\ h # NoStream
      BY <2>2, StreamAssumption
    <2> HIDE DEF d
    <2>4. /\ handlers'[h] = d /\ \A k \in StreamThreads : k # h => handlers'[k] = handlers[k]
          /\ stream'[q] = h /\ \A p \in Peers : p # q => stream'[p] = stream[p]
          /\ StreamTypeOK'
      BY <2>1, <2>2 DEF StreamInv, StreamTypeOK
    <2>5. \A p \in Peers : stream[p] # NoStream => stream[p] # h /\ stream[p] \in StreamThreads
      BY <2>1 DEF StreamInv, StreamTypeOK
    <2>6. StreamInv'
      BY <2>2, <2>3, <2>4, <2>5 DEF StreamInv
    <2>7. /\ \A p \in Peers : p # q => Hand(p)' = Hand(p)
          /\ Hand(q)' = NoItem
      BY <2>2, <2>3, <2>4, <2>5 DEF Hand
    <2>8. QED
      BY <2>1, <2>2, <2>3, <2>4, <2>5, <2>6, <2>7
  <1>2. CASE q \notin Watchers
    BY <1>2 DEF OpenStream, streamVars, StreamInv, StreamTypeOK, Hand
  <1>3. QED
    BY <1>1, <1>2

\* A client lets go of its stream; a beginning of its inbox may stay.
LEMMA StopsKept ==
    ASSUME StreamInv, NEW q \in Peers, StopStream(q) \/ AbandonStream(q)
    PROVE  /\ StreamInv'
           /\ UNCHANGED handlers
           /\ stream'[q] = NoStream /\ Hand(q)' = NoItem
           /\ \A p \in Peers : p # q => /\ stream'[p] = stream[p] /\ inbox'[p] = inbox[p]
                                        /\ Hand(p)' = Hand(p)
           /\ \E k \in 0..Len(inbox[q]) : inbox'[q] = SubSeq(inbox[q], 1, k)
  <1>1. /\ stream' = [stream EXCEPT ![q] = NoStream] /\ UNCHANGED handlers
        /\ inbox[q] \in Seq(Item)
    BY DEF StopStream, AbandonStream, StreamInv, StreamTypeOK
  <1>2. 0 \in 0..Len(inbox[q]) /\ SubSeq(inbox[q], 1, 0) = <<>>
    BY <1>1
  <1>3. PICK k \in 0..Len(inbox[q]) : inbox' = [inbox EXCEPT ![q] = SubSeq(inbox[q], 1, k)]
    BY <1>2 DEF StopStream, AbandonStream
  <1>4. SubSeq(inbox[q], 1, k) \in Seq(Item)
    BY <1>1
  <1>5. /\ StreamTypeOK'
        /\ stream'[q] = NoStream /\ inbox'[q] = SubSeq(inbox[q], 1, k)
        /\ \A p \in Peers : p # q => stream'[p] = stream[p] /\ inbox'[p] = inbox[p]
    BY <1>1, <1>3, <1>4 DEF StreamInv, StreamTypeOK
  <1>6. StreamInv'
    BY <1>1, <1>5 DEF StreamInv
  <1>7. \A p \in Peers : Hand(p)' = IF p = q THEN NoItem ELSE Hand(p)
    BY <1>1, <1>5 DEF Hand
  <1>8. QED
    BY <1>1, <1>5, <1>6, <1>7

LEMMA TakesKept ==
    ASSUME StreamInv, NEW q \in Peers, TakeInbox(q)
    PROVE  /\ StreamInv'
           /\ UNCHANGED <<handlers, stream>>
           /\ inbox[q] # <<>> /\ inbox[q] \in Seq(Item) /\ inbox'[q] = Tail(inbox[q])
           /\ Head(inbox[q]) \in Item /\ Head(inbox[q]).at \in Nat
           /\ \A p \in Peers : Hand(p)' = Hand(p) /\ (p # q => inbox'[p] = inbox[p])
  <1>1. /\ inbox[q] \in Seq(Item) /\ inbox[q] # <<>> /\ UNCHANGED <<handlers, stream>>
        /\ inbox' = [inbox EXCEPT ![q] = Tail(inbox[q])]
    BY DEF TakeInbox, StreamInv, StreamTypeOK
  <1>2. Tail(inbox[q]) \in Seq(Item) /\ Head(inbox[q]) \in Item
    BY <1>1
  <1>3. inbox' \in [Peers -> Seq(Item)] /\ inbox'[q] = Tail(inbox[q])
        /\ \A p \in Peers : p # q => inbox'[p] = inbox[p]
    BY <1>1, <1>2 DEF StreamInv, StreamTypeOK
  <1>4. StreamInv' /\ \A p \in Peers : Hand(p)' = Hand(p)
    BY <1>1, <1>3 DEF StreamInv, StreamTypeOK, Hand
  <1>5. Head(inbox[q]).at \in Nat
    BY <1>2 DEF Item
  <1>6. QED
    BY <1>1, <1>2, <1>3, <1>4, <1>5

LEMMA InitStream == StreamInit => StreamInv
  BY DEF StreamInit, StreamInv, StreamTypeOK

-----------------------------------------------------------------------------
(* The server and its clients beside the streams.                          *)

\* What ChatSystem's proofs show of its states.
ServerInv == TypeInv /\ WalkInv /\ (NamesAreOwn => SessionInv /\ LogInv)

\* The logs only grow, and no step of ChatSystem moves a cursor.
LogsGrow ==
    /\ UNCHANGED <<eventIndices, messageIndices>>
    /\ \/ UNCHANGED clientEvents
       \/ \E e \in ClientEventData : clientEvents' = Append(clientEvents, e)
    /\ \/ UNCHANGED messageHistory
       \/ \E m \in Message : messageHistory' = Append(messageHistory, m)

LEMMA InitServer == Init => ServerInv
  <1> SUFFICES ASSUME Init
               PROVE  ServerInv
    OBVIOUS
  <1>1. TypeInv /\ WalkInv /\ SessionInv
    BY InitTyped, InitSession
  <1>2. dispatch = Unlocked /\ (\A n : PeersNamed(n) = {}) /\ clientEvents = <<>>
    BY DEF Init, ServiceInit, RegistryInit, DispatcherInit, ClientEventsInit, PeersNamed,
           isPeerConnected
  <1>3. \A n : ~Announced(n) /\ ~InFlight(n)
    BY <1>2 DEF Announced, InFlight
  <1>4. LogInv
    BY <1>2, <1>3 DEF LogInv
  <1>5. QED
    BY <1>1, <1>4 DEF ServerInv

LEMMA ServerKept ==
    ASSUME ServerInv, [Next]_vars
    PROVE  ServerInv'
  <1>1. NamesAreOwn' <=> NamesAreOwn
    BY DEF NamesAreOwn
  <1>2. TypeInv' /\ WalkInv'
    BY NextTyped, WalkKept DEF ServerInv
  <1>3. NamesAreOwn => SessionInv' /\ LogInv'
    BY NextSession, NextLog DEF ServerInv
  <1>4. QED
    BY <1>1, <1>2, <1>3 DEF ServerInv

\* A handler of a stream changes nothing of ChatSystem but cursors and queues.
LEMMA ServerFrame ==
    ASSUME ServerInv,
           UNCHANGED <<now, clients, clientEvents, messageHistory, privateSent, lastMessageTime,
                       statisticsVars, dispatch, calls, admittedAt, clientVars>>,
           eventIndices' \in [Peers -> Nat \cup {NoIndex}],
           messageIndices' \in [Peers -> Nat \cup {NoIndex}],
           peerMessageQueues' \in [Peers -> Seq(PrivateMessage)]
    PROVE  ServerInv'
  <1>1. TypeOK'
    BY DEF ServerInv, TypeInv, TypeOK, RegistryTypeOK, MessagesTypeOK, PrivateTypeOK,
           ClientEventsTypeOK, ValidationTypeOK, StatisticsTypeOK, DispatcherTypeOK, ServiceTypeOK,
           ClientTypeOK, clientVars, statisticsVars
  <1>2. WalkOwned' /\ WalkInv'
    BY DEF ServerInv, TypeInv, WalkOwned, WalkInv
  <1>3. TimesPassed'
    BY DEF ServerInv, TypeInv, TimesPassed, isPeerConnected
  <1>4. NamesAreOwn' <=> NamesAreOwn
    BY DEF NamesAreOwn
  <1>5. SessionInv => SessionInv'
    <2>1. \A t \in Threads : (Past(t)' <=> Past(t)) /\ (calls[t] # NoCall => SameCall(calls[t], calls'[t]))
      BY DEF Past, SameCall
    <2>2. QED
      BY <2>1, SessionFrame DEF ServerInv
  <1>6. LogInv => LogInv'
    BY LogFrame DEF InFlight
  <1>7. QED
    BY <1>1, <1>2, <1>3, <1>4, <1>5, <1>6 DEF ServerInv, TypeInv

LEMMA ObserverGrows ==
    ASSUME TypeInv, ObserverStep
    PROVE  LogsGrow
  <1> DEFINE e == dispatch.event
  <1>1. CASE EventsLog
    <2>1. PICK kind, entry :
             /\ kind \in {"ClientConnected", "ClientDisconnected"}
             /\ Notifies("clientEvents", kind) /\ entry.pseudonym = e.pseudonym
             /\ entry = [type |-> IF kind = "ClientConnected" THEN "ADD" ELSE "REMOVE",
                         pseudonym |-> e.pseudonym]
             /\ clientEvents' = Append(clientEvents, entry)
             /\ UNCHANGED eventIndices
      BY <1>1 DEF EventsLog, EventsOnClientConnected, EventsOnClientDisconnected, broadcastClientEvent
    <2>2. e.pseudonym \in Pseudonyms
      BY <2>1, NotifiedEvent DEF ClientConnectedEvent, ClientDisconnectedEvent
    <2>3. entry \in ClientEventData
      BY <2>1, <2>2 DEF ClientEventData
    <2>4. UNCHANGED <<messageHistory, messageIndices>>
      BY <1>1 DEF EventsLog, messageVars
    <2>5. QED
      BY <2>1, <2>3, <2>4 DEF LogsGrow
  <1>2. CASE MessagesStore
    <2>1. Notifies("messages", "MessageSent") /\ MessagesOnMessageSent(e)
      BY <1>2 DEF MessagesStore
    <2>2. e \in MessageSentEvent
      BY <2>1, NotifiedEvent
    <2>3. [author |-> e.pseudonym, content |-> e.content, sender |-> e.peer, sentAt |-> e.sentAt]
            \in Message
      BY <2>2 DEF MessageSentEvent, Message
    <2>4. UNCHANGED <<clientEvents, eventIndices>>
      BY <1>2 DEF MessagesStore, clientEventVars
    <2>5. QED
      BY <2>1, <2>3, <2>4 DEF MessagesOnMessageSent, LogsGrow
  <1>3. CASE RegistryConnected \/ RegistryDisconnected \/ DatabaseLogs \/ PrivateQueues
    BY <1>3 DEF RegistryConnected, RegistryDisconnected, DatabaseLogs, PrivateQueues, messageVars,
                clientEventVars, LogsGrow
  <1>4. QED
    BY <1>1, <1>2, <1>3 DEF ObserverStep

LEMMA NextGrows ==
    ASSUME TypeInv, [Next]_vars
    PROVE  LogsGrow
  <1>1. CASE UNCHANGED <<messageVars, clientEventVars>>
    BY <1>1 DEF messageVars, clientEventVars, LogsGrow
  <1>2. CASE UNCHANGED <<serverVars, clientVars>>
    BY <1>1, <1>2 DEF serverVars
  <1>3. ASSUME NEW t \in Threads, HandlerStep(t)
        PROVE  LogsGrow
    BY <1>1, <1>3 DEF HandlerStep, ConnectCheck, ConnectRoster, ConnectNotify, DisconnectDuration,
          DisconnectNotify, SendLookup, SendValidate, SendRecipient, SendNotify, Notify, LocalStep
  <1>4. ASSUME NEW t \in Threads, DropAnswer(t)
        PROVE  LogsGrow
    BY <1>1, <1>4 DEF DropAnswer, LocalStep
  <1>5. ASSUME NEW p \in Peers, UserStep(p) \/ ReplyStep(p)
        PROVE  LogsGrow
    <2>1. LocalStep
      BY <1>5 DEF UserStep, ReplyStep, Login, ConnectTimesOut, Disconnect, CloseWindow, PrepareClose,
            CloseUnused, SendMessage, Crash, LoginSucceeded, LoginRejected, Disconnected, MessageSent
    <2>2. QED
      BY <1>1, <2>1 DEF LocalStep
  <1>6. QED
    BY <1>2, <1>3, <1>4, <1>5, ObserverGrows DEF Next, vars

-----------------------------------------------------------------------------
(* The Connect a client waits for.                                         *)

Connecting(p) == awaiting[p] # NoThread /\ Busy(awaiting[p], "Connect")

\* It has read the names that its answer will carry.
NamesRead(p) == Connecting(p) /\ calls[awaiting[p]].pc \in {"notify", "dispatching", "accepted"}

\* A step of the server's on an awaited Connect: it reads the names, or it
\* leaves them as they are.
LEMMA ServerConnects ==
    ASSUME TypeInv, NEW p \in Peers, NEW t, t = awaiting[p], Connecting(p)',
           \/ \E u \in Threads : HandlerStep(u) \/ DropAnswer(u)
           \/ ObserverStep
    PROVE  /\ UNCHANGED clientVars /\ t \in Threads
           /\ Connecting(p)
           /\ NamesRead(p)' =>
                \/ ConnectRoster(t)
                \/ /\ NamesRead(p)
                   /\ calls'[t].connectedPseudonyms = calls[t].connectedPseudonyms
  <1>1. /\ calls \in [Threads -> Call \cup {NoCall}] /\ CallsTyped
        /\ awaiting \in [Peers -> Threads \cup {NoThread}]
    BY DEF TypeInv, TypeOK, ServiceTypeOK, ClientTypeOK, CallsTyped
  <1>2. ASSUME NEW u \in Threads, HandlerStep(u)
        PROVE  /\ UNCHANGED clientVars /\ t \in Threads
               /\ Connecting(p)
               /\ NamesRead(p)' =>
                    \/ ConnectRoster(t)
                    \/ /\ NamesRead(p)
                       /\ calls'[t].connectedPseudonyms = calls[t].connectedPseudonyms
    <2>1. Shape(u) /\ UNCHANGED clientVars /\ UNCHANGED awaiting
      BY <1>2, HandlerShape DEF Shape, clientVars
    <2>2. t \in Threads /\ t # NoThread /\ calls'[t] # NoCall /\ calls'[t].op = "Connect"
      BY <1>1, <2>1 DEF Connecting, Busy
    <2>3. calls[t] # NoCall /\ calls[t].op = "Connect"
      BY <2>1, <2>2 DEF Shape, SameCall
    <2>4. CASE u # t
      <3>1. calls'[t] = calls[t]
        BY <2>1, <2>2, <2>4 DEF Shape
      <3>2. QED
        BY <2>1, <2>2, <2>3, <3>1 DEF Connecting, NamesRead, Busy
    <2>5. CASE u = t
      <3> DEFINE c == calls[t]
      <3>1. c \in ConnectCall
        BY <1>1, <2>2, <2>3, CallOfOp
      <3>2. ConnectCheck(t) \/ ConnectRoster(t) \/ ConnectNotify(t)
        BY <1>2, <2>3, <2>5 DEF HandlerStep, DisconnectDuration, DisconnectNotify, SendLookup,
              SendValidate, SendRecipient, SendNotify, Notify, At
      <3>3. CASE ConnectCheck(t)
        <4> DEFINE e == [c EXCEPT !.pc = "roster", !.checkedAt = now]
                   f == [c EXCEPT !.pc = "rejected"]
        <4>1. e.pc = "roster" /\ f.pc = "rejected"
          BY <3>1 DEF ConnectCall
        <4>2. calls' = [calls EXCEPT ![t] = e] \/ calls' = [calls EXCEPT ![t] = f]
          BY <3>3 DEF ConnectCheck, Continue, Goto
        <4> HIDE DEF e, f
        <4>3. calls'[t].pc \in {"roster", "rejected"}
          BY <1>1, <2>2, <4>1, <4>2
        <4>4. QED
          BY <2>1, <2>2, <2>3, <4>3 DEF Connecting, NamesRead, Busy
      <3>4. CASE ConnectNotify(t)
        <4> DEFINE e == [c EXCEPT !.pc = "dispatching"]
        <4>1. e.connectedPseudonyms = c.connectedPseudonyms
          BY <3>1 DEF ConnectCall
        <4>2. calls' = [calls EXCEPT ![t] = e] /\ c.pc = "notify"
          BY <3>4 DEF ConnectNotify, Notify, Goto, Continue, At
        <4> HIDE DEF e
        <4>3. calls'[t].connectedPseudonyms = c.connectedPseudonyms
          BY <1>1, <2>2, <4>1, <4>2
        <4>4. QED
          BY <2>1, <2>2, <2>3, <4>2, <4>3 DEF Connecting, NamesRead, Busy
      <3>5. QED
        BY <2>1, <2>2, <2>3, <3>2, <3>3, <3>4 DEF Connecting, Busy
    <2>6. QED
      BY <2>4, <2>5
  <1>3. ASSUME NEW u \in Threads, DropAnswer(u)
        PROVE  /\ UNCHANGED clientVars /\ t \in Threads
               /\ Connecting(p)
               /\ NamesRead(p)' =>
                    /\ NamesRead(p)
                    /\ calls'[t].connectedPseudonyms = calls[t].connectedPseudonyms
    <2>1. /\ calls' = [calls EXCEPT ![u] = NoCall] /\ UNCHANGED clientVars /\ UNCHANGED awaiting
          /\ u # t
      BY <1>3 DEF DropAnswer, clientVars
    <2>2. t \in Threads /\ calls'[t] = calls[t]
      BY <1>1, <2>1 DEF Connecting
    <2>3. QED
      BY <2>1, <2>2 DEF Connecting, NamesRead, Busy
  <1>4. CASE ObserverStep
    <2> DEFINE o == dispatch.owner
               c == calls[o]
               e == [c EXCEPT !.pc = Answer(c.op)]
    <2>1. /\ Returns /\ ObserverReturns /\ UNCHANGED clientVars /\ UNCHANGED awaiting
          /\ o \in Threads /\ c # NoCall /\ c.pc = "dispatching"
      BY <1>4, ObserverShape DEF clientVars, Returns
    <2>2. t \in Threads /\ t # NoThread /\ calls'[t] # NoCall /\ calls'[t].op = "Connect"
      BY <1>1, <2>1 DEF Connecting, Busy
    <2>3. calls[t] # NoCall /\ calls[t].op = "Connect"
      BY <2>1, <2>2 DEF Returns, SameCall
    <2>4. CASE calls'[t] = calls[t]
      BY <2>1, <2>2, <2>3, <2>4 DEF Connecting, NamesRead, Busy
    <2>5. CASE t = o /\ calls' # calls
      <3>1. c \in ConnectCall
        BY <1>1, <2>1, <2>3, <2>5, CallOfOp
      <3>2. e.connectedPseudonyms = c.connectedPseudonyms
        BY <3>1 DEF ConnectCall
      <3>3. calls' = [calls EXCEPT ![o] = e]
        BY <2>1, <2>5 DEF ObserverReturns, Goto, Continue
      <3> HIDE DEF e
      <3>4. calls'[t].connectedPseudonyms = c.connectedPseudonyms
        BY <1>1, <2>1, <2>5, <3>2, <3>3
      <3>5. QED
        BY <2>1, <2>2, <2>3, <2>5, <3>4 DEF Connecting, NamesRead, Busy
    <2>6. QED
      BY <2>1, <2>2, <2>4, <2>5 DEF Returns
  <1>5. QED
    BY <1>2, <1>3, <1>4

\* A client waits for a Connect because it has just asked for it, or it did
\* before and nobody else has touched the call.
LEMMA ClientConnects ==
    ASSUME TypeInv, SessionInv, NEW q \in Peers, UserStep(q) \/ ReplyStep(q),
           NEW p \in Peers, NEW t, t = awaiting[p], Connecting(p)'
    PROVE  \/ p = q /\ (\E n \in NamesOf[q] : Login(q, n)) /\ ~NamesRead(p)'
           \/ Connecting(p) /\ awaiting'[p] = t /\ calls'[t] = calls[t]
  <1>1. /\ calls \in [Threads -> Call \cup {NoCall}]
        /\ awaiting \in [Peers -> Threads \cup {NoThread}]
        /\ t \in Threads \cup {NoThread}
        /\ t # NoThread => calls[t] # NoCall /\ calls[t].peer = p
        /\ NoThread \notin Threads
    BY ClientAssumption DEF TypeInv, TypeOK, ServiceTypeOK, ClientTypeOK, SessionInv, AwaitedInv
  <1>2. ASSUME NEW call, call.pc \in {"check", "duration", "lookup"}, Invoke(q, call)
        PROVE  \/ p = q /\ (call.op = "Connect") /\ ~NamesRead(p)'
               \/ Connecting(p) /\ awaiting'[p] = t /\ calls'[t] = calls[t]
    <2>1. PICK u \in Threads : /\ calls[u] = NoCall
                               /\ calls' = [calls EXCEPT ![u] = call]
                               /\ awaiting' = [awaiting EXCEPT ![q] = u]
      BY <1>2 DEF Invoke
    <2>2. CASE p = q
      <3>1. awaiting'[p] = u /\ calls'[u] = call
        BY <1>1, <2>1, <2>2
      <3>2. QED
        BY <1>2, <2>2, <3>1 DEF NamesRead, Connecting, Busy
    <2>3. CASE p # q
      <3>1. awaiting'[p] = t /\ t # NoThread
        BY <1>1, <2>1, <2>3 DEF Connecting
      <3>2. calls'[t] = calls[t]
        BY <1>1, <2>1, <3>1
      <3>3. QED
        BY <3>1, <3>2 DEF Connecting, Busy
    <2>4. QED
      BY <2>2, <2>3
  <1>3. ASSUME NEW n \in NamesOf[q], Login(q, n)
        PROVE  \/ p = q /\ ~NamesRead(p)'
               \/ Connecting(p) /\ awaiting'[p] = t /\ calls'[t] = calls[t]
    BY <1>2, <1>3 DEF Login, NewConnect
  <1>4. ASSUME NEW next, PrepareClose(q, next)
        PROVE  Connecting(p) /\ awaiting'[p] = t /\ calls'[t] = calls[t]
    BY <1>2, <1>4 DEF PrepareClose, NewDisconnect
  <1>5. ASSUME NEW recipient, NEW content, SendMessage(q, recipient, content)
        PROVE  Connecting(p) /\ awaiting'[p] = t /\ calls'[t] = calls[t]
    BY <1>2, <1>5 DEF SendMessage, NewSendMessage
  <1>6. CASE ConnectTimesOut(q) \/ Crash(q) \/ CloseUnused(q)
    <2>1. /\ UNCHANGED calls
          /\ awaiting' = [awaiting EXCEPT ![q] = NoThread] \/ UNCHANGED awaiting
      BY <1>6 DEF ConnectTimesOut, Crash, CloseUnused
    <2>2. awaiting'[p] = t
      BY <1>1, <2>1 DEF Connecting
    <2>3. QED
      BY <2>1, <2>2 DEF Connecting, Busy
  <1>7. CASE ReplyStep(q)
    <2>1. Return(q) /\ awaiting[q] # NoThread
      BY <1>7 DEF ReplyStep, LoginSucceeded, LoginRejected, Disconnected, MessageSent, Returned
    <2>2. calls' = [calls EXCEPT ![awaiting[q]] = NoCall] /\ awaiting' = [awaiting EXCEPT ![q] = NoThread]
      BY <2>1 DEF Return
    <2>3. p # q /\ awaiting'[p] = t /\ t # NoThread
      BY <1>1, <2>2 DEF Connecting
    <2>4. awaiting[q] # t
      BY <1>1, <2>1, <2>3 DEF SessionInv, AwaitedInv
    <2>5. calls'[t] = calls[t]
      BY <1>1, <2>2, <2>3, <2>4
    <2>6. QED
      BY <2>3, <2>5 DEF Connecting, Busy
  <1>8. QED
    BY <1>3, <1>4, <1>5, <1>6, <1>7 DEF UserStep, Disconnect, CloseWindow
===============================================================================
