----------------------- MODULE WebhookDeliveries_proofs -----------------------
(***************************************************************************)
(* Proofs about WebhookDeliveries, for any number of handlers, overlapping *)
(* passes, pushes, events of a pull request and faults: the types, that no *)
(* build of a pull request runs that nobody asked for (PullInv), and that a*)
(* push is built once (BuiltInv, which keeps rows of one commit apart, and *)
(* OrderInv, which keeps the rows in the order of their pushes).           *)
(***************************************************************************)
EXTENDS WebhookDeliveries, TLAPS

LEMMA AppendKeeps ==
  ASSUME NEW S, NEW s \in Seq(S), NEW x \in S
  PROVE  /\ Append(s, x) \in Seq(S)
         /\ Len(Append(s, x)) = Len(s) + 1
         /\ Append(s, x)[Len(s) + 1] = x
         /\ \A i \in 1..Len(s) : Append(s, x)[i] = s[i]
OBVIOUS

AnyEvent == [kind : PullKinds \cup {"push"}, sha : Nat, draft : BOOLEAN,
             skip : BOOLEAN]
AnyRequest == [pc : {"idle", "received", "create", "start"}, event : Nat,
               row : Nat, waits : BOOLEAN]
PushRows(S) == [push : S, status : PushStatuses]
PushRow == PushRows(Nat)

Shapes ==
  /\ events \in Seq(AnyEvent)
  /\ pr \in [head : Nat, draft : BOOLEAN, skip : BOOLEAN]
  /\ built \in Seq(PushRow)
  /\ \A i \in 1..Len(built) : built[i].push \in 1..Len(events)
  /\ handler \in [Handlers -> AnyRequest]
  /\ \A h \in Handlers : Busy(h) => handler[h].event \in 1..Len(events)
  /\ \A h \in Handlers : At(h, "start") => handler[h].row \in 1..Len(built)

HoldsPush(h) == Busy(h) /\ Serves(h).kind = "push"

(* Two handlers that hold one commit received it while the other held it.  *)
HeldTwice ==
  \A g, h \in Handlers :
    g # h /\ HoldsPush(g) /\ HoldsPush(h) /\ Serves(g).sha = Serves(h).sha
      => Serves(h).sha \in overlap

(* What a handler is about to insert is not the newest row, or was handled *)
(* twice at once.                                                          *)
NewWhenCreated ==
  \A h \in Handlers :
    At(h, "create") /\ HoldsPush(h) /\ AlreadyBuilt(Serves(h).sha)
      => Serves(h).sha \in overlap

(* Two rows of one commit in succession.                                   *)
NotInARow ==
  \A i \in 1..(Len(built) - 1) :
    CommitOf(i) = CommitOf(i + 1) => CommitOf(i) \in overlap

BuiltInv == Shapes /\ HeldTwice /\ NewWhenCreated /\ NotInARow

(* The rows are of the pushes they were of, whatever becomes of them.      *)
PushesKept ==
  /\ built' \in Seq(PushRow) /\ Len(built') = Len(built)
  /\ \A i \in 1..Len(built) : built'[i].push = built[i].push

LEMMA StandingRows == Shapes /\ UNCHANGED built => PushesKept
BY DEF Shapes, PushesKept

(* A sequence given entry by entry.                                        *)
LEMMA Entries ==
  ASSUME NEW S, NEW n \in Nat, NEW s, s = [i \in 1..n |-> s[i]],
         \A i \in 1..n : s[i] \in S
  PROVE  s \in Seq(S) /\ Len(s) = n /\ DOMAIN s = 1..n
<1>1. s \in [1..n -> S]
  OBVIOUS
<1>. QED BY <1>1

LEMMA SeqFacts ==
  ASSUME NEW S, NEW s \in Seq(S)
  PROVE  /\ Len(s) \in Nat /\ DOMAIN s = 1..Len(s)
         /\ \A i \in 1..Len(s) : s[i] \in S
OBVIOUS

(* A start changes the status of rows, and nothing else.                   *)
LEMMA StartedKeeps ==
  ASSUME NEW S, NEW rows \in Seq(PushRows(S)), NEW i
  PROVE  /\ Started(rows, i) \in Seq(PushRows(S))
         /\ Len(Started(rows, i)) = Len(rows)
         /\ \A j \in 1..Len(rows) : Started(rows, i)[j].push = rows[j].push
<1>. DEFINE R == PushRows(S)
            new == Started(rows, i)
<1>1. Len(rows) \in Nat /\ DOMAIN rows = 1..Len(rows)
      /\ \A j \in 1..Len(rows) : rows[j] \in R
  BY SeqFacts
<1>2. \A j \in 1..Len(rows) : new[j] \in R /\ new[j].push = rows[j].push
  <2>. SUFFICES ASSUME NEW j \in 1..Len(rows)
                PROVE  new[j] \in R /\ new[j].push = rows[j].push
    OBVIOUS
  <2>. DEFINE d == rows[j]
  <2>1. d \in R
    BY <1>1
  <2>2. new[j] \in {d, [d EXCEPT !.status = "started"], [d EXCEPT !.status = "superseded"]}
    BY <1>1 DEF Started
  <2>. HIDE DEF new, d
  <2>3. d.push = rows[j].push
    BY DEF d
  <2>4. \A s \in PushStatuses : [d EXCEPT !.status = s] \in R
                                /\ [d EXCEPT !.status = s].push = d.push
    BY <2>1 DEF PushRows
  <2>5. "started" \in PushStatuses /\ "superseded" \in PushStatuses
    BY DEF PushStatuses
  <2>. QED BY <2>1, <2>2, <2>3, <2>4, <2>5
<1>3. new = [j \in 1..Len(rows) |-> new[j]]
  BY <1>1 DEF Started
<1>. HIDE DEF new
<1>4. new \in Seq(R) /\ Len(new) = Len(rows)
  BY <1>1, <1>2, <1>3, Entries
<1>. QED BY <1>2, <1>4 DEF new

LEMMA InitBuilt == Init => BuiltInv
<1>. SUFFICES ASSUME Init PROVE BuiltInv
  OBVIOUS
<1>1. Shapes
  <2>1. /\ events = <<>> /\ built = <<>>
        /\ pr = [head |-> 0, draft |-> FALSE, skip |-> FALSE]
    BY DEF Init, ReceiverInit
  <2>2. events \in Seq(AnyEvent) /\ built \in Seq(PushRow) /\ Len(built) = 0
    BY <2>1
  <2>3. pr \in [head : Nat, draft : BOOLEAN, skip : BOOLEAN]
    BY <2>1
  <2>4. /\ handler = [h \in Handlers |-> Idle]
        /\ Idle \in AnyRequest /\ Idle.pc = "idle"
    BY DEF Init, ReceiverInit, Idle, AnyRequest
  <2>5. handler \in [Handlers -> AnyRequest] /\ \A h \in Handlers : ~Busy(h) /\ ~At(h, "start")
    BY <2>4 DEF Busy, At
  <2>. QED BY <2>2, <2>3, <2>5 DEF Shapes
<1>2. HeldTwice /\ NewWhenCreated
  BY DEF Init, ReceiverInit, HeldTwice, NewWhenCreated, HoldsPush, Busy, Idle, At
<1>3. NotInARow
  <2>1. built = <<>> /\ Len(built) = 0
    BY DEF Init, ReceiverInit
  <2>. QED BY <2>1 DEF NotInARow
<1>. QED BY <1>1, <1>2, <1>3 DEF BuiltInv

(* Steps of anything but handlers, pushes and rows of the branch.          *)
LEMMA OthersKeepBuilt ==
  ASSUME BuiltInv, UNCHANGED <<events, pr, built, handler, overlap>>
  PROVE  BuiltInv'
BY DEF BuiltInv, Shapes, HeldTwice, NewWhenCreated, NotInARow, HoldsPush, Busy,
       Serves, At, AlreadyBuilt, CommitOf

(* A handler ends, or goes on with the same event; before it inserts a row *)
(* it has seen that the newest one is of another commit.                   *)
LEMMA HandlerKeepsBuilt ==
  ASSUME BuiltInv, UNCHANGED <<events, pr, overlap>>, PushesKept,
         NEW h \in Handlers, NEW r \in AnyRequest,
         handler' = [handler EXCEPT ![h] = r],
         r.pc # "idle" => /\ Busy(h) /\ r.event = handler[h].event
                          /\ r.row = handler[h].row
                          /\ \/ r.pc = handler[h].pc
                             \/ r.pc = "create" /\ (HoldsPush(h) =>
                                     ~AlreadyBuilt(Serves(h).sha))
  PROVE  BuiltInv'
<1>2. /\ \A g \in Handlers : handler'[g] = IF g = h THEN r ELSE handler[g]
  BY DEF BuiltInv, Shapes
<1>1. Shapes'
  <2>1. handler' \in [Handlers -> AnyRequest]
    BY DEF BuiltInv, Shapes
  <2>2. \A g \in Handlers : /\ Busy(g)' => handler'[g].event \in 1..Len(events)
                            /\ At(g, "start")' => handler'[g].row \in 1..Len(built)
    BY <1>2 DEF BuiltInv, Shapes, Busy, At
  <2>. QED BY <2>1, <2>2 DEF BuiltInv, Shapes, PushesKept
<1>0. /\ \A i \in 1..Len(built) : CommitOf(i)' = CommitOf(i)
      /\ \A sha : AlreadyBuilt(sha)' => AlreadyBuilt(sha)
  <2>1. \A i \in 1..Len(built) : CommitOf(i)' = CommitOf(i)
    BY DEF CommitOf, PushesKept
  <2>2. built' # <<>> => Len(built) \in 1..Len(built) /\ built # <<>>
    BY DEF PushesKept, BuiltInv, Shapes
  <2>. QED BY <2>1, <2>2 DEF AlreadyBuilt, PushesKept
<1>3. \A g \in Handlers : HoldsPush(g)' => HoldsPush(g) /\ Serves(g)' = Serves(g)
  BY <1>2 DEF HoldsPush, Busy, Serves
<1>4. HeldTwice'
  BY <1>3 DEF BuiltInv, HeldTwice
<1>5. NewWhenCreated'
  BY <1>0, <1>2, <1>3 DEF BuiltInv, NewWhenCreated, At, HoldsPush, Busy
<1>6. NotInARow'
  <2>1. \A i \in 1..(Len(built) - 1) : i \in 1..Len(built) /\ i + 1 \in 1..Len(built)
    BY DEF BuiltInv, Shapes
  <2>. QED BY <1>0, <2>1 DEF BuiltInv, NotInARow, PushesKept
<1>. QED BY <1>1, <1>4, <1>5, <1>6 DEF BuiltInv

LEMMA SendsAppends ==
  ASSUME NEW ref, NEW kind \in PullKinds \cup {"push"}, NEW sha \in Nat,
         NEW draft \in BOOLEAN, NEW skip \in BOOLEAN,
         Sends(ref, kind, sha, draft, skip)
  PROVE  /\ UNCHANGED <<handler, built, overlap>>
         /\ \E x \in AnyEvent : events' = Append(events, x)
<1>. DEFINE x == [kind |-> kind, sha |-> sha, draft |-> draft, skip |-> skip]
<1>1. x \in AnyEvent
  BY DEF AnyEvent
<1>2. events' = Append(events, x) /\ UNCHANGED <<handler, built, overlap>>
  BY DEF Sends
<1>. QED BY <1>1, <1>2

LEMMA UsersKeepBuilt ==
  ASSUME BuiltInv, Users
  PROVE  BuiltInv'
<1>0. Shapes
  BY DEF BuiltInv
<1>1. /\ UNCHANGED <<handler, built, overlap>>
      /\ pr' \in [head : Nat, draft : BOOLEAN, skip : BOOLEAN]
      /\ \E x \in AnyEvent : events' = Append(events, x)
  <2>0. pr.head \in Nat /\ pr.draft \in BOOLEAN /\ pr.skip \in BOOLEAN
    BY <1>0 DEF Shapes
  <2>1. NewCommit \in Nat
    BY <1>0 DEF Shapes, NewCommit
  <2>2. CASE Push
    <3>1. PICK sha \in {NewCommit} \cup {events[e].sha : e \in PushEvents},
               eol \in BOOLEAN : Sends("branch", "push", sha, FALSE, eol) /\ UNCHANGED pr
      BY <2>2 DEF Push
    <3>2. \A e \in PushEvents : events[e] \in AnyEvent
      BY <1>0 DEF Shapes, PushEvents
    <3>3. sha \in Nat
      BY <2>1, <3>1, <3>2 DEF AnyEvent
    <3>. QED BY <1>0, <3>1, <3>3, SendsAppends DEF Shapes
  <2>3. CASE PullOpened
    <3>1. PICK draft \in BOOLEAN, skip \in BOOLEAN :
            /\ Sends("pull_request", "opened", NewCommit, draft, skip)
            /\ pr' = [head |-> NewCommit, draft |-> draft, skip |-> skip]
      BY <2>3 DEF PullOpened
    <3>. QED BY <3>1, <2>1, SendsAppends DEF PullKinds
  <2>4. CASE PullSynchronized
    <3>1. PICK skip \in BOOLEAN :
            /\ Sends("pull_request", "synchronize", NewCommit, pr.draft, skip)
            /\ pr' = [pr EXCEPT !.head = NewCommit, !.skip = skip]
      BY <2>4 DEF PullSynchronized
    <3>2. pr' \in [head : Nat, draft : BOOLEAN, skip : BOOLEAN]
      BY <3>1, <2>1, <1>0 DEF Shapes
    <3>. QED BY <3>1, <3>2, <2>0, <2>1, SendsAppends DEF PullKinds
  <2>5. CASE PullConverted
    <3>. DEFINE kind == IF pr.draft THEN "ready_for_review" ELSE "converted_to_draft"
    <3>1. /\ Sends("pull_request", kind, pr.head, ~pr.draft, pr.skip)
          /\ pr' = [pr EXCEPT !.draft = ~@]
      BY <2>5 DEF PullConverted
    <3>2. kind \in PullKinds
      BY DEF PullKinds
    <3>3. pr' \in [head : Nat, draft : BOOLEAN, skip : BOOLEAN]
      BY <3>1, <1>0 DEF Shapes
    <3>. HIDE DEF kind
    <3>4. (~pr.draft) \in BOOLEAN
      OBVIOUS
    <3>. QED BY <3>1, <3>2, <3>3, <3>4, <2>0, SendsAppends
  <2>. QED BY <2>2, <2>3, <2>4, <2>5 DEF Users
<1>2. PICK x \in AnyEvent : events' = Append(events, x)
  BY <1>1
<1>3. /\ events' \in Seq(AnyEvent) /\ Len(events') = Len(events) + 1
      /\ Len(events) \in Nat
      /\ \A i \in 1..Len(events) : events'[i] = events[i]
  BY <1>2, AppendKeeps DEF BuiltInv, Shapes
<1>4. Shapes'
  BY <1>1, <1>3 DEF BuiltInv, Shapes, Busy, At
<1>5. \A h \in Handlers :
        /\ Busy(h)' = Busy(h)
        /\ Busy(h) => Serves(h)' = Serves(h)
  BY <1>1, <1>3 DEF BuiltInv, Shapes, Busy, Serves
<1>6. HeldTwice'
  BY <1>1, <1>5 DEF BuiltInv, HeldTwice, HoldsPush
<1>9. \A i \in 1..Len(built) : CommitOf(i)' = CommitOf(i)
  BY <1>1, <1>3 DEF BuiltInv, Shapes, CommitOf
<1>10. built # <<>> => Len(built) \in 1..Len(built)
  BY DEF BuiltInv, Shapes
<1>7. NewWhenCreated'
  BY <1>1, <1>5, <1>9, <1>10 DEF BuiltInv, NewWhenCreated, HoldsPush, At, AlreadyBuilt
<1>8. NotInARow'
  <2>1. \A i \in 1..(Len(built) - 1) : i \in 1..Len(built) /\ i + 1 \in 1..Len(built)
    BY DEF BuiltInv, Shapes
  <2>. QED BY <1>1, <1>9, <2>1 DEF BuiltInv, NotInARow
<1>. QED BY <1>4, <1>6, <1>7, <1>8 DEF BuiltInv

LEMMA ReceivesKeepsBuilt ==
  ASSUME BuiltInv, NEW h \in Handlers, NEW e \in DOMAIN events, Receives(h, e)
  PROVE  BuiltInv'
<1>1. /\ UNCHANGED <<events, pr, built>>
      /\ handler' = [handler EXCEPT ![h] = [pc |-> "received", event |-> e,
                                            row |-> 0, waits |-> TRUE]]
      /\ overlap \subseteq overlap'
  BY DEF Receives, github
<1>2. e \in 1..Len(events) /\ e \in Nat
  BY DEF BuiltInv, Shapes
<1>3. \A g \in Handlers : handler'[g] =
        IF g = h THEN [pc |-> "received", event |-> e, row |-> 0, waits |-> TRUE]
        ELSE handler[g]
  BY <1>1 DEF BuiltInv, Shapes
<1>4. Shapes'
  <2>1. handler' \in [Handlers -> AnyRequest]
    BY <1>1, <1>2 DEF BuiltInv, Shapes, AnyRequest
  <2>2. \A g \in Handlers : /\ Busy(g)' => handler'[g].event \in 1..Len(events)
                            /\ At(g, "start")' => handler'[g].row \in 1..Len(built)
    BY <1>2, <1>3 DEF BuiltInv, Shapes, Busy, At
  <2>. QED BY <1>1, <2>1, <2>2 DEF BuiltInv, Shapes
<1>5. \A g \in Handlers \ {h} :
        HoldsPush(g) /\ events[e].kind = "push" /\ Serves(g).sha = events[e].sha
          => events[e].sha \in overlap'
  BY DEF Receives, HoldsPush, IsPull, PullKinds
<1>6. \A g \in Handlers \ {h} : HoldsPush(g)' = HoldsPush(g) /\ Serves(g)' = Serves(g)
  BY <1>1, <1>3 DEF HoldsPush, Busy, Serves
<1>7. Serves(h)' = events[e] /\ (HoldsPush(h)' => events[e].kind = "push")
  BY <1>1, <1>3 DEF HoldsPush, Busy, Serves
<1>8. HeldTwice'
  <2>. SUFFICES ASSUME NEW f \in Handlers, NEW g \in Handlers, f # g,
                       HoldsPush(f)', HoldsPush(g)', Serves(f)'.sha = Serves(g)'.sha
                PROVE  Serves(g)'.sha \in overlap'
    BY DEF HeldTwice
  <2>1. CASE f = h
    BY <2>1, <1>5, <1>6, <1>7
  <2>2. CASE g = h
    BY <2>2, <1>5, <1>6, <1>7
  <2>3. CASE f # h /\ g # h
    BY <2>3, <1>1, <1>6 DEF BuiltInv, HeldTwice
  <2>. QED BY <2>1, <2>2, <2>3
<1>9. NewWhenCreated'
  <2>1. \A g \in Handlers : At(g, "create")' => g # h /\ At(g, "create")
    BY <1>3 DEF At
  <2>. QED BY <2>1, <1>1, <1>6 DEF BuiltInv, NewWhenCreated, AlreadyBuilt, CommitOf
<1>10. NotInARow'
  BY <1>1 DEF BuiltInv, NotInARow, CommitOf
<1>. QED BY <1>4, <1>8, <1>9, <1>10 DEF BuiltInv

LEMMA CreatesBuildKeepsBuilt ==
  ASSUME BuiltInv, NEW h \in Handlers, CreatesBuild(h)
  PROVE  BuiltInv'
<1>0. PICK n \in Nat, e \in Nat : n = Len(built) + 1 /\ e = handler[h].event
  BY DEF BuiltInv, Shapes, AnyRequest
<1>. DEFINE x == [push |-> e, status |-> "pending"]
            at == [handler[h] EXCEPT !.pc = "start"]
            r == [at EXCEPT !.row = n]
<1>1. /\ UNCHANGED <<events, pr, overlap>>
      /\ handler' = [handler EXCEPT ![h] = r]
      /\ built' = Append(built, x)
      /\ At(h, "create") /\ HoldsPush(h)
  BY <1>0 DEF CreatesBuild, github, HoldsPush, Busy, At
<1>2. e \in 1..Len(events) /\ x \in PushRow /\ x.push = e /\ n \in Nat
  BY <1>0, <1>1 DEF BuiltInv, Shapes, HoldsPush, PushRow, PushRows, PushStatuses
<1>3. r \in AnyRequest /\ r.event = e /\ r.pc = "start" /\ r.row = n
  <2>1. handler[h] \in AnyRequest
    BY DEF BuiltInv, Shapes
  <2>2. at \in AnyRequest /\ at.event = e /\ at.pc = "start"
    BY <1>0, <2>1 DEF AnyRequest
  <2>. HIDE DEF at
  <2>. QED BY <2>2, <1>2 DEF AnyRequest
<1>. HIDE DEF x, r
<1>4. /\ built' \in Seq(PushRow) /\ Len(built') = n /\ Len(built) \in Nat
      /\ n = Len(built) + 1 /\ n # 0
      /\ built'[n].push = e
      /\ \A i \in 1..Len(built) : built'[i] = built[i]
  BY <1>0, <1>1, <1>2, AppendKeeps DEF BuiltInv, Shapes
<1>5. \A g \in Handlers : handler'[g] = IF g = h THEN r ELSE handler[g]
  BY <1>1 DEF BuiltInv, Shapes
<1>6. Shapes'
  <2>1. handler' \in [Handlers -> AnyRequest]
    BY <1>1, <1>3 DEF BuiltInv, Shapes
  <2>2. \A g \in Handlers : /\ Busy(g)' => handler'[g].event \in 1..Len(events)
                            /\ At(g, "start")' => handler'[g].row \in 1..n
    BY <1>2, <1>3, <1>4, <1>5 DEF BuiltInv, Shapes, Busy, At
  <2>3. \A i \in 1..n : built'[i].push \in 1..Len(events)
    <3>1. \A i \in 1..n : i = n \/ i \in 1..Len(built)
      BY <1>4
    <3>. QED BY <3>1, <1>2, <1>4 DEF BuiltInv, Shapes
  <2>. QED BY <1>1, <1>4, <2>1, <2>2, <2>3 DEF BuiltInv, Shapes
<1>7. \A g \in Handlers : HoldsPush(g)' => HoldsPush(g) /\ Serves(g)' = Serves(g)
  BY <1>0, <1>1, <1>3, <1>5 DEF HoldsPush, Busy, Serves
<1>8. HeldTwice'
  BY <1>1, <1>7 DEF BuiltInv, HeldTwice
<1>9. /\ \A i \in 1..Len(built) : CommitOf(i)' = CommitOf(i)
      /\ CommitOf(n)' = Serves(h).sha
  BY <1>0, <1>1, <1>4 DEF CommitOf, Serves
<1>10. NewWhenCreated'
  <2>1. \A g \in Handlers : AlreadyBuilt(Serves(g).sha)' /\ HoldsPush(g)' =>
                              Serves(g).sha = Serves(h).sha
    BY <1>4, <1>7, <1>9 DEF AlreadyBuilt
  <2>2. \A g \in Handlers : At(g, "create")' => g # h
    BY <1>3, <1>5 DEF At
  <2>. QED BY <2>1, <2>2, <1>1, <1>7 DEF BuiltInv, NewWhenCreated, HeldTwice
<1>11. NotInARow'
  <2>. SUFFICES ASSUME NEW i \in 1..Len(built), CommitOf(i)' = CommitOf(i + 1)'
                PROVE  CommitOf(i)' \in overlap
    BY <1>1, <1>4 DEF NotInARow
  <2>1. CASE i = Len(built)
    <3>1. built # <<>> /\ CommitOf(Len(built)) = Serves(h).sha
      BY <2>1, <1>4, <1>9
    <3>. QED BY <3>1, <2>1, <1>1, <1>9 DEF BuiltInv, NewWhenCreated, AlreadyBuilt
  <2>2. CASE i # Len(built)
    <3>1. i \in 1..(Len(built) - 1) /\ i + 1 \in 1..Len(built)
      BY <2>2, <1>4
    <3>. QED BY <3>1, <1>9 DEF BuiltInv, NotInARow
  <2>. QED BY <2>1, <2>2
<1>. QED BY <1>6, <1>8, <1>10, <1>11 DEF BuiltInv

LEMMA HandlesKeepsBuilt ==
  ASSUME BuiltInv, NEW h \in Handlers, Handles(h)
  PROVE  BuiltInv'
<1>0. /\ Idle \in AnyRequest /\ Idle.pc = "idle"
      /\ handler[h] \in AnyRequest
      /\ UNCHANGED built => PushesKept
  BY StandingRows DEF BuiltInv, Shapes, Idle, AnyRequest
<1>1. CASE CreatesBuild(h)
  BY <1>1, CreatesBuildKeepsBuilt
<1>2. CASE PushIsNew(h) \/ PullIsNew(h)
  <2>. DEFINE r == [handler[h] EXCEPT !.pc = "create"]
  <2>1. /\ UNCHANGED <<events, pr, built, overlap>> /\ handler' = [handler EXCEPT ![h] = r]
        /\ Busy(h) /\ (HoldsPush(h) => ~AlreadyBuilt(Serves(h).sha))
    BY <1>2 DEF PushIsNew, PullIsNew, WantsTest, Goto, github, At, Busy, HoldsPush, PullKinds
  <2>2. /\ r \in AnyRequest /\ r.pc = "create" /\ r.event = handler[h].event
        /\ r.row = handler[h].row
    BY <1>0 DEF AnyRequest
  <2>. HIDE DEF r
  <2>. QED BY <1>0, <2>1, <2>2, HandlerKeepsBuilt
<1>3. CASE \/ PushIsBuilt(h) \/ Republishes(h) \/ PullIsDraft(h) \/ PullIsSkipped(h)
           \/ PullHasBuild(h) \/ PullIsPaused(h) \/ CreatesTest(h) \/ RowIsSuperseded(h)
  <2>1. /\ UNCHANGED <<events, pr, built, overlap>>
        /\ handler' = [handler EXCEPT ![h] = Idle]
    BY <1>3 DEF PushIsBuilt, Republishes, PullIsDraft, PullIsSkipped, PullHasBuild,
                PullIsPaused, CreatesTest, RowIsSuperseded, Answers, github
  <2>. QED BY <2>1, <1>0, HandlerKeepsBuilt
<1>4. CASE StartsBuild(h)
  <2>1. /\ UNCHANGED <<events, pr, overlap>>
        /\ handler' = [handler EXCEPT ![h] = Idle]
        /\ built' = Started(built, handler[h].row)
    BY <1>4 DEF StartsBuild, Answers, github
  <2>2. PushesKept
    <3>1. built \in Seq(PushRow)
      BY DEF BuiltInv, Shapes
    <3>3. \A i : /\ Started(built, i) \in Seq(PushRow)
                 /\ Len(Started(built, i)) = Len(built)
                 /\ \A j \in 1..Len(built) : Started(built, i)[j].push = built[j].push
      BY <3>1, StartedKeeps DEF PushRow
    <3>. QED BY <2>1, <3>3 DEF PushesKept
  <2>. QED BY <2>1, <2>2, <1>0, HandlerKeepsBuilt
<1>. QED BY <1>1, <1>2, <1>3, <1>4 DEF Handles

LEMMA FailsKeepsBuilt ==
  ASSUME BuiltInv, Fails
  PROVE  BuiltInv'
<1>0. UNCHANGED built => PushesKept
  BY StandingRows DEF BuiltInv
<1>1. CASE \E e \in DOMAIN events : Refused(e)
  <2>1. UNCHANGED <<events, pr, built, handler, overlap>>
    BY <1>1 DEF Refused, github
  <2>. QED BY <2>1, OthersKeepBuilt
<1>2. ASSUME NEW h \in Handlers, AnswerTooLate(h)
      PROVE  BuiltInv'
  <2>. DEFINE r == [handler[h] EXCEPT !.waits = FALSE]
  <2>1. /\ UNCHANGED <<events, pr, built, overlap>> /\ handler' = [handler EXCEPT ![h] = r]
    BY <1>2 DEF AnswerTooLate, github
  <2>2. /\ r \in AnyRequest /\ r.pc = handler[h].pc /\ r.event = handler[h].event
        /\ r.row = handler[h].row
    BY DEF BuiltInv, Shapes, AnyRequest
  <2>. HIDE DEF r
  <2>. QED BY <1>0, <2>1, <2>2, HandlerKeepsBuilt DEF Busy
<1>3. ASSUME NEW h \in Handlers, HandlerDies(h) \/ StartRaises(h)
      PROVE  BuiltInv'
  <2>1. /\ UNCHANGED <<events, pr, built, overlap>>
        /\ handler' = [handler EXCEPT ![h] = Idle]
        /\ Idle \in AnyRequest /\ Idle.pc = "idle"
    BY <1>3 DEF HandlerDies, StartRaises, Answers, github, Idle, AnyRequest
  <2>. QED BY <1>0, <2>1, HandlerKeepsBuilt
<1>. QED BY <1>1, <1>2, <1>3 DEF Fails

LEMMA ReconcileKeepsBuilt ==
  ASSUME BuiltInv, NEW r \in Reconcilers,
         Reconcile(r) \/ \E x \in reconciler[r].todo : PassFails(r, x)
  PROVE  BuiltInv'
<1>1. UNCHANGED <<events, pr, built, handler, overlap>>
  BY DEF Reconcile, Reconciles, Lists, SkipsStale, Picks, SkipsBuilt, Redelivers,
         PassFails, receiverVars, github
<1>. QED BY <1>1, OthersKeepBuilt

LEMMA NextBuilt == BuiltInv /\ [Next]_vars => BuiltInv'
<1>. SUFFICES ASSUME BuiltInv, [Next]_vars PROVE BuiltInv'
  OBVIOUS
<1>1. CASE Users
  BY <1>1, UsersKeepBuilt
<1>2. CASE Fails
  BY <1>2, FailsKeepsBuilt
<1>3. CASE \E h \in Handlers, e \in DOMAIN events : Receives(h, e)
  BY <1>3, ReceivesKeepsBuilt
<1>4. CASE \E h \in Handlers : Handles(h)
  BY <1>4, HandlesKeepsBuilt
<1>5. CASE (\E i \in DOMAIN tests : TestStarts(i) \/ TestEnds(i)) \/ PenaltyPasses
  <2>1. UNCHANGED <<events, pr, built, handler, overlap>>
    BY <1>5 DEF TestStarts, TestEnds, PenaltyPasses, github
  <2>. QED BY <2>1, OthersKeepBuilt
<1>6. CASE \E r \in Reconcilers :
             Reconcile(r) \/ \E x \in reconciler[r].todo : PassFails(r, x)
  BY <1>6, ReconcileKeepsBuilt
<1>7. CASE UNCHANGED vars
  <2>1. UNCHANGED <<events, pr, built, handler, overlap>>
    BY <1>7 DEF vars, receiverVars
  <2>. QED BY <2>1, OthersKeepBuilt
<1>. QED BY <1>1, <1>2, <1>3, <1>4, <1>5, <1>6, <1>7 DEF Next

-----------------------------------------------------------------------------
(* What the events say, and what refers to them.                           *)
EventsFit ==
  \A e \in DOMAIN events :
    /\ events[e].sha \in 1..MaxEvents /\ events[e].sha <= e
    /\ IsPull(e) <=> about = "pull_request"
    /\ events[e].kind \in {"opened", "synchronize"} => events[e].sha = e
    /\ events[e].kind = "ready_for_review" => ~events[e].draft
    /\ events[e].kind = "converted_to_draft" => events[e].draft

DeliveriesFit ==
  /\ delivery \in Seq([out : Nat, failed : Nat, ok : BOOLEAN])
  /\ Len(delivery) = Len(events)

HandlersFit ==
  /\ handler \in [Handlers -> [pc : {"idle", "received", "create", "start"},
                               event : 0..MaxEvents, row : Nat,
                               waits : BOOLEAN]]
  /\ \A h \in Handlers :
       /\ Busy(h) => handler[h].event \in DOMAIN events
       /\ handler[h].waits => Busy(h)

RowsFit ==
  /\ built \in Seq([push : 1..MaxEvents, status : PushStatuses])
  /\ tests \in Seq([sha : 1..MaxEvents, status : Statuses, started : BOOLEAN])
  /\ \A i \in DOMAIN tests :
       /\ tests[i].status \in {"running", "succeeded", "failed"} =>
            tests[i].started
       /\ tests[i].status = "pending" => ~tests[i].started
  /\ over \subseteq DOMAIN tests
  /\ about = "branch" => tests = <<>>

PassesFit ==
  \A r \in Reconcilers :
    /\ reconciler[r].todo \subseteq PushEvents \X (1..MaxAttempts)
    /\ reconciler[r].at \in 0..MaxEvents

RefsFit ==
  /\ about \in {"branch", "pull_request"}
  /\ events \in Seq(Event) /\ Len(events) <= MaxEvents
  /\ head \in 0..MaxEvents
  /\ pr \in [head : 0..MaxEvents, draft : BOOLEAN, skip : BOOLEAN]
  /\ pr.head <= Len(events)
  /\ events # <<>> /\ about = "pull_request" =>
       events[Len(events)].draft = pr.draft

(* A row that keeps a later one of its commit from being made.             *)
Counts(i) ==
  tests[i].status \notin {"cancelled", "superseded"} \/ tests[i].started

(* The pull request's events are handled one by one, in their order, and   *)
(* none is delivered twice.                                                *)
OneByOne ==
  /\ \A g, h \in Handlers : Busy(g) /\ Busy(h) => g = h
  /\ \A e \in DOMAIN events :
       delivery[e].out <= 1 /\ (delivery[e].ok => delivery[e].out = 0)
  /\ \A h \in Handlers : Busy(h) =>
       /\ handler[h].waits
       /\ delivery[handler[h].event].out = 0
       /\ \A e \in DOMAIN events : delivery[e].ok => e < handler[h].event

(* What a handler is about to insert has no row that counts.               *)
NewWhenTested ==
  \A h \in Handlers : At(h, "create") =>
    /\ ~Serves(h).draft
    /\ Serves(h).kind = "ready_for_review" => ~HasBuild(Serves(h).sha)

RowsAreHandled ==
  \A i \in DOMAIN tests :
    \E e \in DOMAIN events : delivery[e].ok /\ events[e].sha = tests[i].sha

CountsOnce ==
  \A i, j \in DOMAIN tests :
    Counts(i) /\ Counts(j) /\ tests[i].sha = tests[j].sha => i = j

(* The newest event that was handled.                                      *)
NewestHandled(e) ==
  delivery[e].ok /\ \A f \in DOMAIN events : delivery[f].ok => f <= e

NoDraftWaits ==
  \A i \in DOMAIN tests : tests[i].status = "pending" =>
    \A e \in DOMAIN events : NewestHandled(e) => ~events[e].draft

PullInOrder ==
  about = "pull_request" /\ ~late =>
    OneByOne /\ NewWhenTested /\ RowsAreHandled /\ CountsOnce /\ NoDraftWaits

DeliveryInv ==
  /\ EventsFit /\ RefsFit /\ DeliveriesFit /\ HandlersFit /\ RowsFit
  /\ PassesFit /\ republished \subseteq 1..MaxEvents
PullInv == DeliveryInv /\ PullInOrder

LEMMA MaxNat == MaxEvents \in Nat
<1>1. MaxPushes \in Nat /\ MaxPulls \in Nat
  BY ReceiverConstants
<1>. QED BY <1>1 DEF MaxEvents

(* A handler that starts a row has made it (Shapes).                       *)
StartsRows ==
  \A h \in Handlers : handler[h].pc = "start" => handler[h].row \in DOMAIN built

LEMMA DeliveryTypes == DeliveryInv /\ StartsRows => ReconcilerTypeOK
<1>. SUFFICES ASSUME DeliveryInv, StartsRows PROVE ReconcilerTypeOK
  OBVIOUS
<1>0. events \in Seq(Event) /\ Len(events) <= MaxEvents
  BY DEF DeliveryInv, RefsFit
<1>1. PushEvents \subseteq 1..MaxEvents
  BY <1>0, MaxNat DEF PushEvents
<1>2. \A r \in Reconcilers :
        /\ reconciler[r].todo \subseteq (1..MaxEvents) \X (1..MaxAttempts)
        /\ reconciler[r].at \in 0..MaxEvents
  BY <1>1 DEF DeliveryInv, PassesFit
<1>3. WebhookTypeOK
  BY DEF StartsRows, DeliveryInv, RefsFit, DeliveriesFit, HandlersFit, RowsFit, WebhookTypeOK
<1>. QED BY <1>2, <1>3 DEF ReconcilerTypeOK

LEMMA InitPull == Init => PullInv
<1>. SUFFICES ASSUME Init PROVE PullInv
  OBVIOUS
<1>1. /\ about \in {"branch", "pull_request"}
      /\ events = <<>> /\ delivery = <<>> /\ built = <<>> /\ tests = <<>>
      /\ head = 0 /\ pr = [head |-> 0, draft |-> FALSE, skip |-> FALSE]
      /\ handler = [h \in Handlers |-> Idle]
      /\ over = {} /\ republished = {}
      /\ \A r \in Reconcilers : reconciler[r] = Nothing
  BY DEF Init, ReceiverInit
<1>2. MaxEvents \in Nat
  BY MaxNat
<1>3. \A h \in Handlers : ~Busy(h) /\ ~handler[h].waits /\ ~At(h, "create")
  BY <1>1 DEF Busy, Idle, At
<1>4. HandlersFit
  <2>1. Idle \in [pc : {"idle", "received", "create", "start"},
                  event : 0..MaxEvents, row : Nat, waits : BOOLEAN]
    BY <1>2 DEF Idle
  <2>. QED BY <1>1, <1>3, <2>1 DEF HandlersFit
<1>5. Len(<<>>) = 0 /\ DOMAIN <<>> = {} /\ \A S : <<>> \in Seq(S)
  OBVIOUS
<1>6. RefsFit
  <2>0. 0 \in 0..MaxEvents
    BY <1>2
  <2>1. pr \in [head : 0..MaxEvents, draft : BOOLEAN, skip : BOOLEAN]
    BY <1>1, <2>0
  <2>2. pr.head = 0 /\ Len(events) = 0
    BY <1>1, <1>5
  <2>3. events \in Seq(Event) /\ head \in 0..MaxEvents
    BY <1>1, <1>5, <2>0
  <2>4. Len(events) <= MaxEvents /\ pr.head <= Len(events)
    BY <1>2, <2>2
  <2>. QED BY <1>1, <2>1, <2>3, <2>4 DEF RefsFit
<1>7. EventsFit /\ DeliveriesFit
  BY <1>1, <1>5 DEF EventsFit, DeliveriesFit
<1>8. RowsFit
  BY <1>1, <1>5 DEF RowsFit
<1>9. PassesFit
  <2>1. 0 \in 0..MaxEvents
    BY <1>2
  <2>2. Nothing.todo = {} /\ Nothing.at = 0
    BY DEF Nothing
  <2>. QED BY <1>1, <2>1, <2>2 DEF PassesFit
<1>10. PullInOrder
  <2>1. OneByOne /\ NewWhenTested /\ RowsAreHandled /\ CountsOnce /\ NoDraftWaits
    BY <1>1, <1>3, <1>5 DEF OneByOne, NewWhenTested, RowsAreHandled, CountsOnce, NoDraftWaits
  <2>. QED BY <2>1 DEF PullInOrder
<1>. QED BY <1>1, <1>4, <1>6, <1>7, <1>8, <1>9, <1>10 DEF PullInv, DeliveryInv

(* Shapes of what follows from the invariant, for use in the steps.        *)
LEMMA Facts ==
  ASSUME DeliveryInv
  PROVE  /\ events \in Seq(Event) /\ Len(events) \in Nat
         /\ DOMAIN events = 1..Len(events) /\ DOMAIN delivery = DOMAIN events
         /\ Len(events) <= MaxEvents
         /\ DOMAIN events \subseteq 1..MaxEvents
         /\ PushEvents \subseteq DOMAIN events
<1>1. events \in Seq(Event) /\ Len(events) <= MaxEvents
  BY DEF DeliveryInv, RefsFit
<1>2. delivery \in Seq([out : Nat, failed : Nat, ok : BOOLEAN])
      /\ Len(delivery) = Len(events)
  BY DEF DeliveryInv, DeliveriesFit
<1>. QED BY <1>1, <1>2, MaxNat DEF PushEvents

LEMMA Noting ==
  ASSUME DeliveryInv, NEW e \in DOMAIN events
  PROVE  delivery[e] \in [out : Nat, failed : Nat, ok : BOOLEAN]
<1>. DEFINE AnyDelivery == [out : Nat, failed : Nat, ok : BOOLEAN]
<1>1. delivery \in Seq(AnyDelivery) /\ e \in 1..Len(delivery)
  BY Facts DEF DeliveryInv, DeliveriesFit
<1>. HIDE DEF AnyDelivery
<1>2. \A i \in 1..Len(delivery) : delivery[i] \in AnyDelivery
  BY <1>1
<1>3. delivery[e] \in AnyDelivery
  BY <1>1, <1>2
<1>. QED BY <1>3 DEF AnyDelivery

(* A step of anyone but the users leaves what the events say alone.        *)
LEMMA Frame ==
  ASSUME DeliveryInv, UNCHANGED github
  PROVE  /\ EventsFit' /\ RefsFit' /\ MaxEvents' = MaxEvents
         /\ UNCHANGED <<about, events, head, pr>>
         /\ PushEvents' = PushEvents
         /\ (UNCHANGED reconciler => PassesFit')
<1>1. /\ UNCHANGED <<about, events, head, pr>> /\ MaxEvents' = MaxEvents
      /\ PushEvents' = PushEvents
  BY DEF github, MaxEvents, PushEvents, PullEvents, IsPull
<1>2. RefsFit'
  BY <1>1 DEF DeliveryInv, RefsFit
<1>3. EventsFit'
  BY <1>1 DEF DeliveryInv, EventsFit, IsPull
<1>4. UNCHANGED reconciler => PassesFit'
  BY <1>1 DEF DeliveryInv, PassesFit
<1>. QED BY <1>1, <1>2, <1>3, <1>4

(* What an answer leaves behind.                                           *)
Answered(h, ok) ==
  /\ \A g \in Handlers : handler'[g] = IF g = h THEN Idle ELSE handler[g]
  /\ \A e \in DOMAIN events :
       /\ delivery'[e].out = delivery[e].out
       /\ delivery'[e].ok <=> (delivery[e].ok \/
            (e = handler[h].event /\ handler[h].waits /\ ok))

LEMMA AnswersFits ==
  ASSUME DeliveryInv, UNCHANGED github, NEW h \in Handlers, Busy(h),
         NEW ok \in BOOLEAN, Answers(h, ok)
  PROVE  HandlersFit' /\ DeliveriesFit' /\ Answered(h, ok)
<1>. DEFINE e == handler[h].event
            d == delivery[e]
            new == Noted(d, handler[h].waits, ok)
            AnyDelivery == [out : Nat, failed : Nat, ok : BOOLEAN]
<1>1. /\ e \in DOMAIN events /\ e \in 1..Len(delivery)
      /\ delivery \in Seq(AnyDelivery) /\ Len(delivery) = Len(events)
  BY Facts DEF DeliveryInv, HandlersFit, DeliveriesFit
<1>2. d \in AnyDelivery
  BY <1>1, Noting
<1>3. /\ new \in AnyDelivery /\ new.out = d.out
      /\ new.ok <=> (d.ok \/ (handler[h].waits /\ ok))
  <2>1. CASE ~handler[h].waits
    BY <1>2, <2>1 DEF Noted
  <2>2. CASE handler[h].waits /\ ok
    <3>1. new = [d EXCEPT !.ok = TRUE]
      BY <2>2 DEF Noted
    <3>. HIDE DEF d, new
    <3>. QED BY <1>2, <2>2, <3>1
  <2>3. CASE handler[h].waits /\ ~ok
    <3>1. new = [d EXCEPT !.failed = @ + 1]
      BY <2>3 DEF Noted
    <3>. HIDE DEF d, new
    <3>. QED BY <1>2, <2>3, <3>1
  <2>. QED BY <2>1, <2>2, <2>3
<1>4. delivery' = [delivery EXCEPT ![e] = new] /\ handler' = [handler EXCEPT ![h] = Idle]
  BY DEF Answers
<1>. HIDE DEF new, AnyDelivery
<1>5. /\ delivery' \in Seq(AnyDelivery) /\ Len(delivery') = Len(delivery)
      /\ \A f \in DOMAIN events : delivery'[f] = IF f = e THEN new ELSE delivery[f]
  BY <1>1, <1>3, <1>4, Facts
<1>6. DeliveriesFit'
  BY <1>1, <1>5, Frame DEF DeliveriesFit, AnyDelivery
<1>7. \A g \in Handlers : handler'[g] = IF g = h THEN Idle ELSE handler[g]
  BY <1>4 DEF DeliveryInv, HandlersFit
<1>8. HandlersFit'
  <2>1. Idle \in [pc : {"idle", "received", "create", "start"},
                  event : 0..MaxEvents, row : Nat, waits : BOOLEAN]
    BY MaxNat DEF Idle
  <2>2. handler' \in [Handlers -> [pc : {"idle", "received", "create", "start"},
                                   event : 0..MaxEvents, row : Nat,
                                   waits : BOOLEAN]]
    BY <1>4, <2>1 DEF DeliveryInv, HandlersFit
  <2>3. Idle.pc = "idle" /\ Idle.waits = FALSE
    BY DEF Idle
  <2>4. \A g \in Handlers : /\ Busy(g)' => g # h /\ Busy(g)
                            /\ handler'[g].waits => g # h /\ handler[g].waits
    BY <1>7, <2>3 DEF Busy
  <2>5. \A g \in Handlers : g # h => handler'[g] = handler[g]
    BY <1>7
  <2>6. \A g \in Handlers : /\ Busy(g)' => handler'[g].event \in DOMAIN events
                            /\ handler'[g].waits => Busy(g)'
    BY <1>7, <2>4, <2>5 DEF DeliveryInv, HandlersFit, Busy
  <2>. QED BY <2>2, <2>6, Frame DEF HandlersFit
<1>9. Answered(h, ok)
  <2>1. \A f \in DOMAIN events :
          /\ delivery'[f].out = delivery[f].out
          /\ delivery'[f].ok <=> (delivery[f].ok \/ (f = e /\ handler[h].waits /\ ok))
    BY <1>3, <1>5
  <2>. QED BY <1>7, <2>1 DEF Answered
<1>. QED BY <1>6, <1>8, <1>9

AnyRow == [sha : 1..MaxEvents, status : Statuses, started : BOOLEAN]
RowFits(row) ==
  /\ row.status \in {"running", "succeeded", "failed"} => row.started
  /\ row.status = "pending" => ~row.started

(* Rows stay those of their commits, and start to count or to wait only    *)
(* when they are made.                                                     *)
RowsKept ==
  /\ DOMAIN tests' = DOMAIN tests
  /\ \A i \in DOMAIN tests :
       /\ tests'[i].sha = tests[i].sha
       /\ Counts(i)' => Counts(i)
       /\ tests'[i].status = "pending" => tests[i].status = "pending"

LEMMA RowsFacts ==
  ASSUME RowsFit
  PROVE  /\ tests \in Seq(AnyRow) /\ Len(tests) \in Nat
         /\ DOMAIN tests = 1..Len(tests)
         /\ \A i \in DOMAIN tests : tests[i] \in AnyRow /\ RowFits(tests[i])
<1>1. tests \in Seq(AnyRow) /\ \A i \in DOMAIN tests : RowFits(tests[i])
  BY DEF RowsFit, AnyRow, RowFits
<1>2. Len(tests) \in Nat /\ DOMAIN tests = 1..Len(tests)
      /\ \A i \in 1..Len(tests) : tests[i] \in AnyRow
  BY <1>1
<1>. QED BY <1>1, <1>2

(* A row that changes keeps its commit, and what was started stays so.     *)
LEMMA RowCancelled ==
  ASSUME NEW row \in AnyRow, RowFits(row), NEW s \in {"cancelled", "superseded"}
  PROVE  /\ [row EXCEPT !.status = s] \in AnyRow
         /\ RowFits([row EXCEPT !.status = s])
         /\ [row EXCEPT !.status = s].sha = row.sha
         /\ [row EXCEPT !.status = s].status = s
         /\ [row EXCEPT !.status = s].started = row.started
BY DEF AnyRow, RowFits, Statuses

LEMMA CancelsPendingFits ==
  ASSUME DeliveryInv, UNCHANGED <<about, built, over>>, CancelsPending
  PROVE  /\ RowsFit' /\ RowsKept
         /\ \A i \in DOMAIN tests : tests'[i].status # "pending"
<1>. DEFINE new(i) == IF tests[i].status = "pending"
                        THEN [tests[i] EXCEPT !.status = "cancelled"] ELSE tests[i]
<1>0. RowsFit /\ MaxEvents' = MaxEvents
  BY DEF DeliveryInv, MaxEvents
<1>1. \A i \in DOMAIN tests :
        /\ new(i) \in AnyRow /\ RowFits(new(i)) /\ new(i).sha = tests[i].sha
        /\ new(i).status # "pending"
        /\ new(i).started = tests[i].started
        /\ new(i).status \in {tests[i].status, "cancelled"}
  <2>. SUFFICES ASSUME NEW i \in DOMAIN tests
                PROVE  /\ new(i) \in AnyRow /\ RowFits(new(i)) /\ new(i).sha = tests[i].sha
                       /\ new(i).status # "pending"
                       /\ new(i).started = tests[i].started
                       /\ new(i).status \in {tests[i].status, "cancelled"}
    OBVIOUS
  <2>1. tests[i] \in AnyRow /\ RowFits(tests[i])
    BY <1>0, RowsFacts
  <2>. QED BY <2>1, RowCancelled
<1>2. tests' = [i \in DOMAIN tests |-> new(i)]
  BY DEF CancelsPending
<1>. HIDE DEF new
<1>3. tests' = [i \in 1..Len(tests) |-> tests'[i]] /\ Len(tests) \in Nat
      /\ \A i \in 1..Len(tests) : tests'[i] = new(i)
  BY <1>0, <1>2, RowsFacts
<1>4. tests' \in Seq(AnyRow) /\ DOMAIN tests' = DOMAIN tests
  BY <1>0, <1>1, <1>3, Entries, RowsFacts
<1>5. about = "branch" => tests' = <<>>
  BY <1>0, <1>2 DEF RowsFit
<1>6. RowsFit'
  BY <1>0, <1>1, <1>3, <1>4, <1>5, RowsFacts DEF RowsFit, AnyRow, RowFits
<1>7. RowsKept /\ \A i \in DOMAIN tests : tests'[i].status # "pending"
  BY <1>0, <1>1, <1>3, <1>4, RowsFacts DEF RowsKept, Counts
<1>. QED BY <1>6, <1>7

(* A row that changes alone.                                               *)
LEMMA RowChanges ==
  ASSUME DeliveryInv, UNCHANGED <<about, built, over>>,
         NEW i \in DOMAIN tests, NEW row \in AnyRow, RowFits(row),
         row.sha = tests[i].sha, row.status # "pending",
         tests[i].status \in {"pending", "running"},
         tests' = [tests EXCEPT ![i] = row]
  PROVE  RowsFit' /\ RowsKept
<1>0. RowsFit /\ MaxEvents' = MaxEvents
  BY DEF DeliveryInv, MaxEvents
<1>1. /\ tests' \in Seq(AnyRow) /\ DOMAIN tests' = DOMAIN tests
      /\ \A j \in DOMAIN tests : tests'[j] = IF j = i THEN row ELSE tests[j]
  BY <1>0, RowsFacts
<1>2. about = "branch" => tests' = <<>>
  <2>1. about # "branch"
    BY <1>0 DEF RowsFit
  <2>. QED BY <2>1
<1>3. RowsFit'
  BY <1>0, <1>1, <1>2, RowsFacts DEF RowsFit, AnyRow, RowFits
<1>4. RowsKept
  BY <1>0, <1>1 DEF RowsKept, Counts
<1>. QED BY <1>3, <1>4

LEMMA TestStartsFits ==
  ASSUME DeliveryInv, NEW i \in DOMAIN tests, TestStarts(i)
  PROVE  RowsFit' /\ RowsKept
<1>. DEFINE row == [tests[i] EXCEPT !.status = "running", !.started = TRUE]
<1>1. tests[i] \in AnyRow
  BY RowsFacts DEF DeliveryInv
<1>2. row \in AnyRow /\ RowFits(row) /\ row.sha = tests[i].sha /\ row.status # "pending"
  BY <1>1 DEF AnyRow, RowFits, Statuses
<1>3. /\ tests' = [tests EXCEPT ![i] = row] /\ tests[i].status = "pending"
      /\ UNCHANGED <<about, built, over>>
  BY DEF TestStarts, github
<1>. HIDE DEF row
<1>. QED BY <1>2, <1>3, RowChanges

LEMMA TestEndsFits ==
  ASSUME DeliveryInv, NEW i \in DOMAIN tests, TestEnds(i)
  PROVE  RowsFit' /\ RowsKept
<1>1. PICK s \in {"succeeded", "failed", "cancelled"} :
        tests' = [tests EXCEPT ![i].status = s]
  BY DEF TestEnds
<1>. DEFINE row == [tests[i] EXCEPT !.status = s]
<1>2. tests[i] \in AnyRow /\ tests[i].status = "running" /\ tests[i].started
  BY RowsFacts DEF DeliveryInv, TestEnds, RowFits
<1>3. row \in AnyRow /\ RowFits(row) /\ row.sha = tests[i].sha /\ row.status # "pending"
  BY <1>2 DEF AnyRow, RowFits, Statuses
<1>4. /\ tests' = [tests EXCEPT ![i] = row]
      /\ UNCHANGED <<about, built, over>>
  BY <1>1 DEF TestEnds, github
<1>. HIDE DEF row
<1>. QED BY <1>2, <1>3, <1>4, RowChanges

AnyServed == [pc : {"idle", "received", "create", "start"},
              event : 0..MaxEvents, row : Nat, waits : BOOLEAN]

LEMMA HandlerMoves ==
  ASSUME DeliveryInv, UNCHANGED github, NEW h \in Handlers, NEW r \in AnyServed,
         handler' = [handler EXCEPT ![h] = r],
         r.pc # "idle", r.event \in DOMAIN events
  PROVE  /\ HandlersFit'
         /\ \A g \in Handlers : handler'[g] = IF g = h THEN r ELSE handler[g]
<1>1. \A g \in Handlers : handler'[g] = IF g = h THEN r ELSE handler[g]
  BY DEF DeliveryInv, HandlersFit
<1>2. handler' \in [Handlers -> AnyServed]
  BY DEF DeliveryInv, HandlersFit, AnyServed
<1>3. \A g \in Handlers : /\ Busy(g)' => handler'[g].event \in DOMAIN events
                          /\ handler'[g].waits => Busy(g)'
  BY <1>1 DEF DeliveryInv, HandlersFit, Busy
<1>. QED BY <1>1, <1>2, <1>3, Frame DEF HandlersFit, AnyServed

(* Nothing of the pull request is touched.                                 *)
LEMMA RowsStay ==
  ASSUME DeliveryInv, UNCHANGED <<about, built, tests>>, over' \subseteq DOMAIN tests
  PROVE  RowsFit'
<1>1. RowsFit /\ MaxEvents' = MaxEvents
  BY DEF DeliveryInv, MaxEvents
<1>. QED BY <1>1 DEF RowsFit

(* An event that is served.                                                *)
LEMMA ServedFits ==
  ASSUME DeliveryInv, NEW h \in Handlers, Busy(h)
  PROVE  /\ handler[h].event \in DOMAIN events /\ handler[h] \in AnyServed
         /\ Serves(h).sha \in 1..MaxEvents
         /\ Serves(h).draft \in BOOLEAN
         /\ Serves(h).kind \in PullKinds \cup {"push"}
         /\ Serves(h).kind \in PullKinds <=> about = "pull_request"
<1>1. handler[h].event \in DOMAIN events /\ handler[h] \in AnyServed
  BY DEF DeliveryInv, HandlersFit, AnyServed
<1>2. events[handler[h].event] \in Event
  BY <1>1, Facts
<1>. QED BY <1>1, <1>2 DEF DeliveryInv, EventsFit, Serves, IsPull, Event

(* Of a pull request: what the handlers of its events do with its rows.    *)
LEMMA PullHandled ==
  ASSUME DeliveryInv, NEW h \in Handlers,
         PullIsDraft(h) \/ PullIsSkipped(h) \/ PullHasBuild(h) \/ PullIsPaused(h)
  PROVE  /\ Busy(h) /\ At(h, "received") /\ Answers(h, TRUE)
         /\ UNCHANGED <<github, built, republished, over, late>>
         /\ RowsFit' /\ RowsKept
         /\ Serves(h).draft => \A i \in DOMAIN tests : tests'[i].status # "pending"
<1>1. /\ Busy(h) /\ At(h, "received") /\ Answers(h, TRUE)
      /\ UNCHANGED <<github, built, republished, over, late>>
      /\ CancelsPending \/ (UNCHANGED tests /\ ~Serves(h).draft)
  BY DEF PullIsDraft, PullIsSkipped, PullHasBuild, PullIsPaused, WantsTest, At, Busy
<1>2. CASE CancelsPending
  BY <1>1, <1>2, CancelsPendingFits DEF github
<1>3. CASE UNCHANGED tests /\ ~Serves(h).draft
  <2>1. RowsFit'
    BY <1>1, <1>3, RowsStay DEF DeliveryInv, RowsFit, github
  <2>2. RowsKept
    BY <1>3 DEF RowsKept, Counts
  <2>. QED BY <1>1, <1>3, <2>1, <2>2
<1>. QED BY <1>1, <1>2, <1>3

LEMMA SupersededFits ==
  ASSUME NEW row \in AnyRow, RowFits(row)
  PROVE  /\ Superseded(row) \in AnyRow /\ RowFits(Superseded(row))
         /\ Superseded(row).sha = row.sha
         /\ Superseded(row).status # "pending"
         /\ Superseded(row).started = row.started
         /\ Superseded(row).status \in {row.status, "superseded"}
<1>1. CASE row.status \in {"pending", "running"}
  BY <1>1, RowCancelled DEF Superseded
<1>2. CASE row.status \notin {"pending", "running"}
  BY <1>2 DEF Superseded
<1>. QED BY <1>1, <1>2

(* A new row supersedes those before it.                                   *)
LEMMA CreatesTestFits ==
  ASSUME DeliveryInv, NEW h \in Handlers, CreatesTest(h)
  PROVE  /\ Busy(h) /\ At(h, "create") /\ Answers(h, TRUE)
         /\ UNCHANGED <<github, built, republished, over, late>>
         /\ RowsFit'
         /\ DOMAIN tests' = 1..(Len(tests) + 1) /\ DOMAIN tests = 1..Len(tests)
         /\ Len(tests) \in Nat
         /\ tests'[Len(tests) + 1].sha = Serves(h).sha
         /\ \A i \in DOMAIN tests :
              /\ tests'[i].sha = tests[i].sha
              /\ Counts(i)' => Counts(i)
              /\ tests'[i].status # "pending"
<1>. DEFINE mid == [i \in DOMAIN tests |-> Superseded(tests[i])]
            new == [sha |-> Serves(h).sha, status |-> "pending", started |-> FALSE]
<1>0. /\ RowsFit /\ MaxEvents' = MaxEvents
      /\ Busy(h) /\ At(h, "create") /\ Answers(h, TRUE)
      /\ UNCHANGED <<github, built, republished, over, late>>
      /\ UNCHANGED about /\ Serves(h).kind \in PullKinds
  BY DEF DeliveryInv, CreatesTest, github, MaxEvents, At, Busy
<1>1. tests' = Append(mid, new)
  BY DEF CreatesTest
<1>2. \A i \in DOMAIN tests :
        /\ mid[i] \in AnyRow /\ RowFits(mid[i]) /\ mid[i].sha = tests[i].sha
        /\ mid[i].status # "pending"
        /\ mid[i].started = tests[i].started
        /\ mid[i].status \in {tests[i].status, "superseded"}
  <2>. SUFFICES ASSUME NEW i \in DOMAIN tests
                PROVE  /\ mid[i] \in AnyRow /\ RowFits(mid[i]) /\ mid[i].sha = tests[i].sha
                       /\ mid[i].status # "pending"
                       /\ mid[i].started = tests[i].started
                       /\ mid[i].status \in {tests[i].status, "superseded"}
    OBVIOUS
  <2>1. tests[i] \in AnyRow /\ RowFits(tests[i])
    BY <1>0, RowsFacts
  <2>2. mid[i] = Superseded(tests[i])
    OBVIOUS
  <2>. HIDE DEF mid
  <2>. QED BY <2>1, <2>2, SupersededFits
<1>3. new \in AnyRow /\ RowFits(new) /\ new.sha = Serves(h).sha
  BY <1>0, ServedFits DEF AnyRow, RowFits, Statuses
<1>4. mid = [i \in 1..Len(tests) |-> mid[i]] /\ Len(tests) \in Nat
      /\ DOMAIN tests = 1..Len(tests)
  BY <1>0, RowsFacts
<1>. HIDE DEF mid, new
<1>5. mid \in Seq(AnyRow) /\ Len(mid) = Len(tests)
  BY <1>2, <1>4, Entries
<1>6. /\ tests' \in Seq(AnyRow) /\ Len(tests') = Len(tests) + 1
      /\ tests'[Len(tests) + 1] = new
      /\ \A i \in 1..Len(tests) : tests'[i] = mid[i]
  BY <1>1, <1>3, <1>5, AppendKeeps
<1>7. DOMAIN tests' = 1..(Len(tests) + 1)
  BY <1>6
<1>8. \A i \in DOMAIN tests' : RowFits(tests'[i])
  <2>. SUFFICES ASSUME NEW i \in 1..(Len(tests) + 1) PROVE RowFits(tests'[i])
    BY <1>7
  <2>1. CASE i = Len(tests) + 1
    BY <2>1, <1>3, <1>6
  <2>2. CASE i # Len(tests) + 1
    <3>1. i \in 1..Len(tests)
      BY <2>2, <1>4
    <3>. QED BY <3>1, <1>2, <1>4, <1>6
  <2>. QED BY <2>1, <2>2
<1>9. about # "branch"
  BY <1>0, ServedFits
<1>10. RowsFit'
  <2>1. over' \subseteq DOMAIN tests'
    BY <1>0, <1>4, <1>7 DEF RowsFit
  <2>2. built' \in Seq([push : 1..MaxEvents, status : PushStatuses])
    BY <1>0 DEF RowsFit
  <2>. QED BY <1>0, <1>6, <1>8, <1>9, <2>1, <2>2 DEF RowsFit, AnyRow, RowFits
<1>. QED BY <1>0, <1>2, <1>3, <1>4, <1>6, <1>7, <1>10 DEF Counts

(* What is left to show of a step of anyone but the users.                 *)
LEMMA Assembled ==
  ASSUME DeliveryInv, UNCHANGED github, HandlersFit', DeliveriesFit', RowsFit',
         PassesFit' \/ UNCHANGED reconciler, republished' \subseteq 1..MaxEvents
  PROVE  DeliveryInv'
<1>1. EventsFit' /\ RefsFit' /\ PassesFit' /\ MaxEvents' = MaxEvents
  BY Frame
<1>. QED BY <1>1 DEF DeliveryInv

LEMMA DeliveriesStay ==
  ASSUME DeliveryInv, UNCHANGED <<github, delivery>>
  PROVE  DeliveriesFit'
BY DEF DeliveryInv, DeliveriesFit, github

LEMMA HandlersStay ==
  ASSUME DeliveryInv, UNCHANGED <<github, handler>>
  PROVE  HandlersFit'
<1>1. HandlersFit /\ MaxEvents' = MaxEvents /\ events' = events
  BY Frame DEF DeliveryInv
<1>. QED BY <1>1 DEF HandlersFit, Busy

LEMMA HandlesFits ==
  ASSUME DeliveryInv, NEW h \in Handlers, Handles(h), UNCHANGED reconciler
  PROVE  DeliveryInv'
<1>. USE DEF At, Busy
<1>0. RowsFit /\ republished \subseteq 1..MaxEvents
  BY DEF DeliveryInv
<1>1. CASE PushIsBuilt(h) \/ Republishes(h)
  <2>1. /\ Busy(h) /\ Answers(h, TRUE) /\ UNCHANGED <<github, built, tests, over>>
        /\ republished' \in {republished, republished \cup {handler[h].event}}
    BY <1>1 DEF PushIsBuilt, Republishes
  <2>2. HandlersFit' /\ DeliveriesFit'
    BY <2>1, AnswersFits
  <2>3. RowsFit'
    BY <2>1, <1>0, RowsStay DEF RowsFit, github
  <2>4. republished' \subseteq 1..MaxEvents
    <3>1. handler[h].event \in 1..MaxEvents
      BY <2>1, ServedFits, Facts
    <3>. QED BY <2>1, <3>1, <1>0
  <2>. QED BY <2>1, <2>2, <2>3, <2>4, Assembled
<1>2. CASE PushIsNew(h) \/ PullIsNew(h)
  <2>. DEFINE r == [handler[h] EXCEPT !.pc = "create"]
  <2>1. /\ Busy(h) /\ handler' = [handler EXCEPT ![h] = r]
        /\ UNCHANGED <<github, delivery, built, tests, over, republished>>
    BY <1>2 DEF PushIsNew, PullIsNew, WantsTest, Goto
  <2>2. handler[h] \in AnyServed /\ handler[h].event \in DOMAIN events
    BY <2>1, ServedFits
  <2>3. r \in AnyServed /\ r.pc = "create" /\ r.event = handler[h].event
    BY <2>2 DEF AnyServed
  <2>. HIDE DEF r
  <2>4. HandlersFit'
    BY <2>1, <2>2, <2>3, HandlerMoves
  <2>5. RowsFit'
    BY <2>1, <1>0, RowsStay DEF RowsFit, github
  <2>6. DeliveriesFit'
    BY <2>1, DeliveriesStay
  <2>. QED BY <2>1, <2>4, <2>5, <2>6, <1>0, Assembled
<1>3. CASE CreatesBuild(h)
  <2>. DEFINE at == [handler[h] EXCEPT !.pc = "start"]
              r == [at EXCEPT !.row = Len(built) + 1]
              x == [push |-> handler[h].event, status |-> "pending"]
  <2>1. /\ Busy(h) /\ UNCHANGED <<github, delivery, tests, over, republished>>
        /\ handler' = [handler EXCEPT ![h] = r]
        /\ built' = Append(built, x) /\ UNCHANGED about
    BY <1>3 DEF CreatesBuild, github
  <2>2. /\ handler[h] \in AnyServed /\ handler[h].event \in DOMAIN events
        /\ handler[h].event \in 1..MaxEvents /\ MaxEvents' = MaxEvents
    BY <2>1, ServedFits, Facts DEF MaxEvents
  <2>3. r \in AnyServed /\ r.pc = "start" /\ r.event = handler[h].event
    <3>1. at \in AnyServed /\ at.pc = "start" /\ at.event = handler[h].event
      BY <2>2 DEF AnyServed
    <3>2. Len(built) + 1 \in Nat
      BY <1>0 DEF RowsFit
    <3>. HIDE DEF at
    <3>. QED BY <3>1, <3>2 DEF AnyServed
  <2>4. x \in [push : 1..MaxEvents, status : PushStatuses]
    BY <2>2 DEF PushStatuses
  <2>. HIDE DEF r, x
  <2>5. HandlersFit' /\ DeliveriesFit'
    BY <2>1, <2>2, <2>3, HandlerMoves, DeliveriesStay
  <2>6. built' \in Seq([push : 1..MaxEvents, status : PushStatuses])
    BY <2>1, <2>4, <1>0, AppendKeeps DEF RowsFit
  <2>7. RowsFit'
    BY <2>1, <2>2, <2>6, <1>0 DEF RowsFit
  <2>. QED BY <2>1, <2>5, <2>7, <1>0, Assembled
<1>6. CASE StartsBuild(h) \/ RowIsSuperseded(h)
  <2>1. /\ Busy(h) /\ Answers(h, TRUE) /\ UNCHANGED <<github, tests, over, republished>>
        /\ built' \in {built, Started(built, handler[h].row)}
        /\ UNCHANGED about /\ MaxEvents' = MaxEvents
    BY <1>6 DEF StartsBuild, RowIsSuperseded, Starting, github, MaxEvents
  <2>2. HandlersFit' /\ DeliveriesFit'
    BY <2>1, AnswersFits
  <2>3. built' \in Seq([push : 1..MaxEvents, status : PushStatuses])
    <3>1. built \in Seq(PushRows(1..MaxEvents))
      BY <1>0 DEF RowsFit, PushRows
    <3>2. \A i : Started(built, i) \in Seq(PushRows(1..MaxEvents))
      BY <3>1, StartedKeeps
    <3>3. built' \in Seq(PushRows(1..MaxEvents))
      BY <2>1, <3>1, <3>2
    <3>. QED BY <3>3 DEF PushRows
  <2>4. RowsFit'
    BY <2>1, <2>3, <1>0 DEF RowsFit
  <2>. QED BY <2>1, <2>2, <2>4, <1>0, Assembled
<1>4. CASE PullIsDraft(h) \/ PullIsSkipped(h) \/ PullHasBuild(h) \/ PullIsPaused(h)
  <2>1. /\ Busy(h) /\ Answers(h, TRUE) /\ UNCHANGED <<github, republished>>
        /\ RowsFit'
    BY <1>4, PullHandled
  <2>. QED BY <2>1, <1>0, AnswersFits, Assembled
<1>5. CASE CreatesTest(h)
  <2>1. /\ Busy(h) /\ Answers(h, TRUE) /\ UNCHANGED <<github, republished>>
        /\ RowsFit'
    BY <1>5, CreatesTestFits
  <2>. QED BY <2>1, <1>0, AnswersFits, Assembled
<1>. QED BY <1>1, <1>2, <1>3, <1>4, <1>5, <1>6 DEF Handles

LEMMA ReceivesFits ==
  ASSUME DeliveryInv, NEW h \in Handlers, NEW e \in DOMAIN events, Receives(h, e),
         UNCHANGED reconciler
  PROVE  /\ DeliveryInv'
         /\ \A g \in Handlers : handler'[g] =
              IF g = h THEN [pc |-> "received", event |-> e, row |-> 0, waits |-> TRUE]
              ELSE handler[g]
         /\ \A f \in DOMAIN events :
              /\ delivery'[f].out = IF f = e THEN delivery[e].out - 1 ELSE delivery[f].out
              /\ delivery'[f].ok = delivery[f].ok
<1>. DEFINE r == [pc |-> "received", event |-> e, row |-> 0, waits |-> TRUE]
            AnyDelivery == [out : Nat, failed : Nat, ok : BOOLEAN]
            d == delivery[e]
            new == [d EXCEPT !.out = @ - 1]
<1>0. /\ delivery \in Seq(AnyDelivery) /\ Len(delivery) = Len(events)
      /\ DOMAIN delivery = DOMAIN events /\ e \in 1..Len(delivery)
      /\ RowsFit /\ republished \subseteq 1..MaxEvents
  BY Facts DEF DeliveryInv, DeliveriesFit
<1>1. /\ UNCHANGED <<github, built, tests, over, republished>>
      /\ handler' = [handler EXCEPT ![h] = r]
      /\ delivery' = [delivery EXCEPT ![e] = new] /\ d.out > 0
  BY DEF Receives
<1>2. r \in AnyServed /\ r.pc # "idle" /\ r.event = e
  BY Facts DEF AnyServed
<1>3. HandlersFit'
      /\ \A g \in Handlers : handler'[g] = IF g = h THEN r ELSE handler[g]
  <2>. HIDE DEF r
  <2>. QED BY <1>1, <1>2, HandlerMoves
<1>4. d \in AnyDelivery
  BY Noting
<1>5. new \in AnyDelivery /\ new.out = d.out - 1 /\ new.ok = d.ok
  BY <1>1, <1>4
<1>. HIDE DEF new, AnyDelivery
<1>6. /\ delivery' \in Seq(AnyDelivery) /\ Len(delivery') = Len(delivery)
      /\ \A f \in DOMAIN events : delivery'[f] = IF f = e THEN new ELSE delivery[f]
  BY <1>0, <1>1, <1>5
<1>7. DeliveriesFit'
  BY <1>0, <1>1, <1>6, Frame DEF DeliveriesFit, AnyDelivery
<1>8. RowsFit'
  BY <1>0, <1>1, RowsStay DEF RowsFit, github
<1>9. DeliveryInv'
  BY <1>0, <1>1, <1>3, <1>7, <1>8, Assembled
<1>. QED BY <1>3, <1>5, <1>6, <1>9

(* An attempt that does not reach a handler.                               *)
LEMMA RefusedFits ==
  ASSUME DeliveryInv, NEW e \in DOMAIN events, Refused(e), UNCHANGED reconciler
  PROVE  /\ DeliveryInv'
         /\ \A f \in DOMAIN events : /\ delivery'[f].out <= delivery[f].out
                                     /\ delivery'[f].ok = delivery[f].ok
<1>. DEFINE AnyDelivery == [out : Nat, failed : Nat, ok : BOOLEAN]
            d == delivery[e]
            sent == [d EXCEPT !.out = @ - 1]
            new == [sent EXCEPT !.failed = @ + 1]
<1>0. /\ delivery \in Seq(AnyDelivery) /\ Len(delivery) = Len(events)
      /\ DOMAIN delivery = DOMAIN events /\ e \in 1..Len(delivery)
      /\ RowsFit /\ republished \subseteq 1..MaxEvents
  BY Facts DEF DeliveryInv, DeliveriesFit
<1>1. /\ UNCHANGED <<github, handler, built, tests, over, republished>>
      /\ delivery' = [delivery EXCEPT ![e] = new] /\ d.out > 0
  BY DEF Refused
<1>2. \A f \in DOMAIN events : delivery[f] \in AnyDelivery
  BY Noting
<1>3. new \in AnyDelivery /\ new.out = d.out - 1 /\ new.ok = d.ok
  <2>1. d \in AnyDelivery
    BY <1>2
  <2>. HIDE DEF d
  <2>2. sent \in AnyDelivery /\ sent.out = d.out - 1 /\ sent.ok = d.ok
    BY <2>1, <1>1
  <2>. HIDE DEF sent
  <2>. QED BY <2>2
<1>. HIDE DEF new
<1>4. /\ delivery' \in Seq(AnyDelivery) /\ Len(delivery') = Len(delivery)
      /\ \A f \in DOMAIN events : delivery'[f] = IF f = e THEN new ELSE delivery[f]
  <2>. HIDE DEF AnyDelivery
  <2>. QED BY <1>0, <1>1, <1>3
<1>5. DeliveriesFit'
  BY <1>0, <1>1, <1>4, Frame DEF DeliveriesFit
<1>6. RowsFit' /\ HandlersFit'
  BY <1>0, <1>1, RowsStay, HandlersStay DEF RowsFit, github
<1>7. DeliveryInv'
  BY <1>0, <1>1, <1>5, <1>6, Assembled
<1>8. \A f \in DOMAIN events : /\ delivery'[f].out <= delivery[f].out
                               /\ delivery'[f].ok = delivery[f].ok
  <2>. SUFFICES ASSUME NEW f \in DOMAIN events
                PROVE  /\ delivery'[f].out <= delivery[f].out
                       /\ delivery'[f].ok = delivery[f].ok
    OBVIOUS
  <2>0. delivery[f].out \in Nat /\ d.out \in Nat
    BY <1>2
  <2>1. CASE f = e
    <3>1. delivery'[f] = new /\ delivery[f] = d
      BY <1>4, <2>1
    <3>. HIDE DEF d, AnyDelivery
    <3>. QED BY <1>3, <2>0, <3>1
  <2>2. CASE f # e
    <3>1. delivery'[f] = delivery[f]
      BY <1>4, <2>2
    <3>. QED BY <2>0, <3>1
  <2>. QED BY <2>1, <2>2
<1>. QED BY <1>7, <1>8

LEMMA FailsFits ==
  ASSUME DeliveryInv, NEW h \in Handlers, AnswerTooLate(h) \/ HandlerDies(h) \/ StartRaises(h),
         UNCHANGED reconciler
  PROVE  DeliveryInv'
<1>0. RowsFit /\ republished \subseteq 1..MaxEvents
      /\ UNCHANGED <<github, built, tests, over, republished>>
  BY DEF DeliveryInv, AnswerTooLate, HandlerDies, StartRaises
<1>1. RowsFit'
  BY <1>0, RowsStay DEF RowsFit, github
<1>2. HandlersFit' /\ DeliveriesFit'
  <2>1. CASE HandlerDies(h) \/ StartRaises(h)
    BY <1>0, <2>1, AnswersFits DEF HandlerDies, StartRaises, Starting, At, Busy
  <2>2. CASE AnswerTooLate(h)
    <3>. DEFINE AnyDelivery == [out : Nat, failed : Nat, ok : BOOLEAN]
                e == handler[h].event
                r == [handler[h] EXCEPT !.waits = FALSE]
                d == delivery[e]
                new == [d EXCEPT !.failed = @ + 1]
    <3>1. handler' = [handler EXCEPT ![h] = r] /\ delivery' = [delivery EXCEPT ![e] = new]
      BY <2>2 DEF AnswerTooLate
    <3>2. Busy(h)
      BY <2>2 DEF AnswerTooLate, DeliveryInv, HandlersFit
    <3>3. e \in DOMAIN events /\ handler[h] \in AnyServed
      BY <3>2, ServedFits
    <3>4. r \in AnyServed /\ r.pc # "idle" /\ r.event = e
      BY <3>2, <3>3 DEF AnyServed, Busy
    <3>5. /\ delivery \in Seq(AnyDelivery) /\ Len(delivery) = Len(events)
          /\ e \in 1..Len(delivery)
      BY <3>3, Facts DEF DeliveryInv, DeliveriesFit
    <3>6. d \in AnyDelivery
      BY <3>3, Noting
    <3>7. new \in AnyDelivery
      BY <3>6
    <3>. HIDE DEF new, r, AnyDelivery
    <3>8. delivery' \in Seq(AnyDelivery) /\ Len(delivery') = Len(delivery)
      BY <3>1, <3>5, <3>7
    <3>9. DeliveriesFit'
      BY <1>0, <3>5, <3>8, Frame DEF DeliveriesFit, AnyDelivery
    <3>10. HandlersFit'
      BY <1>0, <3>1, <3>3, <3>4, HandlerMoves
    <3>. QED BY <3>9, <3>10
  <2>. QED BY <2>1, <2>2
<1>. QED BY <1>0, <1>1, <1>2, Assembled

(* The steps of a pass; the events it holds are pushes.                    *)
LEMMA ReconcileFits ==
  ASSUME DeliveryInv, NEW r \in Reconcilers,
         Reconcile(r) \/ \E x \in reconciler[r].todo : PassFails(r, x)
  PROVE  /\ DeliveryInv'
         /\ UNCHANGED <<github, handler, tests, late>>
         /\ delivery' # delivery => about = "branch"
<1>0. /\ RowsFit /\ PassesFit /\ DeliveriesFit /\ republished \subseteq 1..MaxEvents
      /\ PushEvents \subseteq DOMAIN events /\ DOMAIN events \subseteq 1..MaxEvents
  BY Facts DEF DeliveryInv
<1>1. UNCHANGED <<github, handler, built, tests, over, republished, late>>
  BY DEF Reconcile, Reconciles, Lists, SkipsStale, Picks, SkipsBuilt, Redelivers,
         PassFails, receiverVars, github
<1>2. HandlersFit' /\ RowsFit'
  BY <1>0, <1>1, HandlersStay, RowsStay DEF RowsFit, github
<1>3. PushEvents' = PushEvents /\ MaxEvents' = MaxEvents
  BY <1>1, Frame
<1>4. CASE Lists(r)
  <2>. DEFINE open == {e \in Undelivered : ~Exhausted(delivery[e].failed)}
              todo == {<<e, delivery[e].failed>> : e \in open}
  <2>1. reconciler' = [reconciler EXCEPT ![r].todo = todo] /\ UNCHANGED delivery
    BY <1>4 DEF Lists, receiverVars
  <2>2. todo \subseteq PushEvents \X (1..MaxAttempts)
    <3>. SUFFICES ASSUME NEW e \in open
                  PROVE  <<e, delivery[e].failed>> \in PushEvents \X (1..MaxAttempts)
      OBVIOUS
    <3>1. e \in PushEvents /\ delivery[e].failed > 0 /\ ~(delivery[e].failed >= MaxAttempts)
      BY DEF Undelivered, Attempted, Exhausted
    <3>2. delivery[e].failed \in Nat
      BY <1>0, <3>1, Noting
    <3>3. delivery[e].failed \in 1..MaxAttempts
      BY <3>1, <3>2, ReconcilerConstants
    <3>. QED BY <3>1, <3>3
  <2>. HIDE DEF todo
  <2>3. PassesFit'
    BY <1>0, <1>3, <2>1, <2>2 DEF PassesFit
  <2>4. DeliveriesFit'
    BY <1>1, <2>1, DeliveriesStay
  <2>. QED BY <1>0, <1>1, <1>2, <2>1, <2>3, <2>4, Assembled
<1>5. ASSUME NEW x \in reconciler[r].todo, Reconciles(r, x) \/ PassFails(r, x)
      PROVE  DeliveryInv' /\ (delivery' # delivery => about = "branch")
  <2>1. x[1] \in PushEvents /\ x[1] \in 1..MaxEvents
    BY <1>0 DEF PassesFit
  <2>2. PassesFit'
    <3>1. CASE Drops(r, x)
      BY <1>0, <1>3, <3>1, MaxNat DEF PassesFit, Drops
    <3>2. CASE Picks(r, x)
      BY <1>0, <1>3, <2>1, <3>2 DEF PassesFit, Picks
    <3>. QED BY <1>5, <3>1, <3>2 DEF Reconciles, SkipsStale, SkipsBuilt, Redelivers, PassFails
  <2>3. DeliveriesFit' /\ (delivery' # delivery => about = "branch")
    <3>1. CASE UNCHANGED delivery
      BY <1>1, <3>1, DeliveriesStay
    <3>2. CASE Redelivers(r, x)
      <4>. DEFINE AnyDelivery == [out : Nat, failed : Nat, ok : BOOLEAN]
                  d == delivery[x[1]]
                  new == [d EXCEPT !.out = @ + 1]
      <4>1. /\ delivery \in Seq(AnyDelivery) /\ Len(delivery) = Len(events)
            /\ x[1] \in 1..Len(delivery)
        BY <1>0, <2>1, Facts DEF DeliveriesFit
      <4>2. d \in AnyDelivery
        BY <1>0, <2>1, Noting
      <4>3. new \in AnyDelivery
        BY <4>2
      <4>4. delivery' = [delivery EXCEPT ![x[1]] = new]
        BY <3>2 DEF Redelivers
      <4>. HIDE DEF new, AnyDelivery
      <4>5. delivery' \in Seq(AnyDelivery) /\ Len(delivery') = Len(delivery)
        BY <4>1, <4>3, <4>4
      <4>6. DeliveriesFit'
        BY <1>1, <4>1, <4>5, Frame DEF DeliveriesFit, AnyDelivery
      <4>7. about = "branch"
        BY <2>1, Facts DEF PushEvents, PullEvents, DeliveryInv, EventsFit, RefsFit
      <4>. QED BY <4>6, <4>7
    <3>. QED BY <1>5, <3>1, <3>2 DEF Reconciles, SkipsStale, SkipsBuilt, Picks, PassFails, receiverVars
  <2>. QED BY <1>0, <1>1, <1>2, <2>2, <2>3, Assembled
<1>. QED BY <1>1, <1>4, <1>5 DEF Reconcile

(* A new event fits the others, and its delivery is on its way.            *)
LEMMA SendsFits ==
  ASSUME DeliveryInv,
         NEW ref \in {"branch", "pull_request"},
         NEW kind \in PullKinds \cup {"push"}, NEW sha \in 1..NewCommit,
         NEW draft \in BOOLEAN, NEW skip \in BOOLEAN,
         Sends(ref, kind, sha, draft, skip), UNCHANGED reconciler,
         kind \in PullKinds <=> ref = "pull_request",
         kind \in {"opened", "synchronize"} => sha = NewCommit,
         kind = "ready_for_review" => ~draft, kind = "converted_to_draft" => draft,
         head' \in {head, sha},
         pr' \in [head : 0..MaxEvents, draft : BOOLEAN, skip : BOOLEAN],
         pr'.head <= NewCommit, ref = "pull_request" => pr'.draft = draft
  PROVE  /\ DeliveryInv'
         /\ UNCHANGED <<about, handler, tests, late>>
         /\ DOMAIN events' = 1..(Len(events) + 1) /\ Len(events) \in Nat
         /\ DOMAIN events = 1..Len(events)
         /\ \A e \in DOMAIN events : /\ events'[e] = events[e]
                                     /\ delivery'[e] = delivery[e]
         /\ delivery'[Len(events) + 1].out = 1
         /\ ~delivery'[Len(events) + 1].ok
<1>. DEFINE x == [kind |-> kind, sha |-> sha, draft |-> draft, skip |-> skip]
            d == [out |-> 1, failed |-> 0, ok |-> FALSE]
            AnyDelivery == [out : Nat, failed : Nat, ok : BOOLEAN]
            n == Len(events) + 1
<1>0. /\ about = ref /\ Len(events) < MaxEvents
      /\ events' = Append(events, x) /\ delivery' = Append(delivery, d)
      /\ UNCHANGED <<about, handler, built, republished, tests, over, late>>
  BY DEF Sends
<1>1. /\ MaxEvents' = MaxEvents /\ MaxEvents \in Nat /\ NewCommit = n
      /\ EventsFit /\ RefsFit /\ DeliveriesFit /\ HandlersFit /\ RowsFit /\ PassesFit
      /\ republished \subseteq 1..MaxEvents
  BY <1>0, MaxNat DEF MaxEvents, DeliveryInv, NewCommit
<1>2. /\ events \in Seq(Event) /\ Len(events) \in Nat /\ DOMAIN events = 1..Len(events)
      /\ delivery \in Seq(AnyDelivery) /\ Len(delivery) = Len(events)
  BY <1>1, Facts DEF DeliveriesFit
<1>3. n \in 1..MaxEvents /\ sha \in 1..MaxEvents /\ sha <= n
  BY <1>0, <1>1, <1>2
<1>4. x \in Event
  <2>1. sha \in 1..Most
    <3>1. MaxPushes \in Nat /\ MaxPulls \in Nat
      BY ReceiverConstants
    <3>2. MaxEvents <= Most /\ Most \in Nat
      BY <3>1 DEF MaxEvents, Most
    <3>. QED BY <1>1, <1>3, <3>2
  <2>. QED BY <2>1 DEF Event
<1>5. /\ x.kind = kind /\ x.sha = sha /\ x.draft = draft
      /\ d \in AnyDelivery /\ d.out = 1 /\ ~d.ok
  OBVIOUS
<1>. HIDE DEF x, d, AnyDelivery
<1>6. /\ events' \in Seq(Event) /\ Len(events') = n /\ events'[n] = x
      /\ \A e \in 1..Len(events) : events'[e] = events[e]
  BY <1>0, <1>2, <1>4, AppendKeeps
<1>7. /\ delivery' \in Seq(AnyDelivery) /\ Len(delivery') = n /\ delivery'[n] = d
      /\ \A e \in 1..Len(events) : delivery'[e] = delivery[e]
  BY <1>0, <1>2, <1>5, AppendKeeps
<1>8. DOMAIN events' = 1..n
  BY <1>2, <1>6
<1>9. EventsFit'
  <2>1. \A e \in 1..Len(events) : IsPull(e)' <=> about' = "pull_request"
    BY <1>0, <1>1, <1>2, <1>6 DEF EventsFit, IsPull
  <2>2. \A e \in 1..n : e = n => (IsPull(e)' <=> about' = "pull_request")
    BY <1>0, <1>5, <1>6 DEF IsPull
  <2>. SUFFICES ASSUME NEW e \in 1..n
                PROVE  /\ events'[e].sha \in 1..MaxEvents /\ events'[e].sha <= e
                       /\ IsPull(e)' <=> about' = "pull_request"
                       /\ events'[e].kind \in {"opened", "synchronize"} => events'[e].sha = e
                       /\ events'[e].kind = "ready_for_review" => ~events'[e].draft
                       /\ events'[e].kind = "converted_to_draft" => events'[e].draft
    BY <1>1, <1>8 DEF EventsFit
  <2>3. CASE e = n
    BY <2>3, <2>2, <1>1, <1>3, <1>5, <1>6
  <2>4. CASE e # n
    <3>1. e \in 1..Len(events)
      BY <2>4, <1>2
    <3>. QED BY <3>1, <2>1, <1>1, <1>2, <1>6 DEF EventsFit
  <2>. QED BY <2>3, <2>4
<1>10. RefsFit'
  <2>1. about' \in {"branch", "pull_request"} /\ head' \in 0..MaxEvents'
    BY <1>0, <1>1, <1>3 DEF RefsFit
  <2>2. Len(events') <= MaxEvents' /\ pr'.head <= Len(events')
    BY <1>1, <1>3, <1>6
  <2>3. about' = "pull_request" => events'[Len(events')].draft = pr'.draft
    BY <1>0, <1>5, <1>6
  <2>. QED BY <1>1, <1>6, <2>1, <2>2, <2>3 DEF RefsFit
<1>11. DeliveriesFit'
  BY <1>6, <1>7 DEF DeliveriesFit, AnyDelivery
<1>12. HandlersFit'
  <2>1. DOMAIN events \subseteq DOMAIN events'
    BY <1>2, <1>8
  <2>. QED BY <1>0, <1>1, <2>1 DEF HandlersFit, Busy
<1>13. RowsFit'
  BY <1>0, <1>1 DEF RowsFit
<1>14. PassesFit'
  <2>1. PushEvents \subseteq PushEvents'
    BY <1>2, <1>6, <1>8 DEF PushEvents, PullEvents, IsPull
  <2>. QED BY <1>1, <2>1 DEF PassesFit
<1>15. DeliveryInv'
  BY <1>0, <1>1, <1>9, <1>10, <1>11, <1>12, <1>13, <1>14 DEF DeliveryInv
<1>. QED BY <1>0, <1>2, <1>5, <1>6, <1>7, <1>8, <1>15

(* What the users do: a new event, its delivery on its way.                *)
NewEvent ==
  /\ UNCHANGED <<about, handler, tests, late>>
  /\ DOMAIN events' = 1..(Len(events) + 1) /\ DOMAIN events = 1..Len(events)
  /\ \A e \in DOMAIN events : /\ events'[e] = events[e]
                              /\ delivery'[e] = delivery[e]
  /\ delivery'[Len(events) + 1].out = 1
  /\ ~delivery'[Len(events) + 1].ok

LEMMA UsersFit ==
  ASSUME DeliveryInv, Users, UNCHANGED reconciler
  PROVE  DeliveryInv' /\ NewEvent
<1>0. /\ RefsFit /\ EventsFit /\ NewCommit \in Nat /\ NewCommit \in 1..NewCommit
      /\ Len(events) \in Nat /\ NewCommit = Len(events) + 1
      /\ DOMAIN events = 1..Len(events) /\ PushEvents \subseteq DOMAIN events
      /\ events \in Seq(Event)
  BY Facts DEF DeliveryInv, NewCommit
<1>1. /\ pr.head \in 0..MaxEvents /\ pr.draft \in BOOLEAN /\ pr.skip \in BOOLEAN
      /\ pr.head <= Len(events)
  BY <1>0 DEF RefsFit
<1>. DEFINE AnyPull == [head : 0..MaxEvents, draft : BOOLEAN, skip : BOOLEAN]
<1>2. pr \in AnyPull
  BY <1>0 DEF RefsFit
<1>3. Len(events) < MaxEvents => NewCommit \in 0..MaxEvents
  BY <1>0, MaxNat
<1>4. CASE Push
  <2>1. PICK sha \in 1..NewCommit, eol \in BOOLEAN :
          /\ Sends("branch", "push", sha, FALSE, eol)
          /\ head' = sha /\ UNCHANGED pr
    <3>1. \A e \in PushEvents : events[e].sha \in 1..NewCommit
      BY <1>0, MaxNat DEF EventsFit
    <3>2. ({NewCommit} \cup {events[e].sha : e \in PushEvents}) \ {head}
            \subseteq 1..NewCommit
      BY <3>1, <1>0
    <3>. QED BY <1>4, <3>2 DEF Push
  <2>2. pr' \in AnyPull /\ pr'.head <= NewCommit /\ head' \in {head, sha}
    BY <1>0, <1>1, <1>2, <2>1, MaxNat
  <2>3. "push" \notin PullKinds
    BY DEF PullKinds
  <2>4. PICK draft \in BOOLEAN : draft = FALSE
    OBVIOUS
  <2>5. Sends("branch", "push", sha, draft, eol)
    BY <2>1, <2>4
  <2>. QED BY <2>1, <2>2, <2>3, <2>5, SendsFits DEF NewEvent
<1>5. CASE PullOpened
  <2>1. PICK draft \in BOOLEAN, skip \in BOOLEAN :
          /\ Sends("pull_request", "opened", NewCommit, draft, skip)
          /\ pr' = [head |-> NewCommit, draft |-> draft, skip |-> skip]
          /\ UNCHANGED head
    BY <1>5 DEF PullOpened
  <2>2. NewCommit \in 0..MaxEvents
    BY <1>3, <2>1 DEF Sends
  <2>3. pr' \in AnyPull /\ pr'.head <= NewCommit /\ pr'.draft = draft
    BY <1>0, <2>1, <2>2
  <2>4. "opened" \in PullKinds
    BY DEF PullKinds
  <2>. QED BY <1>0, <2>1, <2>3, <2>4, SendsFits DEF NewEvent
<1>6. CASE PullSynchronized
  <2>1. PICK skip \in BOOLEAN :
          /\ Sends("pull_request", "synchronize", NewCommit, pr.draft, skip)
          /\ pr' = [pr EXCEPT !.head = NewCommit, !.skip = skip]
          /\ UNCHANGED head
    BY <1>6 DEF PullSynchronized
  <2>2. NewCommit \in 0..MaxEvents
    BY <1>3, <2>1 DEF Sends
  <2>3. pr' \in AnyPull /\ pr'.head <= NewCommit /\ pr'.draft = pr.draft
    <3>. DEFINE moved == [pr EXCEPT !.head = NewCommit]
    <3>1. moved \in AnyPull /\ moved.head = NewCommit /\ moved.draft = pr.draft
      BY <1>2, <2>2
    <3>2. pr' = [moved EXCEPT !.skip = skip]
      BY <2>1
    <3>. HIDE DEF moved
    <3>. QED BY <1>0, <3>1, <3>2
  <2>4. "synchronize" \in PullKinds
    BY DEF PullKinds
  <2>. QED BY <1>0, <1>1, <2>1, <2>3, <2>4, SendsFits DEF NewEvent
<1>7. CASE PullConverted
  <2>. DEFINE kind == IF pr.draft THEN "ready_for_review" ELSE "converted_to_draft"
              draft == ~pr.draft
  <2>1. /\ Sends("pull_request", kind, pr.head, draft, pr.skip)
        /\ pr' = [pr EXCEPT !.draft = ~@] /\ pr.head # 0
        /\ UNCHANGED head
    BY <1>7 DEF PullConverted
  <2>2. pr.head \in 1..NewCommit
    BY <1>0, <1>1, <2>1, MaxNat
  <2>3. pr' \in AnyPull /\ pr'.head <= NewCommit /\ pr'.draft = draft
    <3>1. draft \in BOOLEAN /\ pr' = [pr EXCEPT !.draft = draft]
      BY <2>1
    <3>. HIDE DEF draft
    <3>. QED BY <1>0, <1>1, <1>2, <3>1
  <2>4. /\ kind \in PullKinds /\ draft \in BOOLEAN
        /\ kind \notin {"opened", "synchronize"}
        /\ kind = "ready_for_review" => ~draft
        /\ kind = "converted_to_draft" => draft
    BY <1>1 DEF PullKinds
  <2>. HIDE DEF kind, draft
  <2>. QED BY <1>0, <1>1, <2>1, <2>2, <2>3, <2>4, SendsFits DEF NewEvent
<1>. QED BY <1>4, <1>5, <1>6, <1>7 DEF Users

(* Rows and deliveries that only move on.                                  *)
LEMMA PullFrame ==
  ASSUME PullInv, UNCHANGED <<github, handler, late>>, RowsKept,
         about = "pull_request" =>
           \A e \in DOMAIN events : /\ delivery'[e].out <= delivery[e].out
                                    /\ delivery'[e].ok = delivery[e].ok,
         DeliveryInv'
  PROVE  PullInOrder'
<1>. SUFFICES ASSUME about = "pull_request", ~late
              PROVE  (OneByOne /\ NewWhenTested /\ RowsAreHandled /\ CountsOnce /\ NoDraftWaits)'
  BY DEF PullInOrder, github
<1>1. /\ OneByOne /\ NewWhenTested /\ RowsAreHandled /\ CountsOnce /\ NoDraftWaits
      /\ events' = events
  BY DEF PullInv, PullInOrder, github
<1>2. \A e \in DOMAIN events :
        /\ delivery[e].out \in Nat /\ delivery'[e].out \in Nat
        /\ delivery'[e].out <= delivery[e].out
        /\ delivery'[e].ok = delivery[e].ok
  <2>1. \A e \in DOMAIN events : delivery'[e] \in [out : Nat, failed : Nat, ok : BOOLEAN]
    <3>. DEFINE AnyDelivery == [out : Nat, failed : Nat, ok : BOOLEAN]
    <3>1. delivery' \in Seq(AnyDelivery) /\ Len(delivery') = Len(events)
      BY <1>1 DEF DeliveryInv, DeliveriesFit
    <3>2. DOMAIN events = 1..Len(events)
      BY Facts DEF PullInv
    <3>. HIDE DEF AnyDelivery
    <3>3. \A e \in DOMAIN events : delivery'[e] \in AnyDelivery
      BY <3>1, <3>2
    <3>. QED BY <3>3 DEF AnyDelivery
  <2>2. \A e \in DOMAIN events : delivery[e] \in [out : Nat, failed : Nat, ok : BOOLEAN]
    BY Noting DEF PullInv
  <2>. QED BY <1>1, <2>1, <2>2
<1>3. OneByOne'
  <2>1. \A h \in Handlers : Busy(h) => handler[h].event \in DOMAIN events
    BY DEF PullInv, DeliveryInv, HandlersFit
  <2>. QED BY <1>1, <1>2, <2>1 DEF OneByOne, Busy
<1>4. NewWhenTested'
  BY <1>1 DEF NewWhenTested, HasBuild, At, Serves, RowsKept, Counts
<1>5. RowsAreHandled'
  BY <1>1, <1>2 DEF RowsAreHandled, RowsKept
<1>6. CountsOnce'
  BY <1>1 DEF CountsOnce, RowsKept
<1>7. NoDraftWaits'
  BY <1>1, <1>2 DEF NoDraftWaits, RowsKept, NewestHandled
<1>. QED BY <1>3, <1>4, <1>5, <1>6, <1>7

LEMMA UnchangedDeliveries ==
  ASSUME PullInv, UNCHANGED delivery
  PROVE  \A e \in DOMAIN events : /\ delivery'[e].out <= delivery[e].out
                                  /\ delivery'[e].ok = delivery[e].ok
<1>1. \A e \in DOMAIN events : delivery[e].out \in Nat
  BY Noting DEF PullInv
<1>. QED BY <1>1

LEMMA PullUsers ==
  ASSUME PullInv, NewEvent
  PROVE  PullInOrder'
<1>. SUFFICES ASSUME about = "pull_request", ~late
              PROVE  (OneByOne /\ NewWhenTested /\ RowsAreHandled /\ CountsOnce /\ NoDraftWaits)'
  BY DEF PullInOrder, NewEvent
<1>. DEFINE n == Len(events) + 1
<1>1. /\ OneByOne /\ NewWhenTested /\ RowsAreHandled /\ CountsOnce /\ NoDraftWaits
      /\ UNCHANGED <<handler, tests>>
  BY DEF PullInv, PullInOrder, NewEvent
<1>2. /\ DOMAIN events' = DOMAIN events \cup {n} /\ n \notin DOMAIN events
      /\ \A e \in DOMAIN events : /\ events'[e] = events[e]
                                  /\ delivery'[e] = delivery[e]
      /\ delivery'[n].out = 1 /\ ~delivery'[n].ok
  BY Facts DEF PullInv, NewEvent
<1>. HIDE DEF n
<1>3. \A h \in Handlers : Busy(h) => handler[h].event \in DOMAIN events
  BY DEF PullInv, DeliveryInv, HandlersFit
<1>4. OneByOne'
  BY <1>1, <1>2, <1>3 DEF OneByOne, Busy
<1>5. NewWhenTested'
  BY <1>1, <1>2, <1>3 DEF NewWhenTested, HasBuild, At, Serves, Busy
<1>6. RowsAreHandled'
  BY <1>1, <1>2 DEF RowsAreHandled
<1>7. CountsOnce'
  BY <1>1 DEF CountsOnce, Counts
<1>8. NoDraftWaits'
  BY <1>1, <1>2 DEF NoDraftWaits, NewestHandled
<1>. QED BY <1>4, <1>5, <1>6, <1>7, <1>8

(* A request that is received in order meets no other, and no later one.   *)
LEMMA PullReceives ==
  ASSUME PullInv, NEW h \in Handlers, NEW e \in DOMAIN events, Receives(h, e),
         UNCHANGED reconciler
  PROVE  PullInOrder'
<1>. SUFFICES ASSUME about = "pull_request", ~late'
              PROVE  (OneByOne /\ NewWhenTested /\ RowsAreHandled /\ CountsOnce /\ NoDraftWaits)'
  BY DEF PullInOrder, Receives, github
<1>1. /\ UNCHANGED <<events, tests>> /\ ~late /\ ~Overtaken(e)
      /\ delivery[e].out > 0
  BY DEF Receives, github
<1>2. OneByOne /\ NewWhenTested /\ RowsAreHandled /\ CountsOnce /\ NoDraftWaits
  BY <1>1 DEF PullInv, PullInOrder
<1>3. /\ \A g \in Handlers : handler'[g] =
           IF g = h THEN [pc |-> "received", event |-> e, row |-> 0, waits |-> TRUE]
           ELSE handler[g]
      /\ \A f \in DOMAIN events :
           /\ delivery'[f].out = IF f = e THEN delivery[e].out - 1 ELSE delivery[f].out
           /\ delivery'[f].ok = delivery[f].ok
  BY ReceivesFits DEF PullInv
<1>4. /\ \A g \in Handlers : ~Busy(g)
      /\ \A f \in DOMAIN events : f > e => delivery[f].out # 0
  BY <1>1 DEF Overtaken, Reached
<1>5. \A f \in DOMAIN events : delivery[f].out \in Nat /\ f \in Nat
  BY Noting, Facts DEF PullInv
<1>6. \A f \in DOMAIN events : delivery[f].ok => f < e
  BY <1>1, <1>2, <1>4, <1>5 DEF OneByOne
<1>7. \A g \in Handlers : Busy(g)' => g = h
  BY <1>3, <1>4 DEF Busy
<1>8. handler'[h].event = e /\ handler'[h].waits /\ handler'[h].pc = "received"
  BY <1>3
<1>9. OneByOne'
  <2>1. \A f \in DOMAIN events : delivery'[f].out <= 1 /\ (delivery'[f].ok => delivery'[f].out = 0)
    BY <1>1, <1>2, <1>3, <1>5, <1>6 DEF OneByOne
  <2>2. delivery'[e].out = 0
    BY <1>1, <1>2, <1>3, <1>5 DEF OneByOne
  <2>. QED BY <1>1, <1>3, <1>6, <1>7, <1>8, <2>1, <2>2 DEF OneByOne
<1>10. NewWhenTested'
  BY <1>7, <1>8 DEF NewWhenTested, At, Busy
<1>11. RowsAreHandled' /\ CountsOnce' /\ NoDraftWaits'
  BY <1>1, <1>2, <1>3 DEF RowsAreHandled, CountsOnce, Counts, NoDraftWaits, NewestHandled
<1>. QED BY <1>9, <1>10, <1>11

(* After an answer nobody is busy, and the newest event handled with       *)
(* success is the one answered.                                            *)
LEMMA AnsweredInOrder ==
  ASSUME DeliveryInv, OneByOne, UNCHANGED events, NEW h \in Handlers, Busy(h),
         NEW ok \in BOOLEAN, Answered(h, ok)
  PROVE  /\ OneByOne' /\ NewWhenTested'
         /\ \A e \in DOMAIN events :
              delivery'[e].ok <=> (delivery[e].ok \/ (e = handler[h].event /\ ok))
         /\ ok => \A e \in DOMAIN events : NewestHandled(e)' => e = handler[h].event
         /\ ~ok => \A e \in DOMAIN events : NewestHandled(e)' => NewestHandled(e)
<1>1. /\ \A g \in Handlers : ~Busy(g)'
      /\ handler[h].waits
  BY DEF OneByOne, Answered, Busy, Idle
<1>2. /\ handler[h].event \in DOMAIN events /\ \A e \in DOMAIN events : e \in Nat
      /\ \A e \in DOMAIN events : delivery[e].ok => e < handler[h].event
      /\ \A e \in DOMAIN events : delivery'[e].out = delivery[e].out
      /\ \A e \in DOMAIN events :
           delivery'[e].ok <=> (delivery[e].ok \/ (e = handler[h].event /\ ok))
  BY <1>1, ServedFits, Facts DEF OneByOne, Answered
<1>3. OneByOne'
  BY <1>1, <1>2 DEF OneByOne
<1>4. NewWhenTested'
  BY <1>1 DEF NewWhenTested, At, Busy
<1>. QED BY <1>2, <1>3, <1>4 DEF NewestHandled

LEMMA PullAnswered ==
  ASSUME PullInv, UNCHANGED <<github, late>>, NEW h \in Handlers, Busy(h),
         NEW ok \in BOOLEAN, Answers(h, ok), RowsKept,
         ok /\ Serves(h).draft => \A i \in DOMAIN tests : tests'[i].status # "pending"
  PROVE  PullInOrder'
<1>. SUFFICES ASSUME about = "pull_request", ~late
              PROVE  (OneByOne /\ NewWhenTested /\ RowsAreHandled /\ CountsOnce /\ NoDraftWaits)'
  BY DEF PullInOrder, github
<1>1. OneByOne /\ NewWhenTested /\ RowsAreHandled /\ CountsOnce /\ NoDraftWaits
      /\ DeliveryInv /\ events' = events
  BY DEF PullInv, PullInOrder, github
<1>2. Answered(h, ok)
  BY <1>1, AnswersFits
<1>3. /\ OneByOne' /\ NewWhenTested'
      /\ \A e \in DOMAIN events :
           delivery'[e].ok <=> (delivery[e].ok \/ (e = handler[h].event /\ ok))
      /\ ok => \A e \in DOMAIN events : NewestHandled(e)' => e = handler[h].event
      /\ ~ok => \A e \in DOMAIN events : NewestHandled(e)' => NewestHandled(e)
  BY <1>1, <1>2, AnsweredInOrder
<1>4. RowsAreHandled'
  BY <1>1, <1>3 DEF RowsAreHandled, RowsKept
<1>5. CountsOnce'
  BY <1>1 DEF CountsOnce, RowsKept
<1>6. NoDraftWaits'
  BY <1>1, <1>3 DEF NoDraftWaits, RowsKept, Serves
<1>. QED BY <1>3, <1>4, <1>5, <1>6

LEMMA PullCreates ==
  ASSUME PullInv, NEW h \in Handlers, CreatesTest(h)
  PROVE  PullInOrder'
<1>. SUFFICES ASSUME about = "pull_request", ~late'
              PROVE  (OneByOne /\ NewWhenTested /\ RowsAreHandled /\ CountsOnce /\ NoDraftWaits)'
  BY DEF PullInOrder, CreatesTest, github
<1>. DEFINE n == Len(tests) + 1
            event == handler[h].event
<1>1. /\ Busy(h) /\ At(h, "create") /\ Answers(h, TRUE)
      /\ UNCHANGED <<github, late, events>> /\ DeliveryInv /\ ~late
      /\ DOMAIN tests' = 1..n /\ DOMAIN tests = 1..Len(tests) /\ Len(tests) \in Nat
      /\ tests'[n].sha = Serves(h).sha
      /\ \A i \in DOMAIN tests :
           /\ tests'[i].sha = tests[i].sha
           /\ Counts(i)' => Counts(i)
           /\ tests'[i].status # "pending"
  BY CreatesTestFits DEF PullInv, github
<1>2. OneByOne /\ NewWhenTested /\ RowsAreHandled /\ CountsOnce /\ NoDraftWaits
  BY <1>1 DEF PullInv, PullInOrder
<1>3. TRUE \in BOOLEAN /\ Answered(h, TRUE)
  BY <1>1, AnswersFits
<1>4. PICK ok \in BOOLEAN : ok = TRUE
  OBVIOUS
<1>5. /\ OneByOne' /\ NewWhenTested'
      /\ \A e \in DOMAIN events : delivery'[e].ok <=> (delivery[e].ok \/ e = event)
      /\ \A e \in DOMAIN events : NewestHandled(e)' => e = event
  <2>1. Answered(h, ok)
    BY <1>3, <1>4
  <2>. QED BY <1>1, <1>2, <1>4, <2>1, AnsweredInOrder
<1>6. /\ event \in DOMAIN events /\ Serves(h) = events[event]
      /\ \A e \in DOMAIN events : e \in Nat
  BY <1>1, ServedFits, Facts DEF Serves
<1>7. ~Serves(h).draft
  BY <1>1, <1>2 DEF NewWhenTested
<1>8. \A i \in DOMAIN tests : Counts(i) => tests[i].sha # Serves(h).sha
  <2>1. CASE Serves(h).kind = "ready_for_review"
    <3>1. ~HasBuild(Serves(h).sha)
      BY <1>1, <1>2, <2>1 DEF NewWhenTested
    <3>. QED BY <3>1 DEF HasBuild, Counts
  <2>2. CASE Serves(h).kind \in {"opened", "synchronize"}
    <3>1. Serves(h).sha = event
      BY <1>1, <1>6, <2>2 DEF DeliveryInv, EventsFit
    <3>. SUFFICES ASSUME NEW i \in DOMAIN tests, tests[i].sha = event PROVE FALSE
      BY <3>1
    <3>2. PICK e \in DOMAIN events : delivery[e].ok /\ events[e].sha = event
      BY <1>2 DEF RowsAreHandled
    <3>3. e < event
      BY <1>1, <1>2, <3>2 DEF OneByOne
    <3>4. events[e].sha <= e
      BY <1>1 DEF DeliveryInv, EventsFit
    <3>. QED BY <1>6, <3>2, <3>3, <3>4
  <2>3. Serves(h).kind # "converted_to_draft"
    BY <1>1, <1>6, <1>7 DEF DeliveryInv, EventsFit
  <2>4. Serves(h).kind \in PullKinds
    BY DEF CreatesTest
  <2>. QED BY <2>1, <2>2, <2>3, <2>4 DEF PullKinds
<1>9. \A i \in 1..n : i # n => i \in DOMAIN tests
  BY <1>1
<1>. HIDE DEF n, event
<1>10. RowsAreHandled'
  <2>. SUFFICES ASSUME NEW i \in 1..n
                PROVE  \E e \in DOMAIN events : delivery'[e].ok /\ events[e].sha = tests'[i].sha
    BY <1>1 DEF RowsAreHandled
  <2>1. CASE i = n
    BY <2>1, <1>1, <1>5, <1>6
  <2>2. CASE i # n
    BY <2>2, <1>1, <1>2, <1>5, <1>9 DEF RowsAreHandled
  <2>. QED BY <2>1, <2>2
<1>11. CountsOnce'
  <2>. SUFFICES ASSUME NEW i \in 1..n, NEW j \in 1..n, Counts(i)', Counts(j)',
                       tests'[i].sha = tests'[j].sha
                PROVE  i = j
    BY <1>1 DEF CountsOnce
  <2>1. CASE i = n
    BY <2>1, <1>1, <1>8, <1>9
  <2>2. CASE j = n
    BY <2>2, <1>1, <1>8, <1>9
  <2>3. CASE i # n /\ j # n
    BY <2>3, <1>1, <1>2, <1>9 DEF CountsOnce
  <2>. QED BY <2>1, <2>2, <2>3
<1>12. NoDraftWaits'
  BY <1>1, <1>5, <1>6, <1>7 DEF NoDraftWaits
<1>. QED BY <1>5, <1>10, <1>11, <1>12

(* Every step of a handler, of a failing one, and of anyone.               *)
LEMMA PullHandles ==
  ASSUME PullInv, NEW h \in Handlers, Handles(h), UNCHANGED reconciler
  PROVE  PullInOrder'
<1>0. DeliveryInv /\ DeliveryInv'
  BY HandlesFits DEF PullInv
<1>1. CASE PullIsDraft(h) \/ PullIsSkipped(h) \/ PullHasBuild(h) \/ PullIsPaused(h)
  <2>1. /\ Busy(h) /\ Answers(h, TRUE) /\ UNCHANGED <<github, late>> /\ RowsKept
        /\ Serves(h).draft => \A i \in DOMAIN tests : tests'[i].status # "pending"
    BY <1>0, <1>1, PullHandled
  <2>2. PICK ok \in BOOLEAN : ok = TRUE
    OBVIOUS
  <2>3. Answers(h, ok)
    BY <2>1, <2>2
  <2>. QED BY <2>1, <2>3, PullAnswered
<1>2. CASE CreatesTest(h)
  BY <1>2, PullCreates
<1>3. CASE PullIsNew(h)
  <2>. SUFFICES ASSUME about = "pull_request", ~late
                PROVE  (OneByOne /\ NewWhenTested /\ RowsAreHandled /\ CountsOnce /\ NoDraftWaits)'
    BY <1>3 DEF PullInOrder, PullIsNew, github
  <2>. DEFINE r == [handler[h] EXCEPT !.pc = "create"]
  <2>1. /\ UNCHANGED <<github, delivery, tests, events>> /\ handler' = [handler EXCEPT ![h] = r]
        /\ Busy(h) /\ ~Serves(h).draft
        /\ Serves(h).kind = "ready_for_review" => ~HasBuild(Serves(h).sha)
    BY <1>3 DEF PullIsNew, WantsTest, Needed, Goto, At, Busy, github
  <2>2. OneByOne /\ NewWhenTested /\ RowsAreHandled /\ CountsOnce /\ NoDraftWaits
    BY DEF PullInv, PullInOrder
  <2>3. handler[h] \in AnyServed /\ handler[h].event \in DOMAIN events
    BY <1>0, <2>1, ServedFits
  <2>4. /\ r \in AnyServed /\ r.pc = "create" /\ r.event = handler[h].event
        /\ r.waits = handler[h].waits
    BY <2>3 DEF AnyServed
  <2>. HIDE DEF r
  <2>5. \A g \in Handlers : handler'[g] = IF g = h THEN r ELSE handler[g]
    BY <1>0, <2>1, <2>3, <2>4, HandlerMoves
  <2>6. \A g \in Handlers : /\ Busy(g)' = Busy(g) /\ handler'[g].waits = handler[g].waits
                            /\ handler'[g].event = handler[g].event
                            /\ Serves(g)' = Serves(g)
    BY <2>1, <2>4, <2>5 DEF Busy, Serves
  <2>7. OneByOne'
    BY <2>1, <2>2, <2>6 DEF OneByOne
  <2>8. NewWhenTested'
    BY <2>1, <2>2, <2>4, <2>5, <2>6 DEF NewWhenTested, At, HasBuild
  <2>. QED BY <2>1, <2>2, <2>7, <2>8 DEF RowsAreHandled, CountsOnce, Counts, NoDraftWaits, NewestHandled
<1>4. CASE \/ PushIsBuilt(h) \/ PushIsNew(h) \/ Republishes(h) \/ CreatesBuild(h)
           \/ StartsBuild(h) \/ RowIsSuperseded(h)
  <2>1. Busy(h) /\ Serves(h).kind = "push" /\ UNCHANGED about
    BY <1>4 DEF PushIsBuilt, PushIsNew, Republishes, CreatesBuild, StartsBuild,
                RowIsSuperseded, Starting, EolOnly, At, Busy, github
  <2>2. about # "pull_request"
    BY <1>0, <2>1, ServedFits DEF PullKinds
  <2>. QED BY <2>1, <2>2 DEF PullInOrder
<1>. QED BY <1>1, <1>2, <1>3, <1>4 DEF Handles

LEMMA PullFails ==
  ASSUME PullInv, NEW h \in Handlers, AnswerTooLate(h) \/ HandlerDies(h) \/ StartRaises(h),
         UNCHANGED reconciler
  PROVE  PullInOrder'
<1>1. CASE HandlerDies(h)
  <2>1. Busy(h) /\ Answers(h, FALSE) /\ UNCHANGED <<github, late, tests>>
    BY <1>1 DEF HandlerDies
  <2>2. RowsKept
    BY <2>1 DEF RowsKept, Counts
  <2>3. PICK ok \in BOOLEAN : ok = FALSE
    OBVIOUS
  <2>4. Answers(h, ok)
    BY <2>1, <2>3
  <2>. QED BY <2>1, <2>2, <2>3, <2>4, PullAnswered
<1>2. CASE AnswerTooLate(h)
  <2>1. handler[h].waits /\ ~IsPull(handler[h].event) /\ UNCHANGED about
    BY <1>2 DEF AnswerTooLate, github
  <2>2. Busy(h)
    BY <2>1 DEF PullInv, DeliveryInv, HandlersFit
  <2>3. about # "pull_request"
    BY <2>1, <2>2, ServedFits DEF PullInv, IsPull, Serves
  <2>. QED BY <2>1, <2>3 DEF PullInOrder
<1>3. CASE StartRaises(h)
  <2>1. Busy(h) /\ Serves(h).kind = "push" /\ UNCHANGED about
    BY <1>3 DEF StartRaises, Starting, At, Busy, github
  <2>2. about # "pull_request"
    BY <2>1, ServedFits DEF PullInv, PullKinds
  <2>. QED BY <2>1, <2>2 DEF PullInOrder
<1>. QED BY <1>1, <1>2, <1>3

(* The steps of the rows of a pull request.                                *)
LEMMA TestsFit ==
  ASSUME DeliveryInv,
         \/ (\E i \in DOMAIN tests : TestStarts(i) \/ TestEnds(i)) /\ UNCHANGED reconciler
         \/ PenaltyPasses /\ UNCHANGED reconciler
         \/ UNCHANGED vars
  PROVE  /\ DeliveryInv' /\ RowsKept
         /\ UNCHANGED <<github, delivery, handler, built, late, reconciler>>
<1>1. CASE (\E i \in DOMAIN tests : TestStarts(i) \/ TestEnds(i)) /\ UNCHANGED reconciler
  <2>1. PICK i \in DOMAIN tests : TestStarts(i) \/ TestEnds(i)
    BY <1>1
  <2>2. RowsFit' /\ RowsKept
    BY <2>1, TestStartsFits, TestEndsFits
  <2>3. UNCHANGED <<github, delivery, handler, built, republished, late>>
    BY <2>1 DEF TestStarts, TestEnds
  <2>4. HandlersFit' /\ DeliveriesFit' /\ republished' \subseteq 1..MaxEvents
    BY <2>3, HandlersStay, DeliveriesStay DEF DeliveryInv
  <2>. QED BY <1>1, <2>2, <2>3, <2>4, Assembled
<1>2. CASE (PenaltyPasses /\ UNCHANGED reconciler) \/ UNCHANGED vars
  <2>1. /\ UNCHANGED <<github, delivery, handler, built, republished, tests, late, reconciler>>
        /\ over' \subseteq over \cup DOMAIN tests
    BY <1>2 DEF PenaltyPasses, vars, receiverVars, github, Counted
  <2>2. RowsFit' /\ RowsKept
    BY <2>1, RowsStay DEF DeliveryInv, RowsFit, RowsKept, Counts, github
  <2>3. HandlersFit' /\ DeliveriesFit' /\ republished' \subseteq 1..MaxEvents
    BY <2>1, HandlersStay, DeliveriesStay DEF DeliveryInv
  <2>. QED BY <2>1, <2>2, <2>3, Assembled
<1>. QED BY <1>1, <1>2

LEMMA NextPull == PullInv /\ [Next]_vars => PullInv'
<1>. SUFFICES ASSUME PullInv, [Next]_vars PROVE PullInv'
  OBVIOUS
<1>0. DeliveryInv
  BY DEF PullInv
<1>1. CASE Users /\ UNCHANGED reconciler
  BY <1>0, <1>1, UsersFit, PullUsers DEF PullInv
<1>2. CASE Fails /\ UNCHANGED reconciler
  <2>1. CASE \E e \in DOMAIN events : Refused(e)
    <3>1. PICK e \in DOMAIN events : Refused(e)
      BY <2>1
    <3>2. /\ DeliveryInv'
          /\ \A f \in DOMAIN events : /\ delivery'[f].out <= delivery[f].out
                                      /\ delivery'[f].ok = delivery[f].ok
      BY <1>0, <1>2, <3>1, RefusedFits
    <3>3. UNCHANGED <<github, handler, late>> /\ RowsKept
      BY <3>1 DEF Refused, RowsKept, Counts
    <3>. QED BY <3>2, <3>3, PullFrame DEF PullInv
  <2>2. CASE \E h \in Handlers :
             AnswerTooLate(h) \/ HandlerDies(h) \/ StartRaises(h)
    BY <1>0, <1>2, <2>2, FailsFits, PullFails DEF PullInv
  <2>. QED BY <1>2, <2>1, <2>2 DEF Fails
<1>3. CASE \E h \in Handlers, e \in DOMAIN events : Receives(h, e) /\ UNCHANGED reconciler
  BY <1>0, <1>3, ReceivesFits, PullReceives DEF PullInv
<1>4. CASE \E h \in Handlers : Handles(h) /\ UNCHANGED reconciler
  BY <1>0, <1>4, HandlesFits, PullHandles DEF PullInv
<1>5. CASE \/ (\E i \in DOMAIN tests : TestStarts(i) \/ TestEnds(i)) /\ UNCHANGED reconciler
           \/ PenaltyPasses /\ UNCHANGED reconciler
           \/ UNCHANGED vars
  BY <1>0, <1>5, TestsFit, UnchangedDeliveries, PullFrame DEF PullInv
<1>6. CASE \E r \in Reconcilers :
             Reconcile(r) \/ \E x \in reconciler[r].todo : PassFails(r, x)
  <2>1. /\ DeliveryInv' /\ UNCHANGED <<github, handler, tests, late>>
        /\ delivery' # delivery => about = "branch"
    BY <1>0, <1>6, ReconcileFits
  <2>2. RowsKept
    BY <2>1 DEF RowsKept, Counts
  <2>3. about = "pull_request" => UNCHANGED delivery
    BY <2>1
  <2>. QED BY <2>1, <2>2, <2>3, UnchangedDeliveries, PullFrame DEF PullInv
<1>. QED BY <1>1, <1>2, <1>3, <1>4, <1>5, <1>6 DEF Next

(* What the invariant says of the properties.                              *)
LEMMA PullProperties ==
  PullInv /\ BuiltInv => ReconcilerTypeOK /\ NoNeedlessTest
<1>. SUFFICES ASSUME PullInv, BuiltInv PROVE ReconcilerTypeOK /\ NoNeedlessTest
  OBVIOUS
<1>1. ReconcilerTypeOK
  <2>1. StartsRows
    BY DEF BuiltInv, Shapes, StartsRows, At
  <2>. QED BY <2>1, DeliveryTypes DEF PullInv
<1>2. about = "branch" => tests = <<>>
  BY DEF PullInv, DeliveryInv, RowsFit
<1>3. about \in {"branch", "pull_request"}
  BY DEF PullInv, DeliveryInv, RefsFit
<1>4. about = "pull_request" /\ ~late =>
        OneByOne /\ NewWhenTested /\ RowsAreHandled /\ CountsOnce /\ NoDraftWaits
  BY DEF PullInv, PullInOrder
<1>5. TestedOnce
  BY <1>2, <1>3, <1>4 DEF TestedOnce, CountsOnce, Counts
<1>6. DraftsWait
  <2>. SUFFICES ASSUME pr.draft, ~late, \A e \in PullEvents : delivery[e].ok,
                       NEW i \in DOMAIN tests, tests[i].status = "pending"
                PROVE  FALSE
    BY DEF DraftsWait, InOrder
  <2>. DEFINE n == Len(events)
  <2>1. about = "pull_request"
    BY <1>2, <1>3
  <2>2. PICK e \in DOMAIN events : delivery[e].ok
    BY <1>4, <2>1 DEF RowsAreHandled
  <2>3. /\ n \in DOMAIN events /\ \A f \in DOMAIN events : f <= n
        /\ events # <<>>
    BY <2>2, Facts DEF PullInv
  <2>4. delivery[n].ok
    BY <2>1, <2>3 DEF PullInv, DeliveryInv, EventsFit, PullEvents
  <2>5. NewestHandled(n)
    BY <2>3, <2>4 DEF NewestHandled
  <2>6. events[n].draft = pr.draft
    BY <2>1, <2>3 DEF PullInv, DeliveryInv, RefsFit
  <2>. QED BY <1>4, <2>1, <2>3, <2>5, <2>6 DEF NoDraftWaits
<1>. QED BY <1>1, <1>5, <1>6 DEF NoNeedlessTest

(* Type correctness: whatever GitHub, the users, the handlers and the      *)
(* passes do, every event, row and request refers to a commit or an event  *)
(* there is, a pass holds no event that failed more than MAX_ATTEMPTS times*)
(* and a row runs only if it was started.                                  *)
THEOREM DeliveriesTyped == Spec => []ReconcilerTypeOK
<1>. QED BY InitPull, NextPull, InitBuilt, NextBuilt, PullProperties, PTL DEF Spec

(* No build of a pull request runs that nobody asked for: while its events *)
(* come one by one and in order, a commit is started once, however often   *)
(* the pull request is a draft and ready again, and nothing waits to start *)
(* while it is a draft.                                                    *)
THEOREM NothingNeedless == Spec => []NoNeedlessTest
<1>. QED BY InitPull, NextPull, InitBuilt, NextBuilt, PullProperties, PTL DEF Spec
-----------------------------------------------------------------------------
(* Pushes that are handled in their order.                                 *)

(* A pass asks again only for what failed, so that an event is attempted   *)
(* twice only after a failure.                                             *)
AnyPass == [todo : SUBSET (Nat \X Nat), at : Nat]
PassesHoldFailed ==
  /\ reconciler \in [Reconcilers -> AnyPass]
  /\ \A r \in Reconcilers : \A x \in reconciler[r].todo :
       delivery[x[1]].failed > 0
OnceUnlessFailed ==
  \A e \in DOMAIN events : delivery[e].failed > 0 \/ delivery[e].out <= 1

(* Every handler and every row is of an event that reached the server, so  *)
(* that an older event that comes now is seen to be overtaken.             *)
Arrived == {e \in DOMAIN events : Reached(e)}
RowsInOrder ==
  ~late =>
    /\ \A g, h \in Handlers : Busy(g) /\ Busy(h) => g = h
    /\ \A h \in Handlers : Busy(h) =>
         /\ handler[h].event \in Arrived
         /\ \A i \in 1..Len(built) : built[i].push <= handler[h].event
    /\ \A i \in 1..Len(built) : built[i].push \in Arrived
    /\ \A i, j \in 1..Len(built) : i <= j => built[i].push <= built[j].push

OrderInv ==
  BuiltInv /\ DeliveryInv /\ PassesHoldFailed /\ OnceUnlessFailed /\ RowsInOrder

(* What a step does with the deliveries: failures stay, and an attempt is  *)
(* added only after one.                                                   *)
DeliverySteps ==
  \A e \in DOMAIN events :
    /\ delivery[e].out \in Nat /\ delivery'[e].out \in Nat
    /\ delivery[e].failed \in Nat /\ delivery'[e].failed \in Nat
    /\ delivery'[e].failed >= delivery[e].failed
    /\ delivery'[e].out <= delivery[e].out \/ delivery[e].failed > 0

LEMMA DeliveryStays == DeliveryInv /\ UNCHANGED delivery => DeliverySteps
<1>. SUFFICES ASSUME DeliveryInv, UNCHANGED delivery PROVE DeliverySteps
  OBVIOUS
<1>1. \A e \in DOMAIN events : delivery[e].out \in Nat /\ delivery[e].failed \in Nat
  BY Noting
<1>. QED BY <1>1 DEF DeliverySteps

LEMMA DeliveryChanges ==
  ASSUME DeliveryInv, NEW e \in DOMAIN events, NEW new,
         new.out \in Nat, new.failed \in Nat,
         delivery' = [delivery EXCEPT ![e] = new],
         new.failed >= delivery[e].failed,
         new.out <= delivery[e].out \/ delivery[e].failed > 0
  PROVE  DeliverySteps
<1>1. DOMAIN delivery = DOMAIN events
  BY Facts
<1>2. \A f \in DOMAIN events : delivery'[f] = IF f = e THEN new ELSE delivery[f]
  BY <1>1
<1>3. \A f \in DOMAIN events : delivery[f].out \in Nat /\ delivery[f].failed \in Nat
  BY Noting
<1>. QED BY <1>2, <1>3 DEF DeliverySteps

LEMMA AnswersStep ==
  ASSUME DeliveryInv, NEW h \in Handlers, Busy(h), NEW ok \in BOOLEAN, Answers(h, ok)
  PROVE  DeliverySteps
<1>0. PICK e \in DOMAIN events : e = handler[h].event
  BY ServedFits
<1>1. PICK d : d = delivery[e]
  OBVIOUS
<1>2. d \in [out : Nat, failed : Nat, ok : BOOLEAN]
  BY <1>1, Noting
<1>3. PICK new : new = Noted(d, handler[h].waits, ok)
  OBVIOUS
<1>4. delivery' = [delivery EXCEPT ![e] = new]
  BY <1>0, <1>1, <1>3 DEF Answers
<1>5. new.out = d.out /\ new.failed \in {d.failed, d.failed + 1}
  <2>1. CASE ~handler[h].waits
    BY <1>2, <1>3, <2>1 DEF Noted
  <2>2. CASE handler[h].waits /\ ok
    <3>1. new = [d EXCEPT !.ok = TRUE]
      BY <1>3, <2>2 DEF Noted
    <3>. QED BY <1>2, <3>1
  <2>3. CASE handler[h].waits /\ ~ok
    <3>1. new = [d EXCEPT !.failed = @ + 1]
      BY <1>3, <2>3 DEF Noted
    <3>. QED BY <1>2, <3>1
  <2>. QED BY <2>1, <2>2, <2>3
<1>6. /\ new.out \in Nat /\ new.failed \in Nat
      /\ new.failed >= delivery[e].failed /\ new.out <= delivery[e].out
  BY <1>1, <1>2, <1>5
<1>. QED BY <1>4, <1>6, DeliveryChanges

(* A step in which no request comes and no row is made.                    *)
LEMMA OrderKept ==
  ASSUME OrderInv, UNCHANGED <<events, late>>, DeliverySteps, PushesKept,
         \A h \in Handlers : Busy(h)' => /\ Busy(h)
                                         /\ handler'[h].event = handler[h].event
  PROVE  OnceUnlessFailed' /\ RowsInOrder'
<1>0. /\ DOMAIN events = 1..Len(events) /\ DOMAIN events' = DOMAIN events
      /\ \A i \in 1..Len(built) : built[i].push \in DOMAIN events
      /\ \A h \in Handlers : Busy(h) => handler[h].event \in DOMAIN events
  BY Facts DEF OrderInv, BuiltInv, Shapes
<1>1. Arrived \subseteq Arrived'
  BY <1>0 DEF DeliverySteps, Reached, Arrived
<1>2. OnceUnlessFailed'
  BY <1>0 DEF OrderInv, OnceUnlessFailed, DeliverySteps
<1>3. RowsInOrder'
  <2>. SUFFICES ASSUME ~late PROVE RowsInOrder'
    BY DEF RowsInOrder
  <2>1. \A g, h \in Handlers : Busy(g)' /\ Busy(h)' => g = h
    BY DEF OrderInv, RowsInOrder
  <2>2. \A h \in Handlers : Busy(h)' =>
          /\ handler'[h].event \in Arrived'
          /\ \A i \in 1..Len(built) : built'[i].push <= handler'[h].event
    BY <1>0, <1>1 DEF OrderInv, RowsInOrder, PushesKept
  <2>3. \A i \in 1..Len(built) : built'[i].push \in Arrived'
    BY <1>0, <1>1 DEF OrderInv, RowsInOrder, PushesKept
  <2>4. \A i, j \in 1..Len(built) : i <= j => built'[i].push <= built'[j].push
    BY DEF OrderInv, RowsInOrder, PushesKept
  <2>. QED BY <2>1, <2>2, <2>3, <2>4 DEF RowsInOrder, PushesKept
<1>. QED BY <1>2, <1>3

(* What the passes hold stays what failed.                                 *)
LEMMA PassesKept ==
  ASSUME OrderInv, DeliverySteps, UNCHANGED reconciler
  PROVE  PassesHoldFailed'
<1>1. \A r \in Reconcilers : \A x \in reconciler[r].todo : x[1] \in DOMAIN events
  BY Facts DEF OrderInv, DeliveryInv, PassesFit
<1>. QED BY <1>1 DEF OrderInv, PassesHoldFailed, DeliverySteps

LEMMA InitOrder == Init => OrderInv
<1>. SUFFICES ASSUME Init PROVE OrderInv
  OBVIOUS
<1>1. BuiltInv /\ DeliveryInv
  BY InitBuilt, InitPull DEF PullInv
<1>2. /\ events = <<>> /\ built = <<>> /\ DOMAIN events = {} /\ Len(built) = 0
      /\ handler = [h \in Handlers |-> Idle] /\ Idle.pc = "idle"
      /\ reconciler = [r \in Reconcilers |-> Nothing]
  BY DEF Init, ReceiverInit, Idle
<1>3. Nothing.todo = {} /\ Nothing \in AnyPass
  BY DEF Nothing, AnyPass
<1>4. PassesHoldFailed /\ OnceUnlessFailed
  BY <1>2, <1>3 DEF PassesHoldFailed, OnceUnlessFailed
<1>5. RowsInOrder
  BY <1>2 DEF RowsInOrder, Busy
<1>. QED BY <1>1, <1>4, <1>5 DEF OrderInv

(* A new event is attempted once, and nobody holds it yet.                 *)
LEMMA OrderUsers ==
  ASSUME OrderInv, Users, UNCHANGED reconciler
  PROVE  PassesHoldFailed' /\ OnceUnlessFailed' /\ RowsInOrder'
<1>1. NewEvent /\ UNCHANGED built
  BY UsersFit DEF OrderInv, Users, Push, PullOpened, PullSynchronized,
                  PullConverted, Sends
<1>2. PICK n \in Nat : n = Len(events) + 1
  BY Facts DEF OrderInv
<1>3. /\ DOMAIN events' = DOMAIN events \cup {n} /\ delivery'[n].out = 1
      /\ \A e \in DOMAIN events : delivery'[e] = delivery[e]
      /\ UNCHANGED <<handler, late, built>>
  BY <1>1, <1>2, Facts DEF OrderInv, NewEvent
<1>4. /\ \A i \in 1..Len(built) : built[i].push \in DOMAIN events
      /\ \A h \in Handlers : Busy(h) => handler[h].event \in DOMAIN events
      /\ \A r \in Reconcilers : \A x \in reconciler[r].todo : x[1] \in DOMAIN events
  BY Facts DEF OrderInv, BuiltInv, Shapes, DeliveryInv, PassesFit
<1>5. PassesHoldFailed'
  BY <1>3, <1>4 DEF OrderInv, PassesHoldFailed
<1>6. OnceUnlessFailed'
  BY <1>3 DEF OrderInv, OnceUnlessFailed
<1>7. Arrived \subseteq Arrived'
  BY <1>3 DEF Reached, Arrived
<1>8. RowsInOrder'
  BY <1>3, <1>4, <1>7 DEF OrderInv, RowsInOrder, Busy
<1>. QED BY <1>5, <1>6, <1>8

(* A request received in order is of no older event than the rows are.     *)
LEMMA OrderReceives ==
  ASSUME OrderInv, NEW h \in Handlers, NEW e \in DOMAIN events, Receives(h, e),
         UNCHANGED reconciler
  PROVE  PassesHoldFailed' /\ OnceUnlessFailed' /\ RowsInOrder'
<1>0. DeliveryInv /\ UNCHANGED <<events, built>>
  BY DEF OrderInv, Receives, github
<1>1. /\ delivery[e] \in [out : Nat, failed : Nat, ok : BOOLEAN]
      /\ delivery[e].out > 0
  BY <1>0, Noting DEF Receives
<1>2. delivery[e].out - 1 \in Nat /\ delivery[e].failed \in Nat
  BY <1>1
<1>3. PICK new : new = [delivery[e] EXCEPT !.out = @ - 1]
  OBVIOUS
<1>4. new.out = delivery[e].out - 1 /\ new.failed = delivery[e].failed
  BY <1>1, <1>3
<1>5. delivery' = [delivery EXCEPT ![e] = new]
  BY <1>3 DEF Receives
<1>6. DeliverySteps
  <2>1. /\ new.out \in Nat /\ new.failed \in Nat
        /\ new.failed >= delivery[e].failed /\ new.out <= delivery[e].out
    BY <1>1, <1>2, <1>4
  <2>. QED BY <1>0, <1>5, <2>1, DeliveryChanges
<1>7. \A g \in Handlers : Busy(g)' =>
        \/ g = h /\ handler'[g].event = e
        \/ Busy(g) /\ handler'[g].event = handler[g].event
  <2>1. PICK request : request = [pc |-> "received", event |-> e, row |-> 0, waits |-> TRUE]
    OBVIOUS
  <2>2. handler' = [handler EXCEPT ![h] = request] /\ request.event = e
    BY <2>1 DEF Receives
  <2>3. \A g \in Handlers : handler'[g] = IF g = h THEN request ELSE handler[g]
    BY <1>0, <2>2 DEF DeliveryInv, HandlersFit
  <2>. QED BY <2>2, <2>3 DEF Busy
<1>8. /\ \A i \in 1..Len(built) : built[i].push \in DOMAIN events
      /\ DOMAIN events = 1..Len(events) /\ Len(events) \in Nat
  BY <1>0, Facts DEF OrderInv, BuiltInv, Shapes
<1>9. OnceUnlessFailed'
  BY <1>0 , <1>6 DEF OrderInv, OnceUnlessFailed, DeliverySteps
<1>10. RowsInOrder'
  <2>. SUFFICES ASSUME ~late' PROVE RowsInOrder'
    BY DEF RowsInOrder
  <2>1. ~late /\ ~Overtaken(e)
    BY DEF Receives
  <2>2. \A g \in Handlers : ~Busy(g)
    BY <2>1 DEF Overtaken
  <2>3. \A i \in 1..Len(built) : built[i].push \in Arrived
    BY <2>1 DEF OrderInv, RowsInOrder
  <2>4. \A i \in 1..Len(built) : built[i].push <= e
    BY <1>8, <2>1, <2>3 DEF Overtaken, Arrived
  <2>5. Arrived \subseteq Arrived'
    BY <1>0, <1>6 DEF DeliverySteps, Reached, Arrived
  <2>6. e \in Arrived'
    <3>1. delivery'[e].out = delivery[e].out - 1 /\ delivery'[e].failed = delivery[e].failed
      BY <1>0, <1>4, <1>5, Facts
    <3>2. delivery[e].failed > 0 \/ delivery[e].out <= 1
      BY DEF OrderInv, OnceUnlessFailed
    <3>. QED BY <1>0, <1>1, <3>1, <3>2 DEF Reached, Arrived
  <2>7. \A g \in Handlers : Busy(g)' => g = h /\ handler'[g].event = e
    BY <1>7, <2>2
  <2>8. \A i, j \in 1..Len(built) : i <= j => built[i].push <= built[j].push
    BY <2>1 DEF OrderInv, RowsInOrder
  <2>9. \A i \in 1..Len(built) : built[i].push \in Arrived'
    BY <2>3, <2>5
  <2>. QED BY <1>0, <2>4, <2>6, <2>7, <2>8, <2>9 DEF RowsInOrder
<1>. QED BY <1>6, <1>9, <1>10, PassesKept

(* A handler's row is of its event, and of no older one than the others.   *)
LEMMA OrderCreates ==
  ASSUME OrderInv, NEW h \in Handlers, CreatesBuild(h), UNCHANGED reconciler
  PROVE  PassesHoldFailed' /\ OnceUnlessFailed' /\ RowsInOrder'
<1>0. DeliveryInv /\ UNCHANGED <<events, delivery, late>> /\ Busy(h)
  BY DEF OrderInv, CreatesBuild, github, At, Busy
<1>1. DeliverySteps
  BY <1>0, DeliveryStays
<1>2. PICK n \in Nat, e \in DOMAIN events :
        n = Len(built) + 1 /\ e = handler[h].event
  BY <1>0, ServedFits DEF OrderInv, BuiltInv, Shapes
<1>3. PICK x : x = [push |-> e, status |-> "pending"]
  OBVIOUS
<1>4. x \in PushRow /\ x.push = e
  <2>1. e \in Nat
    BY <1>0, Facts
  <2>. QED BY <2>1, <1>3 DEF PushRow, PushRows, PushStatuses
<1>5. /\ Len(built') = n /\ n = Len(built) + 1 /\ Len(built) \in Nat
      /\ built'[n].push = e
      /\ \A i \in 1..Len(built) : built'[i] = built[i]
  <2>1. built' = Append(built, x)
    BY <1>2, <1>3 DEF CreatesBuild
  <2>. QED BY <2>1, <1>2, <1>4, AppendKeeps DEF OrderInv, BuiltInv, Shapes
<1>6. \A g \in Handlers : Busy(g)' => Busy(g) /\ handler'[g].event = handler[g].event
  <2>1. \A g \in Handlers \ {h} : handler'[g] = handler[g]
    BY <1>0 DEF CreatesBuild, DeliveryInv, HandlersFit
  <2>2. handler'[h].event = handler[h].event
    <3>1. handler[h] \in AnyServed /\ handler' = [handler EXCEPT ![h] =
                [[@ EXCEPT !.pc = "start"] EXCEPT !.row = Len(built) + 1]]
      BY <1>0, ServedFits DEF CreatesBuild
    <3>. QED BY <1>0, <3>1 DEF AnyServed, DeliveryInv, HandlersFit
  <2>. QED BY <1>0, <2>1, <2>2 DEF Busy
<1>7. Arrived' = Arrived
  BY <1>0 DEF Reached, Arrived
<1>8. OnceUnlessFailed'
  BY <1>0 DEF OrderInv, OnceUnlessFailed
<1>9. RowsInOrder'
  <2>. SUFFICES ASSUME ~late PROVE RowsInOrder'
    BY <1>0 DEF RowsInOrder
  <2>1. /\ \A g, k \in Handlers : Busy(g) /\ Busy(k) => g = k
        /\ e \in Arrived /\ e \in Nat
        /\ \A i \in 1..Len(built) : built[i].push <= e
        /\ \A i \in 1..Len(built) : built[i].push \in Arrived
        /\ \A i, j \in 1..Len(built) : i <= j => built[i].push <= built[j].push
    BY <1>0, <1>2, Facts DEF OrderInv, RowsInOrder
  <2>2. \A g \in Handlers : Busy(g)' => g = h /\ handler'[g].event = e
    BY <1>0, <1>2, <1>6, <2>1
  <2>3. \A i \in 1..n : i = n \/ i \in 1..Len(built)
    BY <1>5
  <2>4. \A i \in 1..n : built'[i].push <= e
    BY <1>5, <2>1, <2>3
  <2>5. \A i \in 1..n : built'[i].push \in Arrived
    BY <1>5, <2>1, <2>3
  <2>6. \A i, j \in 1..n : i <= j => built'[i].push <= built'[j].push
    <3>. SUFFICES ASSUME NEW i \in 1..n, NEW j \in 1..n, i <= j
                  PROVE  built'[i].push <= built'[j].push
      OBVIOUS
    <3>1. CASE j = n
      BY <3>1, <1>5, <2>4
    <3>2. CASE j # n
      <4>1. i \in 1..Len(built) /\ j \in 1..Len(built)
        BY <3>2, <1>5
      <4>. QED BY <4>1, <1>5, <2>1
    <3>. QED BY <3>1, <3>2
  <2>. QED BY <1>5, <1>7, <2>1, <2>2, <2>4, <2>5, <2>6 DEF RowsInOrder
<1>. QED BY <1>1, <1>8, <1>9, PassesKept

(* The steps that make no row and receive nothing: where a handler that    *)
(* goes on serves the event it served.                                     *)
LEMMA OrderHandles ==
  ASSUME OrderInv, NEW h \in Handlers, UNCHANGED reconciler,
         \/ Handles(h) /\ ~CreatesBuild(h)
         \/ AnswerTooLate(h) \/ HandlerDies(h) \/ StartRaises(h)
  PROVE  PassesHoldFailed' /\ OnceUnlessFailed' /\ RowsInOrder'
<1>0. DeliveryInv /\ BuiltInv /\ Shapes /\ (UNCHANGED built => PushesKept)
  BY StandingRows DEF OrderInv, BuiltInv
<1>1. CASE \/ PushIsBuilt(h) \/ Republishes(h) \/ PullIsDraft(h) \/ PullIsSkipped(h)
           \/ PullHasBuild(h) \/ PullIsPaused(h) \/ CreatesTest(h)
           \/ StartsBuild(h) \/ RowIsSuperseded(h) \/ HandlerDies(h) \/ StartRaises(h)
  <2>1. Busy(h) /\ UNCHANGED <<events, late>>
    BY <1>1 DEF PushIsBuilt, Republishes, PullIsDraft, PullIsSkipped, PullHasBuild,
                PullIsPaused, WantsTest, CreatesTest, StartsBuild, RowIsSuperseded,
                HandlerDies, StartRaises, Starting, At, Busy, github
  <2>2. \E ok \in BOOLEAN : Answers(h, ok)
    BY <1>1 DEF PushIsBuilt, Republishes, PullIsDraft, PullIsSkipped, PullHasBuild,
                PullIsPaused, CreatesTest, StartsBuild, RowIsSuperseded,
                HandlerDies, StartRaises
  <2>3. UNCHANGED built \/ built' = Started(built, handler[h].row)
    BY <1>1 DEF PushIsBuilt, Republishes, PullIsDraft, PullIsSkipped, PullHasBuild,
                PullIsPaused, CreatesTest, StartsBuild, RowIsSuperseded,
                HandlerDies, StartRaises
  <2>4. PushesKept
    <3>1. built \in Seq(PushRow)
      BY <1>0 DEF Shapes
    <3>2. \A i : /\ Started(built, i) \in Seq(PushRow)
                 /\ Len(Started(built, i)) = Len(built)
                 /\ \A j \in 1..Len(built) : Started(built, i)[j].push = built[j].push
      BY <3>1, StartedKeeps DEF PushRow
    <3>3. CASE built' = Started(built, handler[h].row)
      BY <3>2, <3>3 DEF PushesKept
    <3>. QED BY <2>3, <3>3, <1>0
  <2>5. DeliverySteps
    BY <1>0, <2>1, <2>2, AnswersStep
  <2>6. \A g \in Handlers : Busy(g)' => Busy(g) /\ handler'[g].event = handler[g].event
    <3>1. handler' = [handler EXCEPT ![h] = Idle] /\ Idle.pc = "idle"
      BY <2>2 DEF Answers, Idle
    <3>. QED BY <3>1, <1>0 DEF DeliveryInv, HandlersFit, Busy
  <2>. QED BY <2>1, <2>4, <2>5, <2>6, OrderKept, PassesKept
<1>2. CASE PushIsNew(h) \/ PullIsNew(h)
  <2>1. /\ UNCHANGED <<events, late, delivery, built>> /\ Busy(h)
        /\ handler' = [handler EXCEPT ![h].pc = "create"]
    BY <1>2 DEF PushIsNew, PullIsNew, WantsTest, Goto, At, Busy, github
  <2>2. \A g \in Handlers : Busy(g)' => Busy(g) /\ handler'[g].event = handler[g].event
    <3>1. handler[h] \in AnyServed
      BY <1>0, <2>1, ServedFits
    <3>. QED BY <1>0, <2>1, <3>1 DEF AnyServed, DeliveryInv, HandlersFit, Busy
  <2>3. DeliverySteps /\ PushesKept
    BY <1>0, <2>1, DeliveryStays
  <2>. QED BY <2>1, <2>2, <2>3, OrderKept, PassesKept
<1>3. CASE AnswerTooLate(h)
  <2>1. /\ UNCHANGED <<events, late, built>> /\ handler[h].waits
        /\ handler' = [handler EXCEPT ![h].waits = FALSE]
        /\ delivery' = [delivery EXCEPT ![handler[h].event].failed = @ + 1]
    BY <1>3 DEF AnswerTooLate, github
  <2>2. Busy(h)
    BY <1>0, <2>1 DEF DeliveryInv, HandlersFit
  <2>3. handler[h] \in AnyServed /\ handler[h].event \in DOMAIN events
    BY <1>0, <2>2, ServedFits
  <2>4. \A g \in Handlers : Busy(g)' => Busy(g) /\ handler'[g].event = handler[g].event
    BY <1>0, <2>1, <2>2, <2>3 DEF AnyServed, DeliveryInv, HandlersFit, Busy
  <2>5. DeliverySteps
    <3>1. PICK e \in DOMAIN events : e = handler[h].event
      BY <2>3
    <3>2. delivery[e] \in [out : Nat, failed : Nat, ok : BOOLEAN]
      BY <1>0, Noting
    <3>3. PICK new : new = [delivery[e] EXCEPT !.failed = @ + 1]
      OBVIOUS
    <3>4. /\ new.failed = delivery[e].failed + 1 /\ new.out = delivery[e].out
          /\ delivery[e].failed \in Nat /\ delivery[e].out \in Nat
      BY <3>2, <3>3
    <3>5. delivery' = [delivery EXCEPT ![e] = new]
      BY <2>1, <3>1, <3>3
    <3>6. /\ new.out \in Nat /\ new.failed \in Nat
          /\ new.failed >= delivery[e].failed /\ new.out <= delivery[e].out
      BY <3>4
    <3>. QED BY <1>0, <3>5, <3>6, DeliveryChanges
  <2>6. PushesKept
    BY <1>0, <2>1
  <2>. QED BY <2>1, <2>4, <2>5, <2>6, OrderKept, PassesKept
<1>. QED BY <1>1, <1>2, <1>3 DEF Handles

LEMMA OrderRefused ==
  ASSUME OrderInv, NEW e \in DOMAIN events, Refused(e), UNCHANGED reconciler
  PROVE  PassesHoldFailed' /\ OnceUnlessFailed' /\ RowsInOrder'
<1>0. /\ DeliveryInv /\ UNCHANGED <<events, late, built, handler>> /\ PushesKept
      /\ delivery[e].out > 0
  BY StandingRows DEF OrderInv, BuiltInv, Refused, github
<1>1. PICK d : d = delivery[e]
  OBVIOUS
<1>2. d \in [out : Nat, failed : Nat, ok : BOOLEAN] /\ d.out > 0
  BY <1>0, <1>1, Noting
<1>3. PICK sent : sent = [d EXCEPT !.out = @ - 1]
  OBVIOUS
<1>4. /\ sent \in [out : Nat, failed : Nat, ok : BOOLEAN]
      /\ sent.out = d.out - 1 /\ sent.failed = d.failed
  BY <1>2, <1>3
<1>5. PICK new : new = [sent EXCEPT !.failed = @ + 1]
  OBVIOUS
<1>6. new.out = d.out - 1 /\ new.failed = d.failed + 1
  BY <1>4, <1>5
<1>7. delivery' = [delivery EXCEPT ![e] = new]
  BY <1>1, <1>3, <1>5 DEF Refused
<1>8. DeliverySteps
  <2>1. /\ new.out \in Nat /\ new.failed \in Nat
        /\ new.failed >= delivery[e].failed /\ new.out <= delivery[e].out
    BY <1>1, <1>2, <1>6
  <2>. QED BY <1>0, <1>7, <2>1, DeliveryChanges
<1>. QED BY <1>0, <1>8, OrderKept, PassesKept DEF Busy

(* A pass asks again only for what failed.                                 *)
LEMMA OrderReconciles ==
  ASSUME OrderInv, NEW r \in Reconcilers,
         Reconcile(r) \/ \E x \in reconciler[r].todo : PassFails(r, x)
  PROVE  PassesHoldFailed' /\ OnceUnlessFailed' /\ RowsInOrder'
<1>0. /\ DeliveryInv /\ UNCHANGED <<events, late, built, handler>> /\ PushesKept
      /\ \A q \in Reconcilers : \A x \in reconciler[q].todo :
           x[1] \in DOMAIN events /\ delivery[x[1]].failed > 0
  <2>1. UNCHANGED <<events, late, built, handler>>
    BY DEF Reconcile, Reconciles, Lists, SkipsStale, Picks, SkipsBuilt, Redelivers,
           PassFails, receiverVars, github
  <2>. QED BY <2>1, StandingRows, Facts DEF OrderInv, BuiltInv, DeliveryInv,
                                            PassesFit, PassesHoldFailed
<1>1. DeliverySteps
  <2>1. CASE UNCHANGED delivery
    BY <1>0, <2>1, DeliveryStays
  <2>2. ASSUME NEW x \in reconciler[r].todo, Redelivers(r, x)
        PROVE  DeliverySteps
    <3>1. PICK e \in DOMAIN events : e = x[1]
      BY <1>0
    <3>2. delivery[e] \in [out : Nat, failed : Nat, ok : BOOLEAN] /\ delivery[e].failed > 0
      BY <1>0, <3>1, Noting
    <3>3. PICK new : new = [delivery[e] EXCEPT !.out = @ + 1]
      OBVIOUS
    <3>4. /\ new.out = delivery[e].out + 1 /\ new.failed = delivery[e].failed
          /\ delivery[e].failed \in Nat /\ delivery[e].out \in Nat
      BY <3>2, <3>3
    <3>5. delivery' = [delivery EXCEPT ![e] = new]
      BY <2>2, <3>1, <3>3 DEF Redelivers
    <3>6. /\ new.out \in Nat /\ new.failed \in Nat
          /\ new.failed >= delivery[e].failed
      BY <3>4
    <3>. QED BY <1>0, <3>2, <3>5, <3>6, DeliveryChanges
  <2>. QED BY <2>1, <2>2 DEF Reconcile, Reconciles, Lists, SkipsStale, Picks,
                             SkipsBuilt, PassFails, receiverVars
<1>2. OnceUnlessFailed' /\ RowsInOrder'
  BY <1>0, <1>1, OrderKept DEF Busy
<1>3. /\ reconciler \in [Reconcilers -> AnyPass]
      /\ DOMAIN events \subseteq Nat
      /\ \A e \in DOMAIN events : delivery[e].failed \in Nat
  BY <1>0, Facts, Noting DEF OrderInv, PassesHoldFailed
<1>4. ASSUME NEW pass \in AnyPass, reconciler' = [reconciler EXCEPT ![r] = pass],
             \A x \in pass.todo : x[1] \in DOMAIN events /\ delivery[x[1]].failed > 0
      PROVE  PassesHoldFailed'
  <2>1. /\ reconciler' \in [Reconcilers -> AnyPass]
        /\ \A q \in Reconcilers :
             reconciler'[q] = IF q = r THEN pass ELSE reconciler[q]
    BY <1>3, <1>4
  <2>2. \A q \in Reconcilers : \A x \in reconciler'[q].todo :
          x[1] \in DOMAIN events /\ delivery[x[1]].failed > 0
    BY <1>0, <1>4, <2>1
  <2>. QED BY <1>1, <1>3, <2>1, <2>2 DEF PassesHoldFailed, DeliverySteps
<1>5. PassesHoldFailed'
  <2>0. reconciler[r] \in AnyPass
    BY <1>3
  <2>1. CASE Lists(r)
    <3>. DEFINE open == {e \in Undelivered : ~Exhausted(delivery[e].failed)}
                todo == {<<e, delivery[e].failed>> : e \in open}
    <3>1. \A e \in open : e \in DOMAIN events /\ delivery[e].failed > 0
      BY DEF Undelivered, Attempted, PushEvents
    <3>2. /\ todo \in SUBSET (Nat \X Nat)
          /\ \A x \in todo : x[1] \in DOMAIN events /\ delivery[x[1]].failed > 0
      BY <1>3, <3>1
    <3>. HIDE DEF todo
    <3>3. PICK pass : pass = [reconciler[r] EXCEPT !.todo = todo]
      OBVIOUS
    <3>4. pass \in AnyPass /\ pass.todo = todo
      BY <2>0, <3>2, <3>3 DEF AnyPass
    <3>5. reconciler' = [reconciler EXCEPT ![r] = pass]
      BY <2>1, <3>3 DEF Lists, todo
    <3>. QED BY <1>4, <3>2, <3>4, <3>5
  <2>2. ASSUME NEW x \in reconciler[r].todo, Reconciles(r, x) \/ PassFails(r, x)
        PROVE  PassesHoldFailed'
    <3>1. PICK n \in Nat : n = x[1]
      BY <1>0, <1>3
    <3>2. PICK picked : picked = [reconciler[r] EXCEPT !.at = n]
      OBVIOUS
    <3>3. picked \in AnyPass /\ picked.todo = reconciler[r].todo
      BY <2>0, <3>2 DEF AnyPass
    <3>4. PICK dropped : dropped = [todo |-> reconciler[r].todo \ {x}, at |-> 0]
      OBVIOUS
    <3>5. dropped \in AnyPass /\ dropped.todo \subseteq reconciler[r].todo
      BY <2>0, <3>4 DEF AnyPass
    <3>6. \E pass \in {picked, dropped} : reconciler' = [reconciler EXCEPT ![r] = pass]
      BY <2>2, <3>1, <3>2, <3>4 DEF Reconciles, SkipsStale, Picks, SkipsBuilt,
                                    Redelivers, PassFails, Drops
    <3>. QED BY <1>0, <1>4, <3>3, <3>5, <3>6
  <2>. QED BY <2>1, <2>2 DEF Reconcile
<1>. QED BY <1>2, <1>5

LEMMA NextOrder == OrderInv /\ [Next]_vars => OrderInv'
<1>. SUFFICES ASSUME OrderInv, [Next]_vars PROVE OrderInv'
  OBVIOUS
<1>0. BuiltInv' /\ DeliveryInv /\ BuiltInv
  BY NextBuilt DEF OrderInv
<1>. SUFFICES DeliveryInv' /\ PassesHoldFailed' /\ OnceUnlessFailed' /\ RowsInOrder'
  BY <1>0 DEF OrderInv
<1>1. CASE Users /\ UNCHANGED reconciler
  BY <1>0, <1>1, UsersFit, OrderUsers
<1>2. CASE Fails /\ UNCHANGED reconciler
  <2>1. CASE \E e \in DOMAIN events : Refused(e)
    BY <1>0, <1>2, <2>1, RefusedFits, OrderRefused
  <2>2. CASE \E h \in Handlers :
             AnswerTooLate(h) \/ HandlerDies(h) \/ StartRaises(h)
    BY <1>0, <1>2, <2>2, FailsFits, OrderHandles
  <2>. QED BY <1>2, <2>1, <2>2 DEF Fails
<1>3. CASE \E h \in Handlers, e \in DOMAIN events : Receives(h, e) /\ UNCHANGED reconciler
  BY <1>0, <1>3, ReceivesFits, OrderReceives
<1>4. CASE \E h \in Handlers : Handles(h) /\ UNCHANGED reconciler
  BY <1>0, <1>4, HandlesFits, OrderHandles, OrderCreates
<1>5. CASE \/ (\E i \in DOMAIN tests : TestStarts(i) \/ TestEnds(i)) /\ UNCHANGED reconciler
           \/ PenaltyPasses /\ UNCHANGED reconciler
           \/ UNCHANGED vars
  <2>1. UNCHANGED <<events, delivery, handler, built, late, reconciler>>
    BY <1>5 DEF TestStarts, TestEnds, PenaltyPasses, vars, receiverVars, github
  <2>2. DeliveryInv'
    BY <1>0, <1>5, TestsFit
  <2>3. DeliverySteps /\ PushesKept
    BY <1>0, <2>1, DeliveryStays, StandingRows DEF BuiltInv
  <2>. QED BY <2>1, <2>2, <2>3, OrderKept, PassesKept DEF Busy
<1>6. CASE \E r \in Reconcilers :
             Reconcile(r) \/ \E x \in reconciler[r].todo : PassFails(r, x)
  BY <1>0, <1>6, ReconcileFits, OrderReconciles
<1>. QED BY <1>1, <1>2, <1>3, <1>4, <1>5, <1>6 DEF Next

(* Between two rows of a commit that was not handled twice at once stands  *)
(* the row after the first; and unless pushes overtook one another, what   *)
(* stands between two rows of a push is of that push.                      *)
LEMMA OrderBuilds == OrderInv => BuiltOnce
<1>. SUFFICES ASSUME OrderInv, NEW i \in DOMAIN built, NEW j \in DOMAIN built,
                     i < j, CommitOf(i) = CommitOf(j), CommitOf(i) \notin overlap
              PROVE  /\ \E k \in (i + 1)..(j - 1) : CommitOf(k) # CommitOf(i)
                     /\ built[i].push = built[j].push => late
  BY DEF BuiltOnce
<1>1. /\ built \in Seq(PushRow) /\ Len(built) \in Nat /\ DOMAIN built = 1..Len(built)
      /\ i \in Nat /\ j \in Nat /\ i + 1 <= j
  BY DEF OrderInv, BuiltInv, Shapes
<1>2. CommitOf(i + 1) # CommitOf(i)
  <2>1. i \in 1..(Len(built) - 1)
    BY <1>1
  <2>. QED BY <2>1 DEF OrderInv, BuiltInv, NotInARow
<1>3. i + 1 # j
  BY <1>2
<1>4. i + 1 \in (i + 1)..(j - 1) /\ i + 1 \in 1..Len(built)
  BY <1>1, <1>3
<1>5. ASSUME built[i].push = built[j].push, ~late
      PROVE  FALSE
  <2>1. built[i].push <= built[i + 1].push /\ built[i + 1].push <= built[j].push
    BY <1>1, <1>4, <1>5 DEF OrderInv, RowsInOrder
  <2>2. built[i].push \in Nat /\ built[i + 1].push \in Nat
    BY <1>1, <1>4 DEF OrderInv, BuiltInv, Shapes
  <2>3. built[i + 1].push = built[i].push
    BY <1>5, <2>1, <2>2
  <2>. QED BY <1>2, <2>3 DEF CommitOf
<1>. QED BY <1>2, <1>4, <1>5

(* A push gets one row, for any number of handlers, overlapping passes,    *)
(* pushes and faults, where late answers, errors, refusals and redeliveries*)
(* are many: except when its commit was handled twice at once, or pushes   *)
(* overlapped or overtook one another (a redelivery that is handled after  *)
(* another push's row makes a second row: push_already_built looks at the  *)
(* newest row alone).  Even then another commit's row stands between the   *)
(* two, unless the commit was handled twice at once.                       *)
THEOREM PushBuiltOnce == Spec => []BuiltOnce
<1>. QED BY InitOrder, NextOrder, OrderBuilds, PTL DEF Spec
==============================================================================
