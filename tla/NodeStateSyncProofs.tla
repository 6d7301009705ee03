-------------------------- MODULE NodeStateSyncProofs --------------------------
(***************************************************************************)
(* Theorems about NodeStateSync, for any users, number of open requests    *)
(* and length of the journal, and any number of changes, failures and      *)
(* restarts.                                                               *)
(*                                                                         *)
(* Journaled says what the journal knows: a user none of the entries after *)
(* a version names has the same row in that version and in every later     *)
(* one.  Names says what a tag means, of whatever carries one: the node,   *)
(* its file, a request, an answer.  A change is worked out from the tag of *)
(* a request, and taken by a node that still holds that tag; so it makes   *)
(* one right content out of another.  Awake follows a request from its     *)
(* read of the settings to its hold, and every change of them to its wake. *)
(***************************************************************************)
EXTENDS NodeStateSync, SequenceTheorems, TLAPS

\* Names of life l, while the versions said s, say what the content is.
Names(l, s, tag, content) ==
    tag # None =>
        /\ tag.life <= l
        /\ tag.life = l => /\ tag.version \in 1..Len(s)
                           /\ content = Built(tag.structure, s[tag.version])

\* A user that no entry after b names is the same in b and in c.
Explains(s, floor, log) ==
    \A b, c \in 1..Len(s) : \A u \in Users :
        floor <= b /\ b <= c /\ (\A v \in (b + 1)..c : u \notin log[v - floor])
            => s[b].who[u] = s[c].who[u]

Journaled(s, j) ==
    /\ s = <<>> => j.log = <<>>
    /\ s # <<>> => j.floor \in Nat \ {0} /\ j.floor + Len(j.log) = Len(s)
    /\ Explains(s, j.floor, j.log)

\* The versions said s; now they say t.
Grown(s, t) == Len(s) <= Len(t) /\ \A v \in 1..Len(s) : t[v] = s[v]

\* What a handler has read is what the version it is of said.
ReadIs(h, s) ==
    h.at = "read" =>
        /\ h.x # None
        /\ h.x.version # 0 => /\ h.x.version \in 1..Len(s)
                              /\ h.x.who = s[h.x.version].who
                              /\ h.x.blocked = s[h.x.version].blocked

\* What a handler is about to send is named rightly, and follows from what it says it follows.
AnswerIs(h, l, s) ==
    h.at = "answer" =>
        /\ h.push # None
        /\ Names(l, s, h.push.tag, h.push.content)
        /\ h.push.kind = "rename" => h.push.content = h.has.content
        /\ h.push.kind = "delta" =>
              /\ h.push.tag # None /\ h.push.from # None
              /\ h.push.from.life = l /\ h.push.tag.life = l
              /\ h.push.from.structure = h.push.tag.structure
              /\ h.push.from.version \in 1..Len(s)
              /\ \A u \in Users \ h.push.touched :
                    s[h.push.from.version].who[u] = s[h.push.tag.version].who[u]

HandlerIs(h, l, s) == Names(l, s, h.has.tag, h.has.content) /\ ReadIs(h, s) /\ AnswerIs(h, l, s)

Handlers == \A r \in Requests : req[r] # None => HandlerIs(req[r], life, says)

NodeNames == Names(life, says, held.tag, held.content) /\ Names(life, says, saved.tag, saved.content)

\* The request a node waits for says what the node holds.
WaitsFor == \A r \in Requests : waits = r /\ req[r] # None => req[r].has = held

\* What a handler no wake has reached knows of the settings.
Knows(h, settings) ==
    ~h.woken =>
        /\ h.at = "read" => h.x.settings = settings
        /\ h.at = "parked" => h.has.content # None
                              /\ h.has.content.structure.settings = settings

Owes == ask = "full" \/ loop.at = "notify"

Awake == Owes \/ \A r \in Requests : req[r] # None => Knows(req[r], db.settings)

IInv == TypeOK /\ Journaled(says, journal) /\ NodeNames /\ Handlers /\ WaitsFor /\ Awake

-----------------------------------------------------------------------------
(* The shared inputs *)

DbTyped == db \in [settings: BOOLEAN, node: BOOLEAN, who: [Users -> Row], blocked: BOOLEAN]

InputsTyped ==
    /\ says \in Seq(Inputs) /\ cache \in 0..Len(says) /\ fresh \in BOOLEAN
    /\ journal \in [floor: Nat, log: Seq(SUBSET Users)]

\* An entry appended for the next version keeps the journal's word.
LEMMA AppendExplains ==
  ASSUME NEW s \in Seq(Inputs), NEW floor \in Nat, NEW log \in Seq(SUBSET Users), s # <<>>,
         floor # 0, floor + Len(log) = Len(s), Explains(s, floor, log), NEW next \in Inputs
  PROVE  Explains(Append(s, next), floor, Append(log, DiffNodeInputs(s[Len(s)], next)))
<1> DEFINE n == Len(s)
           diff == DiffNodeInputs(s[n], next)
           t == Append(s, next)
           long == Append(log, diff)
<1>0. diff \in SUBSET Users
  BY DEF DiffNodeInputs
<1>1. n \in Nat \ {0} /\ Len(log) \in Nat
  BY EmptySeq, LenProperties
<1>2. Len(t) = n + 1 /\ t[n + 1] = next /\ \A v \in 1..n : t[v] = s[v]
  BY AppendProperties
<1>3. long[Len(log) + 1] = diff /\ \A i \in 1..Len(log) : long[i] = log[i]
  BY <1>0, AppendProperties
<1>4. Len(log) + 1 = n + 1 - floor
  BY <1>1
<1>5. \A v \in (floor + 1)..n : v - floor \in 1..Len(log)
  BY <1>1
<1>6. ASSUME NEW u \in Users, u \notin diff
      PROVE  s[n].who[u] = next.who[u]
  BY <1>6 DEF DiffNodeInputs
<1> HIDE DEF t, long, diff
<1>7. ASSUME NEW b \in 1..(n + 1), NEW c \in 1..(n + 1), NEW u \in Users,
             floor <= b, b <= c, \A v \in (b + 1)..c : u \notin long[v - floor]
      PROVE  t[b].who[u] = t[c].who[u]
  <2>1. ASSUME NEW v \in (b + 1)..c, v <= n
        PROVE  u \notin log[v - floor]
    <3>1. v \in (floor + 1)..n
      BY <1>1, <1>7, <2>1
    <3> QED
      BY <1>3, <1>5, <1>7, <3>1
  <2>2. ASSUME b <= n, NEW d \in 1..n, b <= d, d <= c
        PROVE  s[b].who[u] = s[d].who[u]
    <3>1. \A v \in (b + 1)..d : u \notin log[v - floor]
      <4> TAKE v \in (b + 1)..d
      <4> QED
        BY <1>1, <2>1, <2>2
    <3>2. b \in 1..n
      BY <1>1, <2>2
    <3> QED
      BY <1>7, <2>2, <3>1, <3>2 DEF Explains
  <2>3. CASE c <= n
    <3>1. b \in 1..n /\ c \in 1..n
      BY <1>1, <1>7, <2>3
    <3> QED
      BY <1>2, <1>7, <2>2, <3>1
  <2>4. CASE c = n + 1 /\ b = n + 1
    BY <2>4
  <2>5. CASE c = n + 1 /\ b <= n
    <3>1. s[b].who[u] = s[n].who[u]
      BY <1>1, <1>7, <2>2, <2>5
    <3>2. u \notin diff
      <4>1. n + 1 \in (b + 1)..c
        BY <1>1, <2>5
      <4> QED
        BY <1>3, <1>4, <1>7, <4>1
    <3>3. b \in 1..n
      BY <1>1, <2>5
    <3> QED
      BY <1>2, <1>6, <2>5, <3>1, <3>2, <3>3
  <2> QED
    BY <1>1, <2>3, <2>4, <2>5
<1>8. Explains(t, floor, long)
  <2>1. SUFFICES ASSUME NEW b \in 1..Len(t), NEW c \in 1..Len(t), NEW u \in Users,
                        floor <= b, b <= c, \A v \in (b + 1)..c : u \notin long[v - floor]
                 PROVE  t[b].who[u] = t[c].who[u]
    BY DEF Explains
  <2>2. b \in 1..(n + 1) /\ c \in 1..(n + 1)
    BY <1>2
  <2> QED
    BY <1>7, <2>1, <2>2
<1> QED
  BY <1>8 DEF t, long, diff

\* So it does without its oldest entry.
LEMMA TailExplains ==
  ASSUME NEW s \in Seq(Inputs), NEW floor \in Nat, NEW log \in Seq(SUBSET Users),
         log # <<>>, floor + Len(log) = Len(s), Explains(s, floor, log)
  PROVE  Explains(s, floor + 1, Tail(log))
<1> DEFINE tail == Tail(log)
<1>1. Len(s) \in Nat /\ Len(log) \in Nat \ {0}
  BY EmptySeq, LenProperties
<1>2. Len(tail) = Len(log) - 1 /\ \A i \in 1..Len(tail) : tail[i] = log[i + 1]
  BY HeadTailProperties
<1> HIDE DEF tail
<1>3. ASSUME NEW b \in 1..Len(s), NEW c \in 1..Len(s), NEW u \in Users,
             floor + 1 <= b, b <= c, \A v \in (b + 1)..c : u \notin tail[v - (floor + 1)]
      PROVE  s[b].who[u] = s[c].who[u]
  <2>1. ASSUME NEW v \in (b + 1)..c
        PROVE  u \notin log[v - floor]
    <3>1. v - (floor + 1) \in 1..Len(tail) /\ v - (floor + 1) + 1 = v - floor
      BY <1>1, <1>2, <1>3
    <3>2. tail[v - (floor + 1)] = log[v - floor]
      BY <1>2, <3>1
    <3> QED
      BY <1>3, <3>2
  <2>2. floor <= b
    BY <1>1, <1>3
  <2> QED
    BY <1>3, <2>1, <2>2 DEF Explains
<1> QED
  BY <1>3 DEF Explains, tail

LEMMA JournaledIs ==
  ASSUME NEW s, s # <<>>, NEW floor \in Nat \ {0}, NEW log, floor + Len(log) = Len(s),
         Explains(s, floor, log)
  PROVE  Journaled(s, [floor |-> floor, log |-> log])
BY DEF Journaled

LEMMA RecordedIs ==
  ASSUME InputsTyped, Journaled(says, journal), NEW next \in Inputs
  PROVE  /\ Recorded(next) \in [floor: Nat, log: Seq(SUBSET Users)]
         /\ Journaled(Append(says, next), Recorded(next))
<1> DEFINE t == Append(says, next)
<1>0. t \in Seq(Inputs) /\ t # <<>> /\ Len(t) = Len(says) + 1 /\ Len(says) \in Nat
  BY AppendProperties, LenProperties DEF InputsTyped
<1>1. CASE says = <<>>
  <2>1. Recorded(next) = [floor |-> 1, log |-> <<>>]
    BY <1>1 DEF Recorded
  <2>2. Len(t) = 1
    BY <1>0, <1>1, EmptySeq
  <2>3. <<>> \in Seq(SUBSET Users) /\ Len(<<>>) = 0
    BY EmptySeq
  <2> HIDE DEF t
  <2>4. Explains(t, 1, <<>>)
    <3>1. \A b, c \in 1..Len(t) : b = c
      BY <2>2
    <3> QED
      BY <3>1 DEF Explains
  <2>5. Journaled(t, Recorded(next))
    <3>1. 1 + Len(<<>>) = Len(t) /\ 1 \in Nat \ {0}
      BY <2>2, <2>3
    <3>2. Journaled(t, [floor |-> 1, log |-> <<>>])
      BY <1>0, <2>4, <3>1, JournaledIs
    <3> QED
      BY <2>1, <3>2
  <2> QED
    BY <2>1, <2>3, <2>5 DEF t
<1>2. CASE says # <<>>
  <2> DEFINE diff == DiffNodeInputs(says[Len(says)], next)
             long == Append(journal.log, diff)
  <2>1. diff \in SUBSET Users
    BY DEF DiffNodeInputs
  <2>2. journal.floor \in Nat \ {0} /\ journal.log \in Seq(SUBSET Users)
        /\ journal.floor + Len(journal.log) = Len(says)
        /\ Explains(says, journal.floor, journal.log)
    BY <1>2 DEF Journaled, InputsTyped
  <2> HIDE DEF diff
  <2>3. long \in Seq(SUBSET Users) /\ long # <<>> /\ Len(long) = Len(journal.log) + 1
        /\ Len(journal.log) \in Nat
    BY <2>1, <2>2, AppendProperties, LenProperties
  <2>4. Explains(t, journal.floor, long)
    BY <1>2, <2>2, AppendExplains DEF InputsTyped, diff
  <2> HIDE DEF long, t
  <2>5. journal.floor + Len(long) = Len(t)
    BY <1>0, <2>2, <2>3
  <2>6. Explains(t, journal.floor + 1, Tail(long))
    BY <1>0, <2>2, <2>3, <2>4, <2>5, TailExplains
  <2>7. Tail(long) \in Seq(SUBSET Users) /\ Len(Tail(long)) = Len(long) - 1
    BY <2>3, HeadTailProperties
  <2>8. CASE Recorded(next) = [floor |-> journal.floor + 1, log |-> Tail(long)]
    <3>1. Journaled(t, Recorded(next))
      <4>1. journal.floor + 1 \in Nat \ {0} /\ journal.floor + 1 + Len(Tail(long)) = Len(t)
        BY <2>2, <2>3, <2>5, <2>7
      <4> QED
        BY <1>0, <2>6, <2>8, <4>1, JournaledIs
    <3>2. Recorded(next) \in [floor: Nat, log: Seq(SUBSET Users)]
      BY <2>2, <2>7, <2>8
    <3> QED
      BY <3>1, <3>2 DEF t
  <2>9. CASE Recorded(next) = [floor |-> journal.floor, log |-> long]
    <3>1. Journaled(t, Recorded(next))
      BY <1>0, <2>2, <2>4, <2>5, <2>9, JournaledIs
    <3>2. Recorded(next) \in [floor: Nat, log: Seq(SUBSET Users)]
      BY <2>2, <2>3, <2>9
    <3> QED
      BY <3>1, <3>2 DEF t
  <2> QED
    BY <1>2, <2>8, <2>9 DEF Recorded, Version, long, diff
<1> QED
  BY <1>1, <1>2

\* A reading is a well formed one, whatever working set it is taken on.
LEMMA ReadingTyped ==
  ASSUME DbTyped, NEW ws \in [Users -> Row]
  PROVE  Reading(ws) \in Inputs
BY DEF Reading, Inputs, DbTyped, Row

\* Keeping a reading: the versions so far say what they said, the journal explains them.
LEMMA KeepIs ==
  ASSUME InputsTyped, Journaled(says, journal), NEW in \in Inputs, NEW isFresh \in BOOLEAN,
         Keep(in, isFresh)
  PROVE  InputsTyped' /\ Journaled(says', journal') /\ Grown(says, says') /\ cache' # 0
<1>0. Len(says) \in Nat
  BY LenProperties DEF InputsTyped
<1>1. CASE Version # 0 /\ says[Version] = in
  <2>1. cache' = Len(says) /\ says' = says /\ journal' = journal /\ fresh' = isFresh
    BY <1>1 DEF Keep, Version
  <2> QED
    BY <1>0, <1>1, <2>1 DEF InputsTyped, Grown, Version
<1>2. CASE ~(Version # 0 /\ says[Version] = in)
  <2>1. says' = Append(says, in) /\ cache' = Len(says) + 1 /\ journal' = Recorded(in)
        /\ fresh' = isFresh
    BY <1>2 DEF Keep, Version
  <2>2. says' \in Seq(Inputs) /\ Len(says') = Len(says) + 1
        /\ \A v \in 1..Len(says) : says'[v] = says[v]
    BY <2>1, AppendProperties DEF InputsTyped
  <2>3. Grown(says, says')
    BY <1>0, <2>2 DEF Grown
  <2>4. cache' \in 0..Len(says') /\ cache' # 0
    BY <1>0, <2>1, <2>2
  <2>5. journal' \in [floor: Nat, log: Seq(SUBSET Users)] /\ Journaled(says', journal')
    BY <2>1, RecordedIs
  <2> QED
    BY <2>1, <2>2, <2>3, <2>4, <2>5 DEF InputsTyped
<1> QED
  BY <1>1, <1>2

LEMMA GrownSame == ASSUME InputsTyped PROVE Grown(says, says)
BY LenProperties DEF Grown, InputsTyped

LEMMA KeptIs ==
  ASSUME InputsTyped, DbTyped, Journaled(says, journal), Kept
  PROVE  InputsTyped' /\ Journaled(says', journal') /\ Grown(says, says') /\ cache' # 0
<1>1. CASE cache # 0 /\ fresh
  BY <1>1, GrownSame DEF Kept, InputsTyped, inputs
<1>2. CASE ~(cache # 0 /\ fresh)
  <2>1. Reading(db.who) \in Inputs
    BY ReadingTyped DEF DbTyped
  <2> QED
    BY <1>2, <2>1, KeepIs DEF Kept
<1> QED
  BY <1>1, <1>2

\* What a tag says holds of later versions too.
LEMMA NamesStay ==
  ASSUME NEW l, NEW s \in Seq(Inputs), NEW t \in Seq(Inputs), Grown(s, t), NEW tag, NEW content,
         Names(l, s, tag, content)
  PROVE  Names(l, t, tag, content)
<1>1. Len(s) \in Nat /\ Len(t) \in Nat
  BY LenProperties
<1> QED
  BY <1>1 DEF Names, Grown

LEMMA HandlerStays ==
  ASSUME NEW l, NEW s \in Seq(Inputs), NEW t \in Seq(Inputs), Grown(s, t), NEW h \in Handler,
         HandlerIs(h, l, s)
  PROVE  HandlerIs(h, l, t)
<1>0. Len(s) \in Nat /\ Len(t) \in Nat /\ Len(s) <= Len(t)
  BY LenProperties DEF Grown
<1>1. Names(l, t, h.has.tag, h.has.content)
  BY NamesStay DEF HandlerIs
<1>2. ReadIs(h, t)
  <2>1. \A v \in 1..Len(s) : v \in 1..Len(t) /\ t[v] = s[v]
    BY <1>0 DEF Grown
  <2> QED
    BY <2>1 DEF HandlerIs, ReadIs
<1>3. AnswerIs(h, l, t)
  <2>1. CASE h.at # "answer"
    BY <2>1 DEF AnswerIs
  <2>2. CASE h.at = "answer"
    <3>1. Names(l, t, h.push.tag, h.push.content)
      BY <2>2, NamesStay DEF HandlerIs, AnswerIs
    <3>2. ASSUME h.push.kind = "delta"
          PROVE  /\ h.push.from.version \in 1..Len(t)
                 /\ \A u \in Users \ h.push.touched :
                       t[h.push.from.version].who[u] = t[h.push.tag.version].who[u]
      <4>1. h.push.from.version \in 1..Len(s) /\ h.push.tag.version \in 1..Len(s)
        BY <2>2, <3>2 DEF HandlerIs, AnswerIs, Names
      <4>2. t[h.push.from.version] = s[h.push.from.version]
            /\ t[h.push.tag.version] = s[h.push.tag.version]
        BY <4>1 DEF Grown
      <4> QED
        BY <1>0, <2>2, <3>2, <4>1, <4>2 DEF HandlerIs, AnswerIs
    <3> QED
      BY <2>2, <3>1, <3>2 DEF HandlerIs, AnswerIs
  <2> QED
    BY <2>1, <2>2
<1> QED
  BY <1>1, <1>2, <1>3 DEF HandlerIs

\* A step that touches neither the handlers nor what the node holds, and lets the inputs
\* only grow.
LEMMA OthersKeep ==
  ASSUME IInv, InputsTyped', life' = life, req' = req, held' = held, saved' = saved,
         Grown(says, says')
  PROVE  Handlers' /\ NodeNames'
<1>1. says \in Seq(Inputs) /\ says' \in Seq(Inputs)
  BY DEF IInv, TypeOK, InputsTyped
<1>2. Handlers'
  <2>1. SUFFICES ASSUME NEW r \in Requests, req[r] # None
                 PROVE  HandlerIs(req[r], life, says')
    BY DEF Handlers
  <2>2. req[r] \in Handler
    BY <2>1 DEF IInv, TypeOK
  <2> QED
    BY <1>1, <2>1, <2>2, HandlerStays DEF IInv, Handlers
<1>3. NodeNames'
  BY <1>1, NamesStay DEF IInv, NodeNames
<1> QED
  BY <1>2, <1>3

-----------------------------------------------------------------------------
(* One handler of the panel goes on *)

BoundsTyped == changes \in 0..MaxChanges /\ trouble \in 0..MaxTrouble

PanelTyped == memo \in Structure \cup {None} /\ life \in Nat /\ registered \in BOOLEAN

LoopTyped ==
    /\ loop \in [at: {"idle", "sync", "alone", "notify"}, ws: [Users -> Row], fresh: BOOLEAN]
    /\ ask \in {"no", "users", "full"} /\ due \in BOOLEAN

NodeTyped == held \in Held /\ saved \in Held /\ waits \in Requests \cup {None}

ReqTyped == req \in [Requests -> Handler \cup {None}]

LEMMA TypeParts ==
  TypeOK <=> DbTyped /\ InputsTyped /\ PanelTyped /\ LoopTyped /\ NodeTyped /\ ReqTyped /\ BoundsTyped
BY DEF TypeOK, DbTyped, InputsTyped, PanelTyped, LoopTyped, NodeTyped, ReqTyped, BoundsTyped

LEMMA BoundsKept ==
  ASSUME TypeOK, Trouble \/ Change \/ UNCHANGED bounds
  PROVE  BoundsTyped'
BY BoundsAssumption DEF TypeOK, Trouble, Change, bounds, BoundsTyped

\* A handler whose request, and what the node holds, stay as they are.
LEMMA HandlerSteps ==
  ASSUME IInv, NEW r \in Requests, req[r] # None, NEW h \in Handler, req' = [req EXCEPT ![r] = h],
         h.has = req[r].has, HandlerIs(h, life, says'), Owes \/ Knows(h, db.settings),
         InputsTyped', Journaled(says', journal'), Grown(says, says'),
         UNCHANGED <<db, loop, ask, due, held, saved, waits, life>>,
         memo' \in Structure \cup {None}, registered' \in BOOLEAN, BoundsTyped'
  PROVE  IInv'
<1>1. /\ TypeOK /\ Handlers /\ NodeNames /\ WaitsFor /\ Awake
      /\ says \in Seq(Inputs) /\ says' \in Seq(Inputs)
  BY DEF IInv, TypeOK, InputsTyped
<1>2. ReqTyped'
  BY <1>1, TypeParts DEF ReqTyped
<1>3. TypeOK'
  BY <1>1, <1>2 DEF TypeOK, InputsTyped, ReqTyped, BoundsTyped
<1>4. \A q \in Requests : req'[q] = IF q = r THEN h ELSE req[q]
  BY <1>1 DEF TypeOK
<1>5. h # None
  BY NoneAssumption
<1>6. Handlers'
  <2>1. SUFFICES ASSUME NEW q \in Requests, req'[q] # None
                 PROVE  HandlerIs(req'[q], life, says')
    BY DEF Handlers
  <2>2. CASE q = r
    BY <1>4, <2>2
  <2>3. CASE q # r
    <3>1. req'[q] = req[q] /\ req[q] \in Handler
      BY <1>1, <1>4, <2>1, <2>3 DEF TypeOK
    <3> QED
      BY <1>1, <2>1, <3>1, HandlerStays DEF Handlers
  <2> QED
    BY <2>2, <2>3
<1>7. NodeNames'
  BY <1>1, NamesStay DEF NodeNames
<1>8. WaitsFor'
  BY <1>1, <1>4 DEF WaitsFor
<1>9. Awake'
  BY <1>1, <1>4 DEF Awake, Owes
<1> QED
  BY <1>3, <1>6, <1>7, <1>8, <1>9 DEF IInv

LEMMA TakeChanKeeps ==
  ASSUME IInv, NEW r \in Requests, TakeChan(r)
  PROVE  IInv'
<1> DEFINE h == [req[r] EXCEPT !.at = "hooked"]
<1>1. req[r] # None /\ req[r] \in Handler
  BY DEF TakeChan, IInv, TypeOK
<1>2. req' = [req EXCEPT ![r] = h]
  BY DEF TakeChan, IInv, TypeOK
<1>3. h \in Handler /\ h.has = req[r].has /\ h.at = "hooked"
  BY <1>1 DEF Handler
<1>4. HandlerIs(h, life, says) /\ Knows(h, db.settings)
  BY <1>1, <1>3 DEF IInv, Handlers, HandlerIs, ReadIs, AnswerIs, Knows
<1>5. /\ UNCHANGED <<db, loop, ask, due, held, saved, waits, life, memo, says, journal>>
      /\ InputsTyped' /\ BoundsTyped' /\ memo \in Structure \cup {None} /\ registered' \in BOOLEAN
      /\ Journaled(says, journal) /\ InputsTyped
  BY TypeParts, BoundsKept DEF TakeChan, IInv, inputs, wakes, node, bounds, InputsTyped, TypeOK
<1> HIDE DEF h
<1> QED
  BY <1>1, <1>2, <1>3, <1>4, <1>5, GrownSame, HandlerSteps

LEMMA WakeUpKeeps ==
  ASSUME IInv, NEW r \in Requests, WakeUp(r)
  PROVE  IInv'
<1> DEFINE h == [req[r] EXCEPT !.at = "woke", !.node = db.node, !.again = TRUE]
<1>1. req[r] # None /\ req[r] \in Handler
  BY DEF WakeUp, IInv, TypeOK
<1>2. req' = [req EXCEPT ![r] = h]
  BY DEF WakeUp, IInv, TypeOK
<1>3. h \in Handler /\ h.has = req[r].has /\ h.at = "woke"
  BY <1>1 DEF Handler, IInv, TypeOK
<1>4. HandlerIs(h, life, says) /\ Knows(h, db.settings)
  BY <1>1, <1>3 DEF IInv, Handlers, HandlerIs, ReadIs, AnswerIs, Knows
<1>5. /\ UNCHANGED <<db, loop, ask, due, held, saved, waits, life, memo, registered, says, journal>>
      /\ InputsTyped' /\ BoundsTyped' /\ memo \in Structure \cup {None} /\ registered \in BOOLEAN
      /\ Journaled(says, journal) /\ InputsTyped
  BY TypeParts, BoundsKept DEF WakeUp, IInv, inputs, panel, wakes, node, bounds, InputsTyped, TypeOK
<1> HIDE DEF h
<1> QED
  BY <1>1, <1>2, <1>3, <1>4, <1>5, GrownSame, HandlerSteps

LEMMA ReadInputsKeeps ==
  ASSUME IInv, NEW r \in Requests, ReadInputs(r)
  PROVE  IInv'
<1>1. req[r] # None /\ req[r] \in Handler /\ TypeOK /\ Handlers
  BY DEF ReadInputs, IInv, TypeOK
<1>2. /\ DbTyped /\ InputsTyped /\ memo \in Structure \cup {None} /\ registered \in BOOLEAN
      /\ Journaled(says, journal)
      /\ UNCHANGED <<db, loop, ask, due, held, saved, waits, life, memo, registered>>
  BY TypeParts DEF ReadInputs, IInv, panel, wakes, node, PanelTyped
<1>3. CASE TakesKept(r)
  <2> DEFINE x == [settings |-> db.settings, version |-> cache',
                   who |-> says'[cache'].who, blocked |-> says'[cache'].blocked]
             h == [req[r] EXCEPT !.at = "read", !.x = x]
  <2>1. InputsTyped' /\ Journaled(says', journal') /\ Grown(says, says') /\ cache' # 0
    BY <1>2, <1>3, KeptIs DEF TakesKept
  <2>2. cache' \in 1..Len(says') /\ cache' \in Nat /\ says'[cache'] \in Inputs
    BY <2>1, LenProperties, ElementOfSeq DEF InputsTyped
  <2>3. x \in Read
    BY <1>2, <2>2 DEF Read, Inputs, DbTyped
  <2>4. req' = [req EXCEPT ![r] = h]
    BY <1>1, <1>3 DEF TakesKept, TypeOK
  <2> HIDE DEF x
  <2>5. /\ h \in Handler /\ h.has = req[r].has /\ h.at = "read" /\ h.x = x
    BY <1>1, <2>3 DEF Handler
  <2>6. x.version = cache' /\ x.who = says'[cache'].who /\ x.blocked = says'[cache'].blocked
        /\ x.settings = db.settings /\ x # None
    BY <2>3, NoneAssumption DEF x
  <2> HIDE DEF h
  <2>7. Names(life, says', h.has.tag, h.has.content)
    BY <1>1, <1>2, <2>1, <2>5, NamesStay DEF Handlers, HandlerIs, InputsTyped
  <2>8. HandlerIs(h, life, says') /\ Knows(h, db.settings)
    BY <2>2, <2>5, <2>6, <2>7 DEF HandlerIs, ReadIs, AnswerIs, Knows
  <2>9. BoundsTyped'
    BY <1>1, <1>3, BoundsKept DEF TakesKept
  <2> QED
    BY <1>1, <1>2, <2>1, <2>4, <2>5, <2>8, <2>9, HandlerSteps
<1>4. CASE TakesDegraded(r)
  <2> DEFINE x == [settings |-> db.settings, version |-> 0,
                   who |-> Reading(db.who).who, blocked |-> FALSE]
             h == [req[r] EXCEPT !.at = "read", !.x = x]
  <2>1. InputsTyped' /\ Journaled(says', journal') /\ Grown(says, says') /\ says' = says
    BY <1>2, <1>4, GrownSame DEF TakesDegraded, inputs, InputsTyped
  <2>2. Reading(db.who) \in Inputs
    BY <1>2, ReadingTyped DEF DbTyped
  <2>3. x \in Read
    BY <1>2, <2>2 DEF Read, Inputs, DbTyped
  <2>4. req' = [req EXCEPT ![r] = h]
    BY <1>1, <1>4 DEF TakesDegraded, TypeOK
  <2>5. x.version = 0 /\ x.settings = db.settings /\ x # None
    BY <2>3, NoneAssumption
  <2> HIDE DEF x
  <2>6. h \in Handler /\ h.has = req[r].has /\ h.at = "read" /\ h.x = x
    BY <1>1, <2>3 DEF Handler
  <2> HIDE DEF h
  <2>7. HandlerIs(h, life, says') /\ Knows(h, db.settings)
    BY <1>1, <2>1, <2>5, <2>6 DEF Handlers, HandlerIs, ReadIs, AnswerIs, Knows
  <2>8. BoundsTyped'
    BY <1>1, <1>4, BoundsKept DEF TakesDegraded
  <2> QED
    BY <1>1, <1>2, <2>1, <2>4, <2>6, <2>7, <2>8, HandlerSteps
<1> QED
  BY <1>3, <1>4 DEF ReadInputs

-----------------------------------------------------------------------------
(* What a handler makes of what it has read *)

\* The tag and the content a handler works out belong together.
LEMMA BuiltNames ==
  ASSUME IInv, NEW r \in Requests, req[r] # None, req[r].at = "read"
  PROVE  /\ StructureOf(r) \in Structure /\ ContentOf(r) \in Content
         /\ TagOf(r) \in Tag \cup {None}
         /\ Keyed(r) => /\ TagOf(r) \in Tag /\ TagOf(r) # None /\ TagOf(r).life = life
                        /\ TagOf(r).structure = StructureOf(r)
                        /\ TagOf(r).version = req[r].x.version
         /\ Names(life, says, TagOf(r), ContentOf(r))
<1>1. req[r] \in Handler /\ life \in Nat /\ HandlerIs(req[r], life, says) /\ Len(says) \in Nat
  BY LenProperties DEF IInv, TypeOK, Handlers
<1>2. req[r].x \in Read /\ req[r].node \in BOOLEAN
  BY <1>1 DEF HandlerIs, ReadIs, Handler
<1>3. StructureOf(r) \in Structure
  BY <1>2 DEF StructureOf, Structure, Read
<1>4. ContentOf(r) = [structure |-> StructureOf(r), who |-> req[r].x.who, blocked |-> req[r].x.blocked]
  BY DEF ContentOf, Built
<1>5. ContentOf(r) \in Content
  BY <1>2, <1>3, <1>4 DEF Content, Read
<1>6. CASE Keyed(r)
  <2>1. /\ req[r].x.version \in 1..Len(says)
        /\ req[r].x.who = says[req[r].x.version].who
        /\ req[r].x.blocked = says[req[r].x.version].blocked
    BY <1>1, <1>6 DEF HandlerIs, ReadIs, Keyed
  <2>2. TagOf(r) = [life |-> life, version |-> req[r].x.version, structure |-> StructureOf(r)]
    BY <1>6 DEF TagOf
  <2>3. req[r].x.version \in Nat \ {0}
    BY <1>1, <2>1
  <2>4. TagOf(r) \in Tag
    BY <1>1, <1>3, <2>2, <2>3 DEF Tag
  <2>5. TagOf(r) # None
    BY <2>4, NoneAssumption
  <2>6. ContentOf(r) = Built(StructureOf(r), says[req[r].x.version])
    BY <1>4, <2>1 DEF Built
  <2>7. Names(life, says, TagOf(r), ContentOf(r))
    BY <1>1, <2>1, <2>2, <2>6 DEF Names
  <2> QED
    BY <1>3, <1>5, <2>2, <2>4, <2>5, <2>7
<1>7. CASE ~Keyed(r)
  <2>1. TagOf(r) = None
    BY <1>7 DEF TagOf
  <2> QED
    BY <1>3, <1>5, <1>7, <2>1 DEF Names
<1> QED
  BY <1>6, <1>7

\* A handler that pushes, or holds.
LEMMA PushesIs ==
  ASSUME IInv, NEW r \in Requests, req[r] # None, req[r].at = "read", NEW push \in Push,
         Pushes(r, push), UNCHANGED <<db, inputs, wakes, node, bounds, life, registered>>,
         memo' \in Structure \cup {None},
         Names(life, says, push.tag, push.content),
         push.kind = "rename" => push.content = req[r].has.content,
         push.kind = "delta" =>
              /\ push.tag # None /\ push.from # None
              /\ push.from.life = life /\ push.tag.life = life
              /\ push.from.structure = push.tag.structure
              /\ push.from.version \in 1..Len(says)
              /\ \A u \in Users \ push.touched :
                    says[push.from.version].who[u] = says[push.tag.version].who[u],
         push.kind = "none" => req[r].has.content = ContentOf(r)
  PROVE  IInv'
<1> DEFINE holds == push.kind = "none" /\ ~req[r].again
           h == [req[r] EXCEPT !.push = IF holds THEN None ELSE push, !.x = None,
                               !.at = IF holds THEN "parked" ELSE "answer"]
<1>1. /\ TypeOK /\ req[r] \in Handler /\ HandlerIs(req[r], life, says)
      /\ InputsTyped /\ PanelTyped /\ Journaled(says, journal)
  BY TypeParts DEF IInv, TypeOK, Handlers
<1>2. req' = [req EXCEPT ![r] = h]
  BY <1>1 DEF Pushes, TypeOK
<1>3. push # None
  BY NoneAssumption
<1>4. /\ h \in Handler /\ h.has = req[r].has /\ h.woken = req[r].woken
      /\ h.at = (IF holds THEN "parked" ELSE "answer")
      /\ ~holds => h.push = push
  BY <1>1 DEF Handler
<1> HIDE DEF h
<1>5. HandlerIs(h, life, says)
  <2>1. ReadIs(h, says) /\ Names(life, says, h.has.tag, h.has.content)
    BY <1>1, <1>4 DEF HandlerIs, ReadIs
  <2>2. AnswerIs(h, life, says)
    BY <1>3, <1>4 DEF AnswerIs
  <2> QED
    BY <2>1, <2>2 DEF HandlerIs
<1>6. Owes \/ Knows(h, db.settings)
  <2>1. SUFFICES ASSUME ~Owes, ~h.woken, h.at = "parked"
                 PROVE  /\ h.has.content # None
                        /\ h.has.content.structure.settings = db.settings
    BY <1>4 DEF Knows
  <2>2. req[r].x.settings = db.settings
    BY <1>4, <2>1 DEF IInv, Awake, Knows
  <2>3. ContentOf(r) # None /\ ContentOf(r).structure.settings = req[r].x.settings
    BY BuiltNames, NoneAssumption DEF ContentOf, Built, StructureOf
  <2>4. h.has.content = ContentOf(r)
    BY <1>4, <2>1
  <2> QED
    BY <2>2, <2>3, <2>4
<1>7. /\ InputsTyped' /\ Journaled(says', journal') /\ Grown(says, says') /\ says' = says
      /\ UNCHANGED <<db, loop, ask, due, held, saved, waits, life>>
      /\ registered' \in BOOLEAN
  BY <1>1, GrownSame DEF InputsTyped, inputs, wakes, node, PanelTyped
<1>8. BoundsTyped'
  BY <1>1, BoundsKept
<1> QED
  BY <1>2, <1>4, <1>5, <1>6, <1>7, <1>8, HandlerSteps

LEMMA NoPushTyped ==
  ASSUME IInv, NEW r \in Requests, req[r] # None, req[r].at = "read"
  PROVE  /\ NoPush(r) \in Push
         /\ NoPush(r).tag = TagOf(r) /\ NoPush(r).content = ContentOf(r) /\ NoPush(r).kind = "none"
BY BuiltNames DEF NoPush, Push

LEMMA UnchangedKeeps ==
  ASSUME IInv, NEW r \in Requests, Unchanged(r)
  PROVE  IInv'
<1>1. req[r] # None /\ req[r].at = "read" /\ Keyed(r) /\ req[r].has.tag = TagOf(r)
  BY DEF Unchanged, Verified
<1>2. req[r].has.content = ContentOf(r)
  <2>1. Names(life, says, req[r].has.tag, req[r].has.content)
    BY <1>1 DEF IInv, Handlers, HandlerIs
  <2> QED
    BY <1>1, <2>1, BuiltNames DEF Names
<1>3. memo \in Structure \cup {None}
  BY DEF IInv, TypeOK
<1> QED
  BY <1>1, <1>2, <1>3, BuiltNames, NoPushTyped, PushesIs DEF Unchanged, panel

LEMMA WholeKeeps ==
  ASSUME IInv, NEW r \in Requests, Whole(r)
  PROVE  IInv'
<1> DEFINE kind == IF req[r].has.content # ContentOf(r) THEN "split"
                   ELSE IF req[r].has.tag = TagOf(r) THEN "none" ELSE "rename"
           push == [NoPush(r) EXCEPT !.from = req[r].has.tag, !.kind = kind]
<1>1. req[r] # None /\ req[r].at = "read" /\ req[r] \in Handler
  BY DEF Whole, IInv, TypeOK
<1>2. req[r].has.tag \in Tag \cup {None}
  BY <1>1 DEF Handler, Held
<1>3. push \in Push /\ push.kind = kind /\ push.tag = TagOf(r) /\ push.content = ContentOf(r)
  BY <1>1, <1>2, NoPushTyped DEF Push
<1>4. memo' \in Structure \cup {None}
  BY <1>1, BuiltNames DEF Whole, IInv, TypeOK
<1>5. Pushes(r, push) /\ UNCHANGED <<db, inputs, wakes, node, bounds, life, registered>>
  BY DEF Whole
<1>6. kind \in {"split", "none", "rename"} /\ (kind # "split" => req[r].has.content = ContentOf(r))
  OBVIOUS
<1> HIDE DEF push, kind
<1> QED
  BY <1>1, <1>3, <1>4, <1>5, <1>6, BuiltNames, PushesIs

\* Whoever no entry since a version names has kept its row.
LEMMA TouchedIs ==
  ASSUME NEW base \in 1..Len(says), NEW cur \in 1..Len(says), Len(says) \in Nat,
         journal.floor \in Nat \ {0}, journal.log \in Seq(SUBSET Users),
         journal.floor + Len(journal.log) = Len(says), Explains(says, journal.floor, journal.log),
         journal.floor <= base, base <= cur
  PROVE  /\ TouchedSince(base, cur) \subseteq Users
         /\ \A u \in Users \ TouchedSince(base, cur) : says[base].who[u] = says[cur].who[u]
<1> DEFINE floor == journal.floor
           log == journal.log
           since == (base + 1)..cur
           entries == {log[v - floor] : v \in since}
<1>0. floor \in Nat \ {0} /\ log \in Seq(SUBSET Users) /\ floor + Len(log) = Len(says)
      /\ Explains(says, floor, log) /\ floor <= base /\ base <= cur /\ Len(log) \in Nat
  BY LenProperties
<1>1. TouchedSince(base, cur) = UNION entries
  BY DEF TouchedSince
<1> HIDE DEF floor, log
<1>2. ASSUME NEW v \in since
      PROVE  log[v - floor] \in SUBSET Users
  <2>1. v - floor \in 1..Len(log)
    BY <1>0
  <2> QED
    BY <1>0, <2>1, ElementOfSeq
<1>3. UNION entries \subseteq Users
  BY <1>2
<1>4. ASSUME NEW u \in Users, u \notin UNION entries
      PROVE  says[base].who[u] = says[cur].who[u]
  <2>1. ASSUME NEW v \in since
        PROVE  u \notin log[v - floor]
    BY <1>4
  <2> QED
    BY <1>0, <2>1 DEF Explains
<1> QED
  BY <1>1, <1>3, <1>4

LEMMA DeltaKeeps ==
  ASSUME IInv, NEW r \in Requests, Delta(r)
  PROVE  IInv'
<1> DEFINE base == req[r].has.tag.version
           cur == req[r].x.version
           touched == TouchedSince(base, cur)
           push == [NoPush(r) EXCEPT !.kind = "delta", !.from = req[r].has.tag, !.touched = touched]
<1>1. /\ req[r] # None /\ req[r].at = "read" /\ req[r] \in Handler /\ Keyed(r)
      /\ memo = StructureOf(r) /\ req[r].has.tag # None /\ req[r].has.tag.life = life
      /\ req[r].has.tag.structure = StructureOf(r) /\ Covers(base, cur)
  BY DEF Delta, CanDelta, Verified, IInv, TypeOK
<1>2. req[r].has.tag \in Tag
  BY <1>1 DEF Handler, Held
<1>3. base \in 1..Len(says)
  BY <1>1 DEF IInv, Handlers, HandlerIs, Names
<1>4. cur \in 1..Len(says) /\ Len(says) \in Nat
  BY <1>1, LenProperties DEF IInv, Handlers, HandlerIs, ReadIs, Keyed, TypeOK
<1>5. journal.floor \in Nat \ {0} /\ journal.log \in Seq(SUBSET Users)
      /\ journal.floor + Len(journal.log) = Len(says) /\ Explains(says, journal.floor, journal.log)
  <2>1. says # <<>>
    BY <1>4, EmptySeq
  <2> QED
    BY <2>1 DEF IInv, Journaled, TypeOK
<1>6. journal.floor <= base /\ base <= cur
  BY <1>1 DEF Covers
<1>7. touched \subseteq Users /\ \A u \in Users \ touched : says[base].who[u] = says[cur].who[u]
  <2> HIDE DEF base, cur
  <2> QED
    BY <1>3, <1>4, <1>5, <1>6, TouchedIs
<1> HIDE DEF touched
<1>9. push \in Push /\ push.kind = "delta" /\ push.tag = TagOf(r) /\ push.content = ContentOf(r)
      /\ push.from = req[r].has.tag /\ push.touched = touched
  BY <1>1, <1>2, <1>7, NoPushTyped DEF Push
<1>10. Pushes(r, push) /\ UNCHANGED <<db, inputs, wakes, node, bounds, life, registered, memo>>
  BY DEF Delta, panel, touched
<1>11. memo \in Structure \cup {None} /\ push.from # None
  BY <1>1, <1>9 DEF IInv, TypeOK
<1> HIDE DEF push
<1>12. /\ push.tag # None /\ push.from.life = life /\ push.tag.life = life
       /\ push.from.structure = push.tag.structure /\ push.from.version \in 1..Len(says)
       /\ \A u \in Users \ push.touched :
             says[push.from.version].who[u] = says[push.tag.version].who[u]
  BY <1>1, <1>3, <1>7, <1>9, BuiltNames
<1> QED
  BY <1>1, <1>9, <1>10, <1>11, <1>12, BuiltNames, PushesIs

-----------------------------------------------------------------------------
(* Requests come and go, and the node takes what it is sent *)

\* A handler is over, and what the node holds is named rightly.
LEMMA HandlerEnds ==
  ASSUME IInv, NEW r \in Requests, req' = [req EXCEPT ![r] = None],
         UNCHANGED <<db, inputs, panel, wakes>>, BoundsTyped', NodeTyped', NodeNames',
         waits' = None \/ (waits' = waits /\ held' = held)
  PROVE  IInv'
<1>1. TypeOK /\ Handlers /\ WaitsFor /\ Awake /\ Journaled(says, journal)
  BY DEF IInv
<1>2. \A q \in Requests : req'[q] = IF q = r THEN None ELSE req[q]
  BY <1>1 DEF TypeOK
<1>3. TypeOK'
  BY <1>1 DEF TypeOK, inputs, panel, wakes, NodeTyped, BoundsTyped
<1>4. Handlers'
  BY <1>1, <1>2 DEF Handlers, inputs, panel
<1>5. WaitsFor'
  BY <1>1, <1>2, NoneAssumption DEF WaitsFor
<1>6. Awake'
  BY <1>1, <1>2 DEF Awake, Owes, wakes
<1>7. Journaled(says', journal')
  BY <1>1 DEF inputs
<1> QED
  BY <1>3, <1>4, <1>5, <1>6, <1>7 DEF IInv

LEMMA HungUpKeeps ==
  ASSUME IInv, NEW r \in Requests, HungUp(r)
  PROVE  IInv'
<1>1. BoundsTyped' /\ NodeTyped' /\ NodeNames'
  BY DEF IInv, TypeOK, HungUp, node, bounds, inputs, panel, BoundsTyped, NodeTyped, NodeNames
<1> QED
  BY <1>1, HandlerEnds DEF HungUp, node

LEMMA SendKeeps ==
  ASSUME IInv, NEW r \in Requests, Send(r)
  PROVE  IInv'
<1> DEFINE h == [at |-> "looked", node |-> db.node, has |-> held, woken |-> FALSE,
                 again |-> FALSE, x |-> None, push |-> None]
<1>1. TypeOK /\ Handlers /\ NodeNames /\ WaitsFor /\ Awake /\ Journaled(says, journal)
  BY DEF IInv
<1>2. h \in Handler
  BY <1>1 DEF TypeOK, Handler
<1>3. /\ req' = [req EXCEPT ![r] = h] /\ waits' = r /\ waits = None
      /\ UNCHANGED <<db, inputs, panel, wakes, held, saved, bounds>>
  BY DEF Send
<1>4. h.has = held /\ h.at = "looked"
  OBVIOUS
<1> HIDE DEF h
<1>5. \A q \in Requests : req'[q] = IF q = r THEN h ELSE req[q]
  BY <1>1, <1>3 DEF TypeOK
<1>6. TypeOK'
  BY <1>1, <1>2, <1>3 DEF TypeOK, inputs, panel, wakes, bounds
<1>7. HandlerIs(h, life, says) /\ Knows(h, db.settings)
  BY <1>1, <1>4 DEF HandlerIs, ReadIs, AnswerIs, Knows, NodeNames
<1>8. Handlers' /\ NodeNames' /\ Journaled(says', journal')
  BY <1>1, <1>3, <1>5, <1>7 DEF Handlers, NodeNames, inputs, panel
<1>9. WaitsFor'
  BY <1>3, <1>4, <1>5 DEF WaitsFor
<1>10. Awake'
  BY <1>1, <1>3, <1>5, <1>7 DEF Awake, Owes, wakes
<1> QED
  BY <1>6, <1>8, <1>9, <1>10 DEF IInv

\* What the node saves of what it takes, if it can.
LEMMA SavesIs ==
  ASSUME IInv, NEW r \in Requests, Answered(r), NEW new \in Held, Saves(new),
         UNCHANGED <<db, inputs, panel, wakes>>,
         Names(life, says, new.tag, new.content)
  PROVE  IInv'
<1>1. TypeOK /\ NodeNames
  BY DEF IInv
<1>2. BoundsTyped'
  BY <1>1, BoundsKept DEF Saves
<1>3. NodeTyped'
  BY <1>1 DEF TypeOK, NodeTyped, Saves, Answered
<1>4. NodeNames'
  BY <1>1 DEF NodeNames, Saves, inputs, panel
<1> QED
  BY <1>2, <1>3, <1>4, HandlerEnds DEF Answered

LEMMA ApplySplitKeeps ==
  ASSUME IInv, NEW r \in Requests, ApplySplit(r)
  PROVE  IInv'
<1> DEFINE p == req[r].push
           new == [tag |-> p.tag, content |-> p.content]
<1>1. req[r] \in Handler /\ HandlerIs(req[r], life, says) /\ req[r].at = "answer"
  BY DEF IInv, TypeOK, Handlers, ApplySplit, Answered
<1>2. p \in Push /\ Names(life, says, p.tag, p.content)
  BY <1>1 DEF HandlerIs, AnswerIs, Handler
<1>3. new \in Held
  BY <1>2 DEF Push, Held
<1> QED
  BY <1>2, <1>3, SavesIs DEF ApplySplit

LEMMA MergedIs ==
  ASSUME NEW c \in Content, NEW who \in [Users -> Row], NEW blocked \in BOOLEAN
  PROVE  /\ [c EXCEPT !.who = who, !.blocked = blocked]
                = [structure |-> c.structure, who |-> who, blocked |-> blocked]
         /\ [c EXCEPT !.who = who, !.blocked = blocked] \in Content
<1> DEFINE d == [c EXCEPT !.who = who, !.blocked = blocked]
           e == [structure |-> c.structure, who |-> who, blocked |-> blocked]
<1>1. d \in Content /\ d.structure = c.structure /\ d.who = who /\ d.blocked = blocked
  BY DEF Content
<1>2. e \in Content /\ e.structure = c.structure /\ e.who = who /\ e.blocked = blocked
  BY DEF Content
<1> HIDE DEF d, e
<1>3. d = e
  BY <1>1, <1>2 DEF Content
<1> QED
  BY <1>1, <1>3 DEF d, e

\* A change, taken by a node that holds what it follows, makes what it is called.
LEMMA AppliedNames ==
  ASSUME NEW l, NEW s \in Seq(Inputs), NEW p \in Push, held \in Held, held.content # None,
         p.from = held.tag, p.kind \in {"rename", "delta"},
         Names(l, s, held.tag, held.content), Names(l, s, p.tag, p.content),
         p.kind = "rename" => p.content = held.content,
         p.kind = "delta" =>
              /\ p.tag # None /\ p.from # None
              /\ p.from.life = l /\ p.tag.life = l
              /\ p.from.structure = p.tag.structure
              /\ p.from.version \in 1..Len(s)
              /\ \A u \in Users \ p.touched :
                    s[p.from.version].who[u] = s[p.tag.version].who[u]
  PROVE  Applied(p) \in Held /\ Names(l, s, Applied(p).tag, Applied(p).content)
<1> DEFINE merged == [u \in Users |-> IF u \in p.touched THEN p.content.who[u] ELSE held.content.who[u]]
           blocked == IF p.kind = "rename" THEN held.content.blocked ELSE p.content.blocked
           content == [held.content EXCEPT !.who = merged, !.blocked = blocked]
<1>1. held.content \in Content /\ p.content \in Content /\ p.tag \in Tag \cup {None}
  BY DEF Held, Push
<1>2. merged \in [Users -> Row] /\ blocked \in BOOLEAN
  BY <1>1 DEF Content
<1> HIDE DEF merged, blocked
<1>3. /\ content = [structure |-> held.content.structure, who |-> merged, blocked |-> blocked]
      /\ content \in Content
  BY <1>1, <1>2, MergedIs
<1>4. Applied(p) = [tag |-> p.tag, content |-> content]
  BY DEF Applied, merged, blocked
<1> HIDE DEF content
<1>5. Applied(p) \in Held
  BY <1>1, <1>3, <1>4 DEF Held
<1>6. CASE p.kind = "rename"
  <2>1. merged = held.content.who /\ blocked = held.content.blocked
    BY <1>1, <1>6 DEF Content, merged, blocked
  <2>2. content = p.content
    BY <1>1, <1>3, <1>6, <2>1 DEF Content
  <2> QED
    BY <1>4, <1>5, <2>2
<1>7. CASE p.kind = "delta"
  <2> DEFINE old == s[p.from.version]
             new == s[p.tag.version]
  <2>1. held.content = Built(p.tag.structure, old)
    BY <1>7 DEF Names
  <2>2. p.content = Built(p.tag.structure, new) /\ p.tag.version \in 1..Len(s)
    BY <1>7 DEF Names
  <2>3. new \in Inputs /\ old \in Inputs
    BY <1>7, <2>2, ElementOfSeq
  <2>4. \A u \in Users \ p.touched : old.who[u] = new.who[u]
    BY <1>7
  <2> HIDE DEF old, new
  <2>5. /\ held.content.who = old.who /\ p.content.who = new.who
        /\ held.content.structure = p.tag.structure /\ p.content.blocked = new.blocked
    BY <2>1, <2>2 DEF Built
  <2>6. merged = new.who
    <3>1. new.who \in [Users -> Row]
      BY <2>3 DEF Inputs
    <3>2. \A u \in Users : merged[u] = new.who[u]
      BY <2>4, <2>5 DEF merged
    <3> QED
      BY <3>1, <3>2 DEF merged
  <2>7. blocked = new.blocked
    BY <1>7, <2>5 DEF blocked
  <2>8. content = Built(p.tag.structure, new)
    BY <1>3, <2>5, <2>6, <2>7 DEF Built
  <2>9. Names(l, s, p.tag, content)
    BY <1>7, <2>2, <2>8 DEF Names, new
  <2> QED
    BY <1>4, <1>5, <2>9
<1> QED
  BY <1>6, <1>7

LEMMA ApplyDeltaKeeps ==
  ASSUME IInv, NEW r \in Requests, ApplyDelta(r)
  PROVE  IInv'
<1> DEFINE p == req[r].push
<1>1. /\ TypeOK /\ NodeNames /\ req[r] \in Handler /\ HandlerIs(req[r], life, says)
      /\ req[r].at = "answer" /\ req[r] # None /\ Answered(r) /\ p.kind \in {"rename", "delta"}
      /\ UNCHANGED <<db, inputs, panel, wakes>>
  BY DEF IInv, TypeOK, Handlers, ApplyDelta, Answered
<1>2. p \in Push /\ Names(life, says, p.tag, p.content)
  BY <1>1 DEF HandlerIs, AnswerIs, Handler
<1>3. req[r].has = held
  BY <1>1 DEF IInv, WaitsFor, Answered
<1>4. held \in Held /\ says \in Seq(Inputs) /\ Names(life, says, held.tag, held.content)
  BY <1>1 DEF TypeOK, NodeNames
<1>5. CASE held.content = None \/ p.from # held.tag
  <2>1. Forgotten \in Held /\ Forgotten.tag = None
    BY <1>4 DEF Forgotten, Held
  <2>2. Saves(Forgotten)
    BY <1>5 DEF ApplyDelta
  <2>3. Names(life, says, Forgotten.tag, Forgotten.content)
    BY <2>1 DEF Names
  <2> QED
    BY <1>1, <2>1, <2>2, <2>3, SavesIs
<1>6. CASE held.content # None /\ p.from = held.tag
  <2>1. Saves(Applied(p))
    BY <1>6 DEF ApplyDelta
  <2>2. p.kind = "rename" => p.content = held.content
    BY <1>1, <1>3 DEF HandlerIs, AnswerIs
  <2>3. p.kind = "delta" =>
              /\ p.tag # None /\ p.from # None
              /\ p.from.life = life /\ p.tag.life = life
              /\ p.from.structure = p.tag.structure
              /\ p.from.version \in 1..Len(says)
              /\ \A u \in Users \ p.touched :
                    says[p.from.version].who[u] = says[p.tag.version].who[u]
    BY <1>1 DEF HandlerIs, AnswerIs
  <2> HIDE DEF p
  <2>4. Applied(p) \in Held /\ Names(life, says, Applied(p).tag, Applied(p).content)
    BY <1>1, <1>2, <1>4, <1>6, <2>2, <2>3, AppliedNames
  <2> QED
    BY <1>1, <2>1, <2>4, SavesIs
<1> QED
  BY <1>5, <1>6

LEMMA NotAppliedKeeps ==
  ASSUME IInv, NEW r \in Requests, NothingToApply(r) \/ Refuses(r)
  PROVE  IInv'
<1>1. /\ Answered(r) /\ UNCHANGED <<db, inputs, panel, wakes, held, saved>>
      /\ Trouble \/ UNCHANGED bounds
  BY DEF NothingToApply, Refuses
<1>2. BoundsTyped'
  BY <1>1, BoundsKept DEF IInv
<1>3. NodeTyped'
  <2>1. held' = held /\ saved' = saved /\ waits' = None
    BY <1>1 DEF Answered
  <2> QED
    BY <2>1 DEF IInv, TypeOK, NodeTyped
<1>4. NodeNames'
  BY <1>1 DEF IInv, inputs, panel, NodeNames
<1> QED
  BY <1>1, <1>2, <1>3, <1>4, HandlerEnds DEF Answered

LEMMA AtTyped ==
  \A step \in {"idle", "sync", "alone", "notify"} :
      At(step) \in [at: {"idle", "sync", "alone", "notify"}, ws: [Users -> Row], fresh: BOOLEAN]
BY DEF At, Row

LEMMA GivesUpKeeps ==
  ASSUME IInv, GivesUp \/ NodeRestart
  PROVE  IInv'
<1>1. /\ Trouble /\ waits' = None /\ saved' = saved /\ held' \in {held, saved}
      /\ UNCHANGED <<db, inputs, panel, wakes, req>>
  BY DEF GivesUp, NodeRestart
<1>2. TypeOK /\ BoundsTyped'
  BY <1>1, BoundsKept DEF IInv
<1>3. TypeOK'
  BY <1>1, <1>2 DEF TypeOK, inputs, panel, wakes, BoundsTyped
<1>4. Handlers' /\ NodeNames' /\ Journaled(says', journal') /\ Awake'
  BY <1>1 DEF IInv, Handlers, NodeNames, Awake, Owes, inputs, panel, wakes
<1>5. WaitsFor'
  BY <1>1, NoneAssumption DEF WaitsFor
<1> QED
  BY <1>3, <1>4, <1>5 DEF IInv

\* After a restart of the panel no tag is of its life any more.
LEMMA PanelRestartKeeps ==
  ASSUME IInv, PanelRestart
  PROVE  IInv'
<1>1. TypeOK /\ NodeNames /\ BoundsTyped'
  BY BoundsKept DEF IInv, PanelRestart
<1>2. /\ life' = life + 1 /\ memo' = None /\ registered' = FALSE
      /\ says' = <<>> /\ cache' = 0 /\ fresh' = FALSE
      /\ journal' = [floor |-> 0, log |-> <<>>] /\ loop' = At("idle")
      /\ ask' = "no" /\ due' = FALSE /\ req' = [r \in Requests |-> None] /\ waits' = None
      /\ UNCHANGED <<db, held, saved>>
  BY DEF PanelRestart
<1>3. InputsTyped'
  <2>1. <<>> \in Seq(Inputs) /\ <<>> \in Seq(SUBSET Users) /\ Len(<<>>) = 0
    BY EmptySeq
  <2>2. says' \in Seq(Inputs) /\ fresh' \in BOOLEAN /\ Len(says') = 0 /\ cache' = 0
    BY <1>2, <2>1
  <2>3. journal' \in [floor: Nat, log: Seq(SUBSET Users)]
    BY <1>2, <2>1
  <2>4. cache' \in 0..Len(says')
    BY <2>2
  <2> QED
    BY <2>2, <2>3, <2>4 DEF InputsTyped
<1>4. LoopTyped'
  BY <1>2, AtTyped DEF LoopTyped
<1>5. TypeOK'
  <2>1. PanelTyped' /\ DbTyped'
    <3>1. life' \in Nat
      BY <1>1, <1>2 DEF TypeOK
    <3> QED
      BY <1>1, <1>2, <3>1 DEF TypeOK, PanelTyped, DbTyped
  <2>2. NodeTyped' /\ ReqTyped'
    BY <1>1, <1>2 DEF TypeOK, NodeTyped, ReqTyped
  <2> QED
    BY <1>1, <1>3, <1>4, <2>1, <2>2
       DEF TypeOK, DbTyped, InputsTyped, PanelTyped, LoopTyped, NodeTyped, ReqTyped, BoundsTyped
<1>6. Journaled(says', journal')
  <2>1. Len(says') = 0
    BY <1>2, EmptySeq
  <2>2. Explains(says', journal'.floor, journal'.log)
    BY <2>1 DEF Explains
  <2> QED
    BY <1>2, <2>2 DEF Journaled
<1>7. NodeNames'
  <2>1. ASSUME NEW tag \in Tag \cup {None}, NEW content, Names(life, says, tag, content)
        PROVE  Names(life', says', tag, content)
    BY <1>1, <1>2, <2>1 DEF Names, Tag, TypeOK
  <2>2. held.tag \in Tag \cup {None} /\ saved.tag \in Tag \cup {None}
    BY <1>1 DEF TypeOK, Held
  <2> QED
    BY <1>1, <1>2, <2>1, <2>2 DEF NodeNames
<1>8. Handlers' /\ WaitsFor' /\ Awake'
  BY <1>2 DEF Handlers, WaitsFor, Awake
<1> QED
  BY <1>5, <1>6, <1>7, <1>8 DEF IInv

-----------------------------------------------------------------------------
(* Changes, wakes and readers of the inputs *)

\* A wake reaches every handler that has read.
LEMMA WakesIs ==
  ASSUME IInv, Wakes, LoopTyped', DbTyped', BoundsTyped', ask' = ask,
         UNCHANGED <<says, cache, journal, panel, node>>
  PROVE  IInv'
<1>1. TypeOK /\ Handlers
  BY DEF IInv
<1>2. ASSUME NEW r \in Requests
      PROVE  \/ req'[r] = req[r] /\ (req[r] = None \/ req[r].at = "looked")
             \/ /\ req[r] # None /\ req'[r] \in Handler /\ req'[r].woken
                /\ req'[r].at = req[r].at /\ req'[r].has = req[r].has /\ req'[r].x = req[r].x /\ req'[r].push = req[r].push
  <2>1. req'[r] = IF req[r] = None \/ req[r].at = "looked" THEN req[r]
                  ELSE [req[r] EXCEPT !.woken = TRUE]
    BY DEF Wakes
  <2>2. req[r] \in Handler \cup {None}
    BY <1>1 DEF TypeOK
  <2> QED
    BY <2>1, <2>2 DEF Handler
<1>3. ReqTyped'
  <2>1. DOMAIN req' = Requests /\ req' = [r \in Requests |-> req'[r]]
    BY DEF Wakes
  <2>2. \A r \in Requests : req'[r] \in Handler \cup {None}
    BY <1>1, <1>2 DEF TypeOK
  <2> QED
    BY <2>1, <2>2 DEF ReqTyped
<1>4. TypeOK'
  BY <1>1, <1>3 DEF TypeOK, Wakes, LoopTyped, DbTyped, BoundsTyped, ReqTyped, panel, node
<1>5. Handlers'
  <2>1. SUFFICES ASSUME NEW r \in Requests, req'[r] # None
                 PROVE  HandlerIs(req'[r], life, says)
    BY DEF Handlers, panel
  <2>2. HandlerIs(req[r], life, says)
    BY <1>2, <2>1 DEF IInv, Handlers
  <2>3. /\ req'[r].at = req[r].at /\ req'[r].has = req[r].has
        /\ req'[r].x = req[r].x /\ req'[r].push = req[r].push
    BY <1>2, <2>1
  <2> QED
    BY <2>2, <2>3 DEF HandlerIs, ReadIs, AnswerIs
<1>6. NodeNames' /\ Journaled(says', journal')
  BY DEF IInv, NodeNames, panel, node
<1>7. WaitsFor'
  <2>1. SUFFICES ASSUME NEW r \in Requests, waits = r, req'[r] # None
                 PROVE  req'[r].has = held
    BY DEF WaitsFor, node
  <2> QED
    BY <1>2, <2>1 DEF IInv, WaitsFor
<1>8. Awake'
  <2>1. ASSUME NEW r \in Requests, req'[r] # None
        PROVE  Knows(req'[r], db'.settings)
    BY <1>2, <2>1 DEF Knows
  <2> QED
    BY <2>1 DEF Awake
<1> QED
  BY <1>4, <1>5, <1>6, <1>7, <1>8 DEF IInv

LEMMA AnnounceKeeps ==
  ASSUME IInv, Announce \/ Notify
  PROVE  IInv'
<1>1. TypeOK /\ Wakes /\ ask' = ask /\ UNCHANGED <<says, cache, journal, panel, node, db, bounds>>
  BY DEF IInv, Announce, Notify
<1>2. LoopTyped' /\ DbTyped' /\ BoundsTyped'
  <2>1. DbTyped' /\ BoundsTyped'
    BY <1>1 DEF TypeOK, DbTyped, BoundsTyped, bounds
  <2>2. CASE Announce
    <3>1. loop' = [loop EXCEPT !.fresh = FALSE] /\ due' = FALSE /\ ask' = ask
      BY <1>1, <2>2 DEF Announce
    <3>2. loop' \in [at: {"idle", "sync", "alone", "notify"}, ws: [Users -> Row], fresh: BOOLEAN]
      BY <1>1, <3>1 DEF TypeOK
    <3>3. ask' \in {"no", "users", "full"}
      BY <1>1, <3>1 DEF TypeOK
    <3>4. due' \in BOOLEAN
      BY <3>1
    <3> QED
      BY <2>1, <3>2, <3>3, <3>4 DEF LoopTyped
  <2>3. CASE Notify
    <3>1. loop' = At("idle") /\ due' = due /\ ask' = ask
      BY <1>1, <2>3 DEF Notify
    <3>2. ask' \in {"no", "users", "full"}
      BY <1>1, <3>1 DEF TypeOK
    <3>3. due' \in BOOLEAN
      BY <1>1, <3>1 DEF TypeOK
    <3> QED
      BY <2>1, <3>1, <3>2, <3>3, AtTyped DEF LoopTyped
  <2> QED
    BY <2>1, <2>2, <2>3
<1> QED
  BY <1>1, <1>2, WakesIs

\* A step that lets the inputs only grow, and forgets no wake that is owed.
LEMMA QuietStep ==
  ASSUME IInv, UNCHANGED <<panel, node, req>>, DbTyped', InputsTyped', LoopTyped', BoundsTyped',
         Journaled(says', journal'), Grown(says, says'),
         Owes => Owes', db'.settings = db.settings \/ Owes'
  PROVE  IInv'
<1>1. TypeOK /\ Awake /\ WaitsFor
  BY DEF IInv
<1>2. TypeOK'
  BY <1>1 DEF TypeOK, DbTyped, InputsTyped, LoopTyped, BoundsTyped, panel, node
<1>3. Handlers' /\ NodeNames'
  BY OthersKeep DEF panel, node
<1>4. WaitsFor'
  BY <1>1 DEF WaitsFor, node
<1>5. Awake'
  BY <1>1 DEF Awake
<1> QED
  BY <1>2, <1>3, <1>4, <1>5 DEF IInv

LEMMA DatabaseKeeps ==
  ASSUME IInv, Database
  PROVE  IInv'
<1>1. /\ TypeOK /\ Change /\ UNCHANGED <<inputs, panel, loop, node, req>>
      /\ InputsTyped /\ Journaled(says, journal)
  BY TypeParts DEF IInv, Database, ChangeUsers, ChangeBlocked, ChangeSettings, EditNode
<1>2. BoundsTyped' /\ InputsTyped' /\ Journaled(says', journal') /\ Grown(says, says')
  BY <1>1, BoundsKept, GrownSame DEF InputsTyped, inputs
<1>3. DbTyped'
  <2>1. CASE ChangeUsers
    <3>1. PICK u \in Users, row \in Row : db' = [db EXCEPT !.who[u] = row]
      BY <2>1 DEF ChangeUsers
    <3>2. [db.who EXCEPT ![u] = row] \in [Users -> Row]
      BY <1>1 DEF TypeOK
    <3> QED
      BY <1>1, <3>1, <3>2 DEF TypeOK, DbTyped
  <2>2. CASE ChangeBlocked \/ ChangeSettings \/ EditNode
    BY <1>1, <2>2 DEF TypeOK, DbTyped, ChangeBlocked, ChangeSettings, EditNode
  <2> QED
    BY <2>1, <2>2 DEF Database
<1>4. LoopTyped'
  BY <1>1 DEF TypeOK, LoopTyped, Database, ChangeUsers, ChangeBlocked, ChangeSettings, EditNode
<1>5. (Owes => Owes') /\ (db'.settings = db.settings \/ Owes')
  BY <1>1 DEF TypeOK, Owes, Database, ChangeUsers, ChangeBlocked, ChangeSettings, EditNode
<1> QED
  BY <1>1, <1>2, <1>3, <1>4, <1>5, QuietStep

LEMMA LoopKeeps ==
  ASSUME IInv, LoopFull \/ LoopUsers \/ LoopSynced \/ LoopAlone
  PROVE  IInv'
<1>1. /\ TypeOK /\ UNCHANGED <<db, inputs, panel, due, node, req, bounds>>
      /\ InputsTyped /\ Journaled(says, journal)
  BY TypeParts DEF IInv, LoopFull, LoopUsers, LoopSynced, LoopAlone
<1>2. /\ BoundsTyped' /\ InputsTyped' /\ Journaled(says', journal') /\ Grown(says, says')
      /\ DbTyped'
  BY <1>1, BoundsKept, GrownSame DEF InputsTyped, inputs, TypeOK, DbTyped
<1>3. LoopTyped'
  <2>1. [at |-> "sync", ws |-> db.who, fresh |-> TRUE]
           \in [at: {"idle", "sync", "alone", "notify"}, ws: [Users -> Row], fresh: BOOLEAN]
    BY <1>1 DEF TypeOK
  <2> QED
    BY <1>1, <2>1, AtTyped DEF TypeOK, LoopTyped, LoopFull, LoopUsers, LoopSynced, LoopAlone
<1>4. (Owes => Owes') /\ db'.settings = db.settings
  BY <1>1 DEF Owes, LoopFull, LoopUsers, LoopSynced, LoopAlone, At
<1> QED
  BY <1>1, <1>2, <1>3, <1>4, QuietStep

LEMMA FleetChangedKeeps ==
  ASSUME IInv, FleetChanged
  PROVE  IInv'
<1>1. /\ TypeOK /\ UNCHANGED <<db, panel, ask, due, node, req>> /\ loop.at = "sync"
      /\ DbTyped /\ InputsTyped /\ Journaled(says, journal)
  BY TypeParts DEF IInv, FleetChanged
<1>2. BoundsTyped'
  BY <1>1, BoundsKept DEF FleetChanged
<1>3. InputsTyped' /\ Journaled(says', journal') /\ Grown(says, says')
  <2>1. CASE Keep(Reading(loop.ws), loop.fresh)
    <3>1. loop.ws \in [Users -> Row] /\ loop.fresh \in BOOLEAN
      BY <1>1 DEF TypeOK
    <3>2. Reading(loop.ws) \in Inputs
      BY <1>1, <3>1, ReadingTyped
    <3> QED
      BY <1>1, <2>1, <3>1, <3>2, KeepIs
  <2>2. CASE UNCHANGED inputs
    BY <1>1, <2>2, GrownSame DEF InputsTyped, inputs
  <2> QED
    BY <2>1, <2>2 DEF FleetChanged
<1>4. loop' \in {At("notify"), At("idle")}
  BY DEF FleetChanged
<1>5. DbTyped' /\ LoopTyped' /\ db'.settings = db.settings
  BY <1>1, <1>4, AtTyped DEF TypeOK, DbTyped, LoopTyped
<1>6. Owes => Owes'
  BY <1>1 DEF Owes
<1> QED
  BY <1>1, <1>2, <1>3, <1>5, <1>6, QuietStep

LEMMA ViewKeeps ==
  ASSUME IInv, View \/ AgeCache
  PROVE  IInv'
<1>1. /\ TypeOK /\ UNCHANGED <<db, panel, wakes, node, req, bounds>>
      /\ DbTyped /\ InputsTyped /\ Journaled(says, journal)
  BY TypeParts DEF IInv, View, AgeCache
<1>2. InputsTyped' /\ Journaled(says', journal') /\ Grown(says, says')
  <2>1. CASE View
    BY <1>1, <2>1, KeptIs DEF View
  <2>2. CASE AgeCache
    BY <1>1, <2>2, GrownSame DEF AgeCache, InputsTyped
  <2> QED
    BY <2>1, <2>2
<1>3. BoundsTyped' /\ DbTyped' /\ LoopTyped' /\ (Owes => Owes') /\ db'.settings = db.settings
  BY <1>1 DEF TypeOK, DbTyped, LoopTyped, BoundsTyped, Owes, wakes, bounds
<1> QED
  BY <1>1, <1>2, <1>3, QuietStep

LEMMA StutterKeeps ==
  ASSUME IInv, UNCHANGED vars
  PROVE  IInv'
<1>1. /\ TypeOK /\ UNCHANGED <<db, panel, wakes, node, req, bounds, inputs>>
      /\ DbTyped /\ InputsTyped /\ Journaled(says, journal)
  BY TypeParts DEF IInv, vars
<1>2. InputsTyped' /\ Journaled(says', journal') /\ Grown(says, says')
  BY <1>1, GrownSame DEF InputsTyped, inputs
<1>3. BoundsTyped' /\ DbTyped' /\ LoopTyped' /\ (Owes => Owes') /\ db'.settings = db.settings
  BY <1>1 DEF TypeOK, DbTyped, LoopTyped, BoundsTyped, Owes, wakes, bounds
<1> QED
  BY <1>1, <1>2, <1>3, QuietStep

-----------------------------------------------------------------------------
(* Theorems *)

LEMMA InitGood == Init => IInv
<1> SUFFICES ASSUME Init PROVE IInv
  OBVIOUS
<1>1. says = <<>> /\ Len(<<>>) = 0 /\ <<>> \in Seq(Inputs) /\ <<>> \in Seq(SUBSET Users)
  BY EmptySeq DEF Init
<1>2. InputsTyped
  <2>1. says \in Seq(Inputs) /\ Len(says) = 0 /\ cache = 0 /\ fresh \in BOOLEAN
    BY <1>1 DEF Init
  <2>2. journal \in [floor: Nat, log: Seq(SUBSET Users)]
    BY <1>1 DEF Init
  <2>3. cache \in 0..Len(says)
    BY <2>1
  <2> QED
    BY <2>1, <2>2, <2>3 DEF InputsTyped
<1>3. LoopTyped
  BY AtTyped DEF Init, LoopTyped
<1>4. DbTyped
  BY DEF Init, DbTyped, Row
<1>5. NodeTyped /\ PanelTyped
  BY DEF Init, NodeTyped, Held, PanelTyped
<1>9. ReqTyped /\ BoundsTyped
  BY BoundsAssumption DEF Init, ReqTyped, BoundsTyped
<1>6. TypeOK
  BY <1>2, <1>3, <1>4, <1>5, <1>9, TypeParts
<1>7. Journaled(says, journal)
  <2>1. Len(says) = 0
    BY <1>1
  <2>2. Explains(says, journal.floor, journal.log)
    BY <2>1 DEF Explains
  <2> QED
    BY <2>2 DEF Init, Journaled
<1>8. NodeNames /\ Handlers /\ WaitsFor /\ Awake
  BY DEF Init, NodeNames, Names, Handlers, WaitsFor, Awake
<1> QED
  BY <1>6, <1>7, <1>8 DEF IInv

LEMMA NextGood == IInv /\ [Next]_vars => IInv'
<1> SUFFICES ASSUME IInv, [Next]_vars PROVE IInv'
  OBVIOUS
<1>1. ASSUME NEW r \in Requests, Handles(r)
      PROVE  IInv'
  BY <1>1, TakeChanKeeps, ReadInputsKeeps, UnchangedKeeps, DeltaKeeps, WholeKeeps, WakeUpKeeps,
     HungUpKeeps DEF Handles
<1>2. ASSUME NEW r \in Requests, Applies(r)
      PROVE  IInv'
  BY <1>2, NotAppliedKeeps, ApplySplitKeeps, ApplyDeltaKeeps DEF Applies
<1>3. CASE Loop
  BY <1>3, LoopKeeps, FleetChangedKeeps, AnnounceKeeps DEF Loop
<1> QED
  BY <1>1, <1>2, <1>3, SendKeeps, DatabaseKeeps, AnnounceKeeps, ViewKeeps, GivesUpKeeps,
     PanelRestartKeeps, StutterKeeps DEF Next

\* The invariant holds in every state of every behaviour.
LEMMA Always == Spec => []IInv
BY InitGood, NextGood, PTL DEF Spec

\* Versions, tags, handlers and answers keep their types; no answer is built of nothing.
THEOREM TypeCorrect == Spec => []TypeOK
<1>1. IInv => TypeOK
  BY DEF IInv
<1> QED
  BY <1>1, Always, PTL

\* A tag of this panel process names exactly the content its holder has, through any
\* changes, bare names, whole states, lost answers, failed saves and restarts.
THEOREM TagsSayContent == Spec => []TagSaysContent
<1>1. IInv => TagSaysContent
  BY DEF IInv, NodeNames, Names, TagSaysContent, Version
<1> QED
  BY <1>1, Always, PTL

\* No change of the settings is slept through by a request that is held.
THEOREM NoWakeupIsLost == Spec => []NoLostWakeup
<1>1. IInv => NoLostWakeup
  BY DEF IInv, Awake, Owes, Knows, WaitsFor, NoLostWakeup
<1> QED
  BY <1>1, Always, PTL
=============================================================================
