----------------------------- MODULE Library_proofs -----------------------------
(***************************************************************************)
(* What the library promises of its rows, for any number of transcripts,   *)
(* tags, exits and clocks: compounds stay flat and ordered, no edit or     *)
(* append hides words, and what add_transcript acknowledged stays on disk. *)
(*                                                                         *)
(* IInv: the connection and the file never differ in their rows, since     *)
(* the methods that leave a transaction open have only touched tag links.  *)
(* So a rollback, or an exit, takes back no row and no place.              *)
(*                                                                         *)
(* Agree: stamps and tags follow the rows.  It is a second invariant,      *)
(* shown relative to IInv; that nothing is hidden is a third, relative to  *)
(* both.                                                                   *)
(*                                                                         *)
(* Last, the library implements Compounds: IInv gives the members of a     *)
(* root different places, so there is one sequence of them, and each step  *)
(* on the rows is the step of Compounds on those sequences, or none.       *)
(***************************************************************************)
EXTENDS Library, FiniteSetTheorems, FunctionTheorems, SequenceTheorems,
        WellFoundedInduction, TLAPS

DbShape(d) == d = [rows |-> d.rows, tags |-> d.tags, links |-> d.links]

RowShape(x) ==
  /\ x = [stamp |-> x.stamp, raw |-> x.raw, norm |-> x.norm, root |-> x.root, ord |-> x.ord]
  /\ x.ord \in Nat

\* A member's root is there, and is no member.
Rooted(R) ==
  \A t \in DOMAIN R : R[t].root # NoId =>
    R[t].root \in DOMAIN R /\ R[R[t].root].root = NoId

Ordered(R) ==
  \A t \in DOMAIN R : R[t].root # NoId =>
    /\ R[t].ord > 0
    /\ \A c \in DOMAIN R : c # t /\ R[c].root = R[t].root => R[c].ord # R[t].ord

Typed(R, n) ==
  /\ R = [t \in DOMAIN R |-> R[t]] /\ DOMAIN R \subseteq Ids
  /\ \A t \in DOMAIN R : RowShape(R[t]) /\ t < n

RowsInv(R, n) == Typed(R, n) /\ Rooted(R) /\ Ordered(R)

IInv ==
  /\ DbShape(db) /\ DbShape(disk)
  /\ db.rows = disk.rows
  /\ nextId \in Nat /\ RowsInv(db.rows, nextId)
  /\ acked \subseteq DOMAIN db.rows

-----------------------------------------------------------------------------
(* The largest place of a compound *)

\* A finite set of numbers that is not empty has a largest one: of the sets that
\* have none, a smallest one loses an element and has one.
LEMMA LargestExists ==
  ASSUME NEW S \in SUBSET Nat, IsFiniteSet(S), S # {}
  PROVE  \E x \in S : \A y \in S : x >= y
<1> DEFINE Bounded(T) == \E x \in T : \A y \in T : x >= y
           Bad == {T \in FiniteSubsetsOf(Nat) : T # {} /\ ~Bounded(T)}
<1>1. SUFFICES Bad = {}
  BY <1>1 DEF FiniteSubsetsOf
<1>2. SUFFICES ASSUME Bad # {} PROVE FALSE
  OBVIOUS
<1>3. IsWellFoundedOn(StrictSubsetOrdering(Nat), FiniteSubsetsOf(Nat))
  BY FS_StrictSubsetOrderingWellFounded
<1>4. PICK T \in Bad : \A U \in Bad : ~(<<U, T>> \in StrictSubsetOrdering(Nat))
  <2>1. Bad \subseteq FiniteSubsetsOf(Nat)
    OBVIOUS
  <2> HIDE DEF Bad
  <2> QED
    BY <1>2, <1>3, <2>1, WFMin
<1>5. PICK x \in T : TRUE
  OBVIOUS
<1>6. T \in SUBSET Nat /\ IsFiniteSet(T) /\ ~Bounded(T)
  BY DEF FiniteSubsetsOf
<1>7. IsFiniteSet(T \ {x})
  BY <1>6, FS_RemoveElement
<1>8. CASE T \ {x} = {}
  BY <1>5, <1>6, <1>8
<1>9. CASE T \ {x} # {}
  <2>0. <<T \ {x}, T>> \in StrictSubsetOrdering(Nat)
    BY <1>5, <1>6 DEF StrictSubsetOrdering
  <2>1. Bounded(T \ {x})
    <3>1. T \ {x} \notin Bad
      <4> HIDE DEF Bad
      <4> QED
        BY <1>4, <2>0
    <3> QED
      BY <3>1, <1>6, <1>7, <1>9 DEF FiniteSubsetsOf
  <2>2. PICK m \in T \ {x} : \A y \in T \ {x} : m >= y
    BY <2>1
  <2>3. CASE m >= x
    BY <2>2, <2>3, <1>6
  <2>4. CASE ~(m >= x)
    BY <2>2, <2>4, <1>5, <1>6
  <2> QED
    BY <2>3, <2>4
<1> QED
  BY <1>8, <1>9

\* MAX(append_order) + 1 is beyond every place that is taken.
LEMMA NextIsBeyond ==
  ASSUME NEW d, NEW n, NEW r, Typed(d.rows, n)
  PROVE  /\ NextOrder(d, r) \in Nat /\ NextOrder(d, r) > 0
         /\ \A c \in Children(d, r) : d.rows[c].ord < NextOrder(d, r)
<1> DEFINE C == Children(d, r)
           T == {d.rows[c].ord : c \in C}
           f == [c \in C |-> d.rows[c].ord]
<1>1. C \in SUBSET Ids /\ T \in SUBSET Nat
  BY DEF Typed, RowShape, Children
<1>2. IsFiniteSet(C)
  <2>1. IsFiniteSet(Ids)
    BY LibraryAssumption, FS_Interval DEF Ids
  <2> QED
    BY <1>1, <2>1, FS_Subset
<1>3. f \in Surjection(C, T)
  BY DEF Surjection
<1>4. IsFiniteSet(T)
  <2> HIDE DEF f, T, C
  <2> QED
    BY <1>2, <1>3, FS_Surjection
<1>5. CASE C = {}
  BY <1>5 DEF NextOrder
<1>6. CASE C # {}
  <2>1. \E x \in T : \A y \in T : x >= y
    BY <1>1, <1>4, <1>6, LargestExists
  <2>2. Max(T) \in T /\ \A y \in T : Max(T) >= y
    BY <2>1 DEF Max
  <2>3. NextOrder(d, r) = 1 + Max(T)
    BY <1>6 DEF NextOrder
  <2>4. Max(T) \in Nat
    BY <2>2, <1>1
  <2>5. \A c \in C : d.rows[c].ord \in Nat /\ Max(T) >= d.rows[c].ord
    BY <2>2, <1>1
  <2> QED
    BY <2>3, <2>4, <2>5
<1> QED
  BY <1>5, <1>6

-----------------------------------------------------------------------------
(* What each kind of change does to the rows *)

LEMMA Adding ==
  ASSUME NEW R, NEW n \in Ids, RowsInv(R, n), NEW stamp,
         NEW Q, Q = [t \in (DOMAIN R) \cup {n} |-> IF t = n THEN NewRow(t, stamp) ELSE R[t]]
  PROVE  RowsInv(Q, n + 1)
<1>1. n \in Nat /\ n \notin DOMAIN R /\ \A t \in DOMAIN R : t \in Nat
  BY LibraryAssumption DEF RowsInv, Typed, Ids
<1>2. Q[n] = NewRow(n, stamp) /\ \A t \in DOMAIN R : Q[t] = R[t]
  BY <1>1
<1>3. RowShape(Q[n]) /\ Q[n].root = NoId
  BY <1>2 DEF NewRow, RowShape
<1>4. Typed(Q, n + 1)
  BY <1>1, <1>2, <1>3 DEF RowsInv, Typed
<1>5. Rooted(Q) /\ Ordered(Q)
  BY <1>1, <1>2, <1>3, LibraryAssumption DEF RowsInv, Typed, Rooted, Ordered
<1> QED
  BY <1>4, <1>5 DEF RowsInv

LEMMA Rewording ==
  ASSUME NEW R, NEW n, RowsInv(R, n), NEW t \in DOMAIN R, NEW text,
         NEW Q, Q = [R EXCEPT ![t].norm = text]
  PROVE  RowsInv(Q, n)
<1>1. Q = [u \in DOMAIN R |-> IF u = t THEN [R[t] EXCEPT !.norm = text] ELSE R[u]]
  BY DEF RowsInv, Typed
<1>2. /\ Q[t].raw = R[t].raw /\ Q[t].norm = text
      /\ Q[t].root = R[t].root /\ Q[t].ord = R[t].ord
      /\ RowShape(Q[t])
  BY <1>1 DEF RowsInv, Typed, RowShape
<1>3. DOMAIN Q = DOMAIN R /\ \A u \in DOMAIN R \ {t} : Q[u] = R[u]
  BY <1>1
<1>4. Typed(Q, n)
  BY <1>1, <1>2, <1>3 DEF RowsInv, Typed
<1>5. Rooted(Q) /\ Ordered(Q)
  BY <1>2, <1>3 DEF RowsInv, Rooted, Ordered
<1> QED
  BY <1>4, <1>5 DEF RowsInv

\* A root goes with its members, so a member that stays has its root.
LEMMA Removing ==
  ASSUME NEW R, NEW n, RowsInv(R, n), NEW S,
         NEW gone, gone = S \cup {c \in DOMAIN R : R[c].root \in S},
         NoId \notin S,
         NEW Q, Q = [t \in (DOMAIN R) \ gone |-> R[t]]
  PROVE  RowsInv(Q, n)
<1>1. DOMAIN Q = (DOMAIN R) \ gone /\ \A t \in DOMAIN Q : Q[t] = R[t]
  OBVIOUS
<1>2. Typed(Q, n)
  BY <1>1 DEF RowsInv, Typed
<1>3. \A t \in DOMAIN Q : R[t].root # NoId => R[t].root \in DOMAIN Q
  BY <1>1 DEF RowsInv, Rooted
<1>4. Rooted(Q) /\ Ordered(Q)
  BY <1>1, <1>3 DEF RowsInv, Rooted, Ordered
<1> QED
  BY <1>2, <1>4 DEF RowsInv

\* The members of the source come after those of the root, in their order.
LEMMA Appending ==
  ASSUME NEW d, NEW n, RowsInv(d.rows, n), DbShape(d),
         NEW r \in DOMAIN d.rows, NEW s \in DOMAIN d.rows, r # s,
         d.rows[r].root = NoId, d.rows[s].root = NoId
  PROVE  RowsInv(Appended(d, r, s).rows, n)
<1> DEFINE R == d.rows
           first == NextOrder(d, r)
           Q == Appended(d, r, s).rows
<1>1. Q = AppendedRows(d, r, s)
  BY DEF Appended, DbShape
<1>2. first \in Nat /\ first > 0 /\ \A c \in DOMAIN R : R[c].root = r => R[c].ord < first
  BY NextIsBeyond DEF RowsInv, Children
<1>3. /\ \A t \in DOMAIN R : t \in Nat /\ t # NoId /\ RowShape(R[t])
      /\ R[s].root # s /\ R[r].root # s
  BY LibraryAssumption DEF RowsInv, Typed, Ids
<1>4. /\ DOMAIN Q = DOMAIN R
      /\ Q = [t \in DOMAIN Q |-> Q[t]]
  BY <1>1 DEF AppendedRows
<1>5. /\ Q[r].raw = R[r].raw \o R[s].raw
      /\ Q[r].norm = IF R[r].norm = <<>> THEN <<>> ELSE R[r].norm \o Shown(d, s)
      /\ Q[r].root = R[r].root /\ Q[r].ord = R[r].ord /\ RowShape(Q[r])
  <2>1. Q[r] = Lengthened(d, r, s)
    BY <1>1, <1>3 DEF AppendedRows
  <2> HIDE DEF Q, R
  <2> QED
    BY <2>1, <1>3 DEF Lengthened, RowShape, R
<1>6. /\ Q[s].raw = R[s].raw /\ Q[s].norm = R[s].norm
      /\ Q[s].root = r /\ Q[s].ord = first /\ RowShape(Q[s])
  <2>1. Q[s] = [R[s] EXCEPT !.root = r, !.ord = first]
    BY <1>1, <1>3 DEF AppendedRows
  <2> HIDE DEF Q, R, first
  <2> QED
    BY <2>1, <1>2, <1>3 DEF RowShape, R
<1>7. ASSUME NEW t \in DOMAIN R, t # r, t # s, R[t].root = s
      PROVE  /\ Q[t].raw = R[t].raw /\ Q[t].norm = R[t].norm
             /\ Q[t].root = r /\ Q[t].ord = R[t].ord + first /\ RowShape(Q[t])
  <2>1. Q[t] = [R[t] EXCEPT !.root = r, !.ord = @ + first]
    BY <1>1, <1>7 DEF AppendedRows
  <2>2. RowShape(R[t]) /\ first \in Nat
    BY <1>2, <1>3
  <2> HIDE DEF Q, R, first
  <2>3. R[t].ord + first \in Nat
    BY <2>2 DEF RowShape
  <2> QED
    BY <2>1, <2>2, <2>3, <1>7 DEF RowShape
<1>8. ASSUME NEW t \in DOMAIN R, t # r, t # s, R[t].root # s
      PROVE  Q[t] = R[t]
  BY <1>1, <1>8 DEF AppendedRows
<1> HIDE DEF Q, first
<1>9. Typed(Q, n)
  BY <1>3, <1>4, <1>5, <1>6, <1>7, <1>8 DEF RowsInv, Typed
<1>10. Rooted(Q)
  <2> SUFFICES ASSUME NEW t \in DOMAIN R, Q[t].root # NoId
               PROVE  Q[t].root \in DOMAIN R /\ Q[Q[t].root].root = NoId
    BY <1>4 DEF Rooted
  <2>1. Q[r].root = NoId
    BY <1>5
  <2>2. CASE t = s \/ R[t].root = s
    BY <2>1, <2>2, <1>6, <1>7, <1>3
  <2>3. CASE t # s /\ R[t].root # s
    <3>1. t # r /\ Q[t].root = R[t].root
      BY <2>1, <2>3, <1>8
    <3>2. R[t].root \in DOMAIN R /\ R[R[t].root].root = NoId
      BY <3>1 DEF RowsInv, Rooted
    <3>3. NoId # s
      BY <1>3
    <3> QED
      BY <2>1, <2>3, <3>1, <3>2, <3>3, <1>8
  <2> QED
    BY <2>2, <2>3
<1>11. Ordered(Q)
  <2> SUFFICES ASSUME NEW t \in DOMAIN R, NEW c \in DOMAIN R,
                      Q[t].root # NoId
               PROVE  Q[t].ord > 0 /\ (c # t /\ Q[c].root = Q[t].root => Q[c].ord # Q[t].ord)
    BY <1>4 DEF Ordered
  <2>1. t # r /\ (Q[c].root = Q[t].root => c # r)
    BY <1>5
  <2>2. ASSUME c # t, Q[t].root = r, Q[c].root = Q[t].root
      PROVE  Q[c].ord # Q[t].ord
    <3>0. \A u \in DOMAIN R : R[u].root = s => R[u].ord > 0
      BY <1>3 DEF RowsInv, Ordered
    <3>1. \/ t = s /\ Q[t].ord = first
          \/ t # s /\ R[t].root = s /\ Q[t].ord = R[t].ord + first /\ R[t].ord > 0
          \/ t # s /\ R[t].root = r /\ Q[t].ord = R[t].ord /\ R[t].ord < first
      BY <2>1, <2>2, <3>0, <1>2, <1>6, <1>7, <1>8
    <3>2. \/ c = s /\ Q[c].ord = first
          \/ c # s /\ R[c].root = s /\ Q[c].ord = R[c].ord + first /\ R[c].ord > 0
          \/ c # s /\ R[c].root = r /\ Q[c].ord = R[c].ord /\ R[c].ord < first
      BY <2>1, <2>2, <3>0, <1>2, <1>6, <1>7, <1>8
    <3>4. R[t].ord \in Nat /\ R[c].ord \in Nat /\ first \in Nat
      BY <1>2, <1>3 DEF RowShape
    <3>3. R[t].root # NoId /\ R[c].root = R[t].root => R[c].ord # R[t].ord
      BY <2>2 DEF RowsInv, Ordered
    <3>5. r # NoId /\ s # NoId /\ r # s
      BY <1>3
    <3>6. CASE t = s \/ c = s
      BY <3>1, <3>2, <3>4, <3>6, <2>2
    <3>7. CASE t # s /\ c # s
      BY <3>1, <3>2, <3>3, <3>4, <3>5, <3>7
    <3> QED
      BY <3>6, <3>7
  <2>3. ASSUME c # t, Q[t].root # r, Q[c].root = Q[t].root
      PROVE  Q[c].ord # Q[t].ord
    <3>1. Q[t] = R[t] /\ Q[c] = R[c]
      BY <2>1, <2>3, <1>6, <1>7, <1>8
    <3> QED
      BY <2>3, <3>1 DEF RowsInv, Ordered
  <2>4. Q[t].ord > 0
    <3>1. CASE t = s
      BY <3>1, <1>2, <1>6
    <3>2. CASE t # s /\ R[t].root = s
      <4>1. R[t].ord > 0 /\ R[t].ord \in Nat
        BY <3>2, <1>3 DEF RowsInv, Ordered, RowShape
      <4> QED
        BY <4>1, <3>2, <2>1, <1>2, <1>7
    <3>3. CASE t # s /\ R[t].root # s
      BY <3>3, <2>1, <1>8 DEF RowsInv, Ordered
    <3> QED
      BY <3>1, <3>2, <3>3
  <2> QED
    BY <2>2, <2>3, <2>4
<1> QED
  BY <1>9, <1>10, <1>11 DEF RowsInv, Q

-----------------------------------------------------------------------------
(* The steps *)

LEMMA RowsStay ==
  ASSUME IInv, DbShape(db'), DbShape(disk'), db'.rows = db.rows, disk'.rows = db.rows,
         nextId' = nextId, acked' = acked
  PROVE  IInv'
BY DEF IInv

\* A method that commits; what else was in the transaction does not touch rows.
LEMMA Commits ==
  ASSUME IInv, DbShape(db'), disk' = db', nextId' \in Nat,
         RowsInv(db'.rows, nextId'), acked' \subseteq DOMAIN db'.rows
  PROVE  IInv'
BY DEF IInv

LEMMA AddTranscriptStep ==
  ASSUME IInv, NEW now, AddTranscript(now)
  PROVE  IInv'
<1> DEFINE ts == NextTimestamp(now)
           Q == [t \in (DOMAIN db.rows) \cup {nextId} |->
                   IF t = nextId THEN NewRow(t, ts) ELSE db.rows[t]]
<1>1. db' = [db EXCEPT !.rows = Q] /\ disk' = db'
  BY DEF AddTranscript, Commit
<1>2. DbShape(db') /\ db'.rows = Q
  BY <1>1 DEF IInv, DbShape
<1>3. nextId \in Ids /\ nextId' = nextId + 1
  BY DEF AddTranscript
<1>4. RowsInv(Q, nextId + 1)
  BY <1>3, Adding DEF IInv
<1>5. acked' \subseteq DOMAIN Q
  BY DEF AddTranscript, IInv
<1> QED
  BY <1>1, <1>2, <1>3, <1>4, <1>5, Commits DEF IInv

LEMMA AppendStep ==
  ASSUME IInv, NEW t, NEW s, AppendToTranscript(t, s)
  PROVE  IInv'
<1> DEFINE r == RootOf(t)
<1>1. /\ t \in DOMAIN db.rows /\ s \in DOMAIN db.rows /\ s # r
      /\ db.rows[s].root = NoId
      /\ db' = Appended(db, r, s) /\ disk' = db' /\ nextId' = nextId /\ acked' = acked
  BY DEF AppendToTranscript, Has, IsRoot, Commit
<1>2. r \in DOMAIN db.rows /\ db.rows[r].root = NoId
  BY <1>1 DEF IInv, RowsInv, Rooted, RootOf, IsRoot
<1>3. DbShape(db') /\ DOMAIN db'.rows = DOMAIN db.rows
  BY <1>1 DEF IInv, DbShape, Appended, AppendedRows
<1>4. RowsInv(db'.rows, nextId)
  BY <1>1, <1>2, Appending DEF IInv
<1> QED
  BY <1>1, <1>3, <1>4, Commits DEF IInv

LEMMA RewordStep ==
  ASSUME IInv, NEW t, CommitEdits(t) \/ Retranscribe(t) \/ RevertToRaw(t)
  PROVE  IInv'
<1>1. PICK text : db' = [db EXCEPT !.rows[t].norm = text]
  BY DEF CommitEdits, Retranscribe, RevertToRaw, Commit, UpdateNormalizedText
<1>2. t \in DOMAIN db.rows /\ disk' = db' /\ nextId' = nextId /\ acked' = acked
  BY DEF CommitEdits, Retranscribe, RevertToRaw, Commit, Has
<1>3. DbShape(db') /\ db'.rows = [db.rows EXCEPT ![t].norm = text]
  BY <1>1, <1>2 DEF IInv, DbShape
<1>4. RowsInv(db'.rows, nextId)
  BY <1>2, <1>3, Rewording DEF IInv
<1> QED
  BY <1>2, <1>3, <1>4, Commits DEF IInv

LEMMA DeleteStep ==
  ASSUME IInv, NEW S \in SUBSET (DOMAIN db.rows), DeleteRows(S)
  PROVE  IInv'
<1> DEFINE gone == Cascade(db, S)
           Q == [t \in (DOMAIN db.rows) \ gone |-> db.rows[t]]
<1>1. gone = S \cup {c \in DOMAIN db.rows : db.rows[c].root \in S}
  BY DEF Cascade, Children
<1>2. db' = Without(db, gone) /\ disk' = db' /\ acked' = acked \ gone /\ nextId' = nextId
  BY DEF DeleteRows, Commit
<1>3. DbShape(db') /\ db'.rows = Q
  BY <1>2 DEF Without, IInv, DbShape
<1>4. NoId \notin S
  BY LibraryAssumption DEF IInv, RowsInv, Typed, Ids
<1>5. RowsInv(Q, nextId)
  <2> HIDE DEF gone
  <2> QED
    BY <1>1, <1>4, Removing DEF IInv
<1> QED
  BY <1>2, <1>3, <1>5, Commits DEF IInv

\* Tags, second methods, failed methods and restarts leave every row alone.
RowsAlone ==
  /\ DbShape(db') /\ DbShape(disk')
  /\ db'.rows = db.rows /\ disk'.rows = db.rows
  /\ nextId' = nextId /\ acked' = acked

LEMMA TagSteps ==
  ASSUME IInv, NEW t, NEW g, NEW G, NEW S, NEW add, NEW now,
         \/ AddTag(g) \/ DeleteTag(g)
         \/ AssignTags(t, G) \/ AssignTagsFails(t, G)
         \/ BatchToggleTag(S, g, add) \/ BatchToggleTagFails(S, g)
         \/ AddTranscriptFails(now) \/ MeetsNoRow \/ TagCompound(t) \/ Restart
  PROVE  RowsAlone
<1> USE DEF IInv, DbShape, RowsAlone
<1>1. CASE AddTag(g) \/ DeleteTag(g)
  BY <1>1 DEF AddTag, DeleteTag, Commit
<1>2. CASE AssignTags(t, G) \/ AssignTagsFails(t, G)
  BY <1>2 DEF AssignTags, AssignTagsFails, Commit
<1>3. CASE BatchToggleTag(S, g, add) \/ BatchToggleTagFails(S, g)
  BY <1>3 DEF BatchToggleTag, BatchToggleTagFails, Commit
<1>4. CASE AddTranscriptFails(now) \/ MeetsNoRow \/ Restart
  BY <1>4 DEF AddTranscriptFails, MeetsNoRow, Commit, Restart
<1>5. CASE TagCompound(t)
  BY <1>5 DEF TagCompound, AddSystemTag, Commit
<1> QED
  BY <1>1, <1>2, <1>3, <1>4, <1>5

LEMMA InitInv == Init => IInv
<1> SUFFICES ASSUME Init PROVE IInv
  OBVIOUS
<1>1. PICK n \in 0..MaxId : Seeded = 1..n
  BY LibraryAssumption
<1>2. n \in Nat /\ nextId = n + 1
  <2>1. n \in Int /\ n >= 0
    BY LibraryAssumption
  <2>2. Cardinality(1..n) = n
    BY <2>1, FS_Interval
  <2> QED
    BY <1>1, <2>1, <2>2 DEF Init
<1>3. \A t \in Seeded : RowShape(NewRow(t, t)) /\ NewRow(t, t).root = NoId
  BY DEF NewRow, RowShape
<1>4. DbShape(db) /\ disk = db /\ acked = {} /\ db.rows = [t \in Seeded |-> NewRow(t, t)]
  BY DEF Init, DbShape
<1>5. Typed(db.rows, nextId)
  BY <1>1, <1>2, <1>3, <1>4, LibraryAssumption DEF Typed, Ids
<1>6. Rooted(db.rows) /\ Ordered(db.rows)
  BY <1>3, <1>4 DEF Rooted, Ordered
<1> QED
  BY <1>2, <1>4, <1>5, <1>6 DEF IInv, RowsInv

LEMMA Invariance == Spec => []IInv
<1>1. Init => IInv
  BY InitInv
<1>2. IInv /\ [Next]_vars => IInv'
  <2> SUFFICES ASSUME IInv, [Next]_vars PROVE IInv'
    OBVIOUS
  <2>1. CASE UNCHANGED vars
    BY <2>1 DEF vars, IInv
  <2>2. ASSUME NEW now \in 0..MaxClock, AddTranscript(now) PROVE IInv'
    BY <2>2, AddTranscriptStep
  <2>3. ASSUME NEW t \in Ids, CommitEdits(t) \/ Retranscribe(t) \/ RevertToRaw(t) PROVE IInv'
    BY <2>3, RewordStep
  <2>4. ASSUME NEW t \in Ids, DeleteTranscript(t) PROVE IInv'
    BY <2>4, DeleteStep DEF DeleteTranscript, Deletable, Has
  <2>5. ASSUME NEW S, BatchDeleteTranscripts(S) PROVE IInv'
    <3>1. {t \in S : Deletable(t)} \in SUBSET (DOMAIN db.rows)
      BY DEF Deletable, Has
    <3> QED
      BY <2>5, <3>1, DeleteStep DEF BatchDeleteTranscripts
  <2>6. ASSUME ClearAllTranscripts PROVE IInv'
    BY <2>6, DeleteStep DEF ClearAllTranscripts
  <2>7. ASSUME NEW t \in Ids, NEW s \in Ids, AppendToTranscript(t, s) PROVE IInv'
    BY <2>7, AppendStep
  <2>8. CASE RowsAlone
    BY <2>8, RowsStay DEF RowsAlone
  <2> QED
    BY <2>1, <2>2, <2>3, <2>4, <2>5, <2>6, <2>7, <2>8, TagSteps DEF Next
<1> QED
  BY <1>1, <1>2, PTL DEF Spec

-----------------------------------------------------------------------------
(* The theorems *)

\* append_to_transcript and the cascade of a deletion: every member's root is
\* there and is a root, and places are unique, in the connection and on disk.
THEOREM AlwaysFlat == Spec => []CompoundsAreFlat
<1>1. IInv => CompoundsAreFlat
  BY DEF IInv, CompoundsAreFlat, RowsInv, Rooted, Ordered, IsRoot, Roots
<1> QED
  BY <1>1, Invariance, PTL

\* What add_transcript returned survives failed methods, rollbacks and exits.
THEOREM AckedStaysOnDisk == Spec => []AckedIsDurable
<1>1. IInv => AckedIsDurable
  BY DEF IInv, AckedIsDurable
<1> QED
  BY <1>1, Invariance, PTL

-----------------------------------------------------------------------------
(* Rows, stamps and tags agree *)

Stamped ==
  StampsFollowIds /\ \A t \in DOMAIN db.rows : db.rows[t].stamp <= last

\* An open transaction has not touched the tags the engine sets.
AutoTagsOnDisk ==
  \A t : <<t, "Compound">> \in db.links <=> <<t, "Compound">> \in disk.links

Linked(d) ==
  d.tags \subseteq UserTags /\ d.links \subseteq (DOMAIN d.rows) \X (d.tags \cup AutoManaged)

Rest ==
  /\ nextId \in 1..(MaxId + 1) /\ last \in Nat
  /\ crashes \in 0..MaxCrashes

RowsTyped(R) == DOMAIN R \subseteq Ids /\ \A t \in DOMAIN R : R[t] \in Row

Agree ==
  /\ RowsTyped(db.rows) /\ Linked(db) /\ Linked(disk) /\ Rest
  /\ Stamped /\ AutoTagsOnDisk /\ CompoundIsTagged

LEMMA AgreeIsLibrary == IInv /\ Agree => LibraryAgrees
BY DEF IInv, Agree, RowsTyped, Linked, Rest, Stamped, LibraryAgrees, TypeOK

\* What stamps and tags need of the rows: the same ones are there, and
\* nobody who had no member has one.
RowsAsBefore ==
  /\ DOMAIN db'.rows = DOMAIN db.rows
  /\ \A t \in DOMAIN db.rows :
       db'.rows[t].root = db.rows[t].root /\ db'.rows[t].stamp = db.rows[t].stamp

LEMMA StampsStay ==
  ASSUME Stamped, RowsAsBefore, last' >= last, Rest, Rest', RowsTyped(db.rows)
  PROVE  Stamped'
<1>1. \A t \in DOMAIN db.rows : db.rows[t].stamp \in Nat
  BY DEF RowsTyped, Row
<1> QED
  BY <1>1 DEF Stamped, StampsFollowIds, RowsAsBefore, Rest

LEMMA TagsStay ==
  ASSUME CompoundIsTagged, RowsAsBefore, pending \subseteq pending', crashes' = crashes,
         \A t : <<t, "Compound">> \in db.links => <<t, "Compound">> \in db'.links
  PROVE  CompoundIsTagged'
<1>1. Roots(db') = Roots(db) /\ \A r : Children(db', r) = Children(db, r)
  BY DEF RowsAsBefore, Roots, IsRoot, Children
<1> QED
  BY <1>1 DEF CompoundIsTagged

LEMMA AgreeAdd ==
  ASSUME IInv, Agree, NEW now \in 0..MaxClock, AddTranscript(now)
  PROVE  Agree'
<1> DEFINE ts == NextTimestamp(now)
           Q == [t \in (DOMAIN db.rows) \cup {nextId} |->
                   IF t = nextId THEN NewRow(t, ts) ELSE db.rows[t]]
<1>1. db' = [db EXCEPT !.rows = Q] /\ disk' = db'
  BY DEF AddTranscript, Commit
<1>2. db'.rows = Q /\ db'.tags = db.tags /\ db'.links = db.links
  BY <1>1 DEF IInv, DbShape
<1>3. /\ nextId \in Ids /\ nextId' = nextId + 1 /\ last' = ts /\ pending' = pending
      /\ crashes' = crashes
  BY DEF AddTranscript
<1>4. /\ nextId \notin DOMAIN db.rows /\ DOMAIN db.rows \subseteq Ids
      /\ \A t \in DOMAIN db.rows : t < nextId
  BY <1>3, LibraryAssumption DEF IInv, RowsInv, Typed, Ids
<1>5. ts \in Nat /\ ts > last /\ last \in Nat
  BY LibraryAssumption DEF NextTimestamp, Agree, Rest
<1>6. Q[nextId] = NewRow(nextId, ts) /\ \A t \in DOMAIN db.rows : Q[t] = db.rows[t]
  BY <1>4
<1>7. NewRow(nextId, ts) \in Row
  <2>1. <<nextId>> \in Seq(Ids)
    BY <1>3
  <2> QED
    BY <1>3, <1>5, <2>1 DEF NewRow, Row
<1>8. DOMAIN Q = DOMAIN db.rows \cup {nextId}
  OBVIOUS
<1> HIDE DEF Q, ts
<1>9. RowsTyped(db'.rows)
  BY <1>2, <1>3, <1>4, <1>6, <1>7, <1>8 DEF RowsTyped, Agree
<1>10. Linked(db') /\ Linked(disk') /\ AutoTagsOnDisk'
  BY <1>1, <1>2, <1>8 DEF Linked, Agree, AutoTagsOnDisk
<1>11. Rest'
  BY <1>3, <1>5, LibraryAssumption DEF Rest, Agree, Ids
<1>12. Stamped'
  <2>1. Q[nextId].stamp = ts
    BY <1>6 DEF NewRow
  <2>2. \A t \in DOMAIN db.rows : db.rows[t].stamp \in Nat /\ db.rows[t].stamp <= last
    BY DEF Agree, RowsTyped, Row, Stamped
  <2>3. nextId \in Nat /\ \A t \in DOMAIN db.rows : t \in Nat
    BY <1>3, <1>4, LibraryAssumption DEF Ids
  <2>4. StampsFollowIds
    BY DEF Agree, Stamped
  <2>5. \A t \in DOMAIN Q : Q[t].stamp <= ts
    BY <1>5, <1>6, <1>8, <2>1, <2>2
  <2>6. ASSUME NEW t \in DOMAIN Q, NEW u \in DOMAIN Q, t < u PROVE Q[t].stamp < Q[u].stamp
    <3>1. t # nextId /\ t \in DOMAIN db.rows
      <4>1. t \in Nat /\ u \in Nat /\ nextId \in Nat /\ u <= nextId
        <5>1. \A v \in DOMAIN Q : v \in Nat /\ v <= nextId
          BY <2>3, <1>4, <1>8
        <5> QED
          BY <2>3, <5>1, <1>3
      <4> QED
        BY <4>1, <2>6, <1>8
    <3>2. CASE u = nextId
      BY <3>1, <3>2, <2>1, <2>2, <1>5, <1>6
    <3>3. CASE u \in DOMAIN db.rows
      BY <3>1, <3>3, <2>4, <2>6, <1>6 DEF StampsFollowIds
    <3> QED
      BY <3>2, <3>3, <1>8
  <2> QED
    BY <1>2, <1>3, <2>5, <2>6 DEF Stamped, StampsFollowIds
<1>13. CompoundIsTagged'
  <2>1. Q[nextId].root = NoId
    BY <1>6 DEF NewRow
  <2>2. NoId # nextId /\ \A t \in DOMAIN db.rows : db.rows[t].root # nextId
    BY <1>3, <1>4, LibraryAssumption DEF IInv, RowsInv, Rooted, Ids
  <2>3. Children(db', nextId) = {}
    BY <1>2, <1>6, <1>8, <2>1, <2>2 DEF Children
  <2>4. \A r \in Roots(db') \ {nextId} : r \in Roots(db) /\ Children(db', r) \subseteq Children(db, r) \cup {nextId}
    BY <1>2, <1>6, <1>8 DEF Children, Roots, IsRoot
  <2>5. \A r \in Roots(db') \ {nextId} : nextId \notin Children(db', r)
    <3>1. \A r \in Roots(db') : r # NoId
      BY <1>2, <1>3, <1>4, <1>8, LibraryAssumption DEF Roots, Ids
    <3> QED
      BY <1>2, <2>1, <3>1 DEF Children
  <2> QED
    BY <1>2, <1>3, <2>3, <2>4, <2>5 DEF CompoundIsTagged, Agree
<1> QED
  BY <1>9, <1>10, <1>11, <1>12, <1>13 DEF Agree


LEMMA AgreeReword ==
  ASSUME IInv, Agree, NEW t \in Ids, CommitEdits(t) \/ Retranscribe(t) \/ RevertToRaw(t)
  PROVE  Agree'
<1>1. /\ t \in DOMAIN db.rows /\ disk' = db' /\ nextId' = nextId /\ last' = last
      /\ pending' = pending /\ crashes' = crashes
  BY DEF CommitEdits, Retranscribe, RevertToRaw, Commit, Has
<1>2. PICK text \in {<<>>, Shown(db, t), <<t>>} : db' = [db EXCEPT !.rows[t].norm = text]
  BY DEF CommitEdits, Retranscribe, RevertToRaw, Commit, UpdateNormalizedText
<1>3. db'.rows = [db.rows EXCEPT ![t].norm = text] /\ db'.tags = db.tags /\ db'.links = db.links
  BY <1>1, <1>2 DEF IInv, DbShape
<1>4. /\ DOMAIN db'.rows = DOMAIN db.rows /\ \A u \in DOMAIN db.rows \ {t} : db'.rows[u] = db.rows[u]
      /\ db'.rows[t] = [db.rows[t] EXCEPT !.norm = text]
  BY <1>1, <1>3 DEF IInv, RowsInv, Typed
<1>5. db.rows[t] \in Row /\ text \in Seq(Ids)
  <2>1. db.rows[t] \in Row
    BY <1>1 DEF Agree, RowsTyped
  <2>2. Shown(db, t) \in Seq(Ids) /\ <<>> \in Seq(Ids) /\ <<t>> \in Seq(Ids)
    BY <2>1 DEF Row, Shown
  <2> QED
    BY <2>1, <2>2
<1>6. db'.rows[t] \in Row /\ db'.rows[t].root = db.rows[t].root /\ db'.rows[t].stamp = db.rows[t].stamp
  BY <1>4, <1>5 DEF Row
<1>7. RowsAsBefore /\ RowsTyped(db'.rows)
  BY <1>4, <1>6 DEF RowsAsBefore, RowsTyped, Agree
<1>8. Linked(db') /\ Linked(disk') /\ AutoTagsOnDisk' /\ Rest'
  BY <1>1, <1>3, <1>4 DEF Linked, Agree, AutoTagsOnDisk, Rest
<1>9. last' >= last
  BY <1>1 DEF Agree, Rest
<1>10. Stamped' /\ CompoundIsTagged'
  BY <1>1, <1>3, <1>7, <1>8, <1>9, StampsStay, TagsStay DEF Agree
<1> QED
  BY <1>7, <1>8, <1>10 DEF Agree

\* What a root and its members leave behind keeps its stamps and tags.
LEMMA AgreeDelete ==
  ASSUME IInv, Agree, NEW S \in SUBSET (DOMAIN db.rows), DeleteRows(S)
  PROVE  Agree'
<1> DEFINE gone == Cascade(db, S)
<1>1. /\ db' = Without(db, gone) /\ disk' = db'
      /\ UNCHANGED <<nextId, last, pending, crashes>>
  BY DEF DeleteRows, Commit
<1>2. /\ db'.rows = [t \in (DOMAIN db.rows) \ gone |-> db.rows[t]] /\ db'.tags = db.tags
      /\ db'.links = {l \in db.links : l[1] \notin gone}
  BY <1>1 DEF Without, IInv, DbShape
<1> HIDE DEF gone
<1>4. /\ DOMAIN db'.rows = (DOMAIN db.rows) \ gone
      /\ \A t \in DOMAIN db'.rows : db'.rows[t] = db.rows[t]
  BY <1>2
<1>5. RowsTyped(db'.rows) /\ Rest'
  BY <1>1, <1>4 DEF RowsTyped, Agree, Rest
<1>6. Linked(db') /\ Linked(disk') /\ AutoTagsOnDisk'
  BY <1>1, <1>2, <1>4 DEF Linked, Agree, AutoTagsOnDisk
<1>7. Stamped'
  BY <1>1, <1>4 DEF Stamped, StampsFollowIds, Agree
<1>8. CompoundIsTagged'
  <2>1. \A r \in Roots(db') : r \in Roots(db) /\ r \notin gone /\ Children(db', r) \subseteq Children(db, r)
    BY <1>4 DEF Roots, IsRoot, Children
  <2>2. \A r : r \notin gone /\ <<r, "Compound">> \in db.links => <<r, "Compound">> \in db'.links
    BY <1>2
  <2> QED
    BY <1>1, <2>1, <2>2 DEF CompoundIsTagged, Agree
<1> QED
  BY <1>5, <1>6, <1>7, <1>8 DEF Agree

LEMMA AgreeAppend ==
  ASSUME IInv, Agree, NEW t \in Ids, NEW s \in Ids, AppendToTranscript(t, s)
  PROVE  Agree'
<1> DEFINE r == RootOf(t)
           first == NextOrder(db, r)
<1>1. /\ t \in DOMAIN db.rows /\ s \in DOMAIN db.rows /\ s # r
      /\ db.rows[s].root = NoId
      /\ db' = Appended(db, r, s) /\ disk' = db'
      /\ pending' = pending \cup {r}
      /\ nextId' = nextId /\ last' = last /\ crashes' = crashes
  BY DEF AppendToTranscript, Has, IsRoot, Commit
<1>2. r \in DOMAIN db.rows /\ db.rows[r].root = NoId
  BY <1>1 DEF IInv, RowsInv, Rooted, RootOf, IsRoot
<1> HIDE DEF r
<1>3. db'.rows = AppendedRows(db, r, s) /\ db'.tags = db.tags /\ db'.links = db.links
  BY <1>1 DEF IInv, DbShape, Appended
<1>4. first \in Nat
  BY NextIsBeyond DEF IInv, RowsInv
<1> HIDE DEF first
<1>5. \A u \in DOMAIN db.rows : db.rows[u] \in Row /\ u # NoId /\ u \in Ids
  BY LibraryAssumption DEF Agree, RowsTyped, Ids
<1>6. DOMAIN db'.rows = DOMAIN db.rows
  BY <1>3 DEF AppendedRows
<1>7. db'.rows[r] \in Row /\ db'.rows[r].root = NoId /\ db'.rows[r].stamp = db.rows[r].stamp
  <2>1. db'.rows[r] = Lengthened(db, r, s)
    BY ONLY <1>1, <1>2, <1>3, <1>5 DEF AppendedRows
  <2>2. db.rows[r] \in Row /\ db.rows[s] \in Row
    BY <1>1, <1>2, <1>5
  <2>3. Shown(db, s) \in Seq(Ids)
    BY <2>2 DEF Shown, Row
  <2>4. db.rows[r].raw \o db.rows[s].raw \in Seq(Ids) /\ db.rows[r].norm \o Shown(db, s) \in Seq(Ids)
    BY <2>2, <2>3 DEF Row
  <2>5. <<>> \in Seq(Ids)
    OBVIOUS
  <2> QED
    BY <2>1, <2>2, <2>4, <2>5, <1>2 DEF Lengthened, Row
<1>8. db'.rows[s] \in Row /\ db'.rows[s].root = r /\ db'.rows[s].stamp = db.rows[s].stamp
  <2>1. db'.rows[s] = [db.rows[s] EXCEPT !.root = r, !.ord = first]
    BY ONLY <1>1, <1>2, <1>3, <1>5 DEF AppendedRows, first
  <2>2. db.rows[s] \in Row /\ r \in Ids
    BY <1>1, <1>2, <1>5
  <2> QED
    BY <2>1, <2>2, <1>4 DEF Row
<1>9. ASSUME NEW u \in DOMAIN db.rows, u # r, u # s, db.rows[u].root = s
      PROVE  db'.rows[u] \in Row /\ db'.rows[u].root = r /\ db'.rows[u].stamp = db.rows[u].stamp
  <2>1. db'.rows[u] = [db.rows[u] EXCEPT !.root = r, !.ord = @ + first]
    BY <1>3, <1>9 DEF AppendedRows, first
  <2>2. db.rows[u] \in Row /\ r \in Ids
    BY <1>2, <1>5, <1>9
  <2>3. db.rows[u].ord + first \in Nat
    BY <2>2, <1>4 DEF Row
  <2> QED
    BY <2>1, <2>2, <2>3 DEF Row
<1>10. ASSUME NEW u \in DOMAIN db.rows, u # r, u # s, db.rows[u].root # s
       PROVE  db'.rows[u] = db.rows[u]
  BY <1>3, <1>10 DEF AppendedRows
<1>11. \A u \in DOMAIN db.rows : db'.rows[u] \in Row /\ db'.rows[u].stamp = db.rows[u].stamp
  BY <1>5, <1>7, <1>8, <1>9, <1>10
<1>12. RowsTyped(db'.rows) /\ Rest' /\ Linked(db') /\ Linked(disk') /\ AutoTagsOnDisk'
  BY <1>1, <1>3, <1>5, <1>6, <1>11 DEF RowsTyped, Rest, Linked, Agree, AutoTagsOnDisk
<1>13. Stamped'
  BY <1>1, <1>6, <1>11 DEF Stamped, StampsFollowIds, Agree
<1>14. CompoundIsTagged'
  <2>1. ASSUME NEW q \in Roots(db'), q # r PROVE q \in Roots(db) /\ Children(db', q) \subseteq Children(db, q)
    <3>1. q \in DOMAIN db.rows /\ q # s /\ q # NoId
      BY <2>1, <1>2, <1>5, <1>6, <1>8 DEF Roots, IsRoot
    <3>2. db.rows[q].root # s
      BY <2>1, <3>1, <1>2, <1>5, <1>9 DEF Roots, IsRoot
    <3>3. q \in Roots(db)
      BY <2>1, <3>1, <3>2, <1>10 DEF Roots, IsRoot
    <3>4. ASSUME NEW c \in Children(db', q) PROVE c \in Children(db, q)
      BY <3>1, <3>4, <2>1, <1>6, <1>7, <1>8, <1>9, <1>10 DEF Children
    <3> QED
      BY <3>3, <3>4
  <2> QED
    BY <2>1, <1>1, <1>3 DEF CompoundIsTagged, Agree
<1> QED
  BY <1>12, <1>13, <1>14 DEF Agree


\* Tags, failed methods and second methods: the rows stay, and so do the tags
\* the engine sets, also when the connection goes back to what is on disk.
LEMMA AgreeTags ==
  ASSUME IInv, Agree, NEW t, NEW g, NEW G, NEW S, NEW add,
         \/ MeetsNoRow \/ AddTag(g) \/ DeleteTag(g)
         \/ AssignTags(t, G) \/ AssignTagsFails(t, G)
         \/ BatchToggleTag(S, g, add) \/ BatchToggleTagFails(S, g)
  PROVE  Agree'
<1>1. /\ nextId' = nextId /\ last' = last /\ pending' = pending /\ crashes' = crashes
  BY DEF MeetsNoRow, AddTag, DeleteTag, AssignTags, AssignTagsFails, BatchToggleTag, BatchToggleTagFails
<1>2. db'.rows = db.rows /\ disk'.rows = db.rows /\ (disk' = db' \/ disk' = disk)
  BY DEF MeetsNoRow, AddTag, DeleteTag, AssignTags, AssignTagsFails, BatchToggleTag,
         BatchToggleTagFails, Commit, IInv, DbShape
<1>3. Linked(db') /\ \A u : <<u, "Compound">> \in db'.links <=> <<u, "Compound">> \in db.links
  <2>0. "Compound" \notin UserTags /\ db.tags \subseteq UserTags
    BY LibraryAssumption DEF AutoManaged, Agree, Linked
  <2>1. CASE AddTag(g)
    <3>1. db'.tags = db.tags \cup {g} /\ db'.links = db.links /\ g \in UserTags
      BY <2>1 DEF AddTag, Commit, IInv, DbShape
    <3> QED
      BY <3>1, <1>2 DEF Linked, Agree
  <2>2. CASE DeleteTag(g)
    <3>1. g \in db.tags /\ db'.tags = db.tags \ {g} /\ db'.links = {l \in db.links : l[2] # g}
      BY <2>2 DEF DeleteTag, Commit, IInv, DbShape
    <3> QED
      BY <3>1, <2>0, <1>2 DEF Linked, Agree
  <2>3. CASE AssignTags(t, G) \/ AssignTagsFails(t, G)
    <3>1. /\ db'.tags = db.tags /\ db'.links = (db.links \ Assignable(db, t)) \cup ({t} \X G)
          /\ t \in DOMAIN db.rows /\ G \subseteq db.tags
      BY <2>3 DEF AssignTags, AssignTagsFails, Has, Commit, IInv, DbShape
    <3>2. \A u : <<u, "Compound">> \notin Assignable(db, t) /\ <<u, "Compound">> \notin {t} \X G
      BY <2>0, <3>1 DEF Assignable, AutoManaged
    <3> QED
      BY <3>1, <3>2, <1>2 DEF Linked, Agree
  <2>4. CASE BatchToggleTag(S, g, add) \/ BatchToggleTagFails(S, g)
    <3>1. /\ db'.tags = db.tags /\ g \in db.tags /\ S \subseteq DOMAIN db.rows
          /\ db'.links = db.links \cup (S \X {g}) \/ db'.links = db.links \ (S \X {g})
      BY <2>4 DEF BatchToggleTag, BatchToggleTagFails, Commit, IInv, DbShape
    <3>2. \A u : <<u, "Compound">> \notin S \X {g}
      BY <2>0, <3>1
    <3> QED
      BY <3>1, <3>2, <1>2 DEF Linked, Agree
  <2>5. CASE MeetsNoRow
    BY <2>5, <1>2 DEF MeetsNoRow, Commit, Linked, Agree
  <2> QED
    BY <2>1, <2>2, <2>3, <2>4, <2>5
<1>4. Linked(disk') /\ AutoTagsOnDisk' /\ RowsTyped(db'.rows) /\ Rest' /\ RowsAsBefore
  BY <1>1, <1>2, <1>3 DEF Agree, AutoTagsOnDisk, Linked, Rest, RowsAsBefore, IInv
<1>5. last' >= last
  BY <1>1 DEF Agree, Rest
<1>6. Stamped' /\ CompoundIsTagged'
  BY <1>1, <1>3, <1>4, <1>5, StampsStay, TagsStay DEF Agree
<1> QED
  BY <1>3, <1>4, <1>6 DEF Agree

LEMMA AgreeAddFails ==
  ASSUME IInv, Agree, NEW now \in 0..MaxClock, AddTranscriptFails(now)
  PROVE  Agree'
<1>1. /\ db' = disk /\ disk' = disk /\ last' = NextTimestamp(now) /\ nextId' = nextId
      /\ pending' = pending /\ crashes' = crashes
  BY DEF AddTranscriptFails
<1>2. last' \in Nat /\ last' >= last
  BY <1>1, LibraryAssumption DEF NextTimestamp, Agree, Rest
<1>3. Linked(db') /\ Linked(disk') /\ AutoTagsOnDisk' /\ RowsTyped(db'.rows) /\ Rest' /\ RowsAsBefore
  BY <1>1, <1>2 DEF Agree, AutoTagsOnDisk, Linked, Rest, RowsAsBefore, RowsTyped, IInv
<1>4. \A u : <<u, "Compound">> \in db.links => <<u, "Compound">> \in db'.links
  BY <1>1 DEF Agree, AutoTagsOnDisk
<1>5. Stamped' /\ CompoundIsTagged'
  BY <1>1, <1>2, <1>3, <1>4, StampsStay, TagsStay DEF Agree
<1> QED
  BY <1>3, <1>5 DEF Agree

LEMMA AgreeTagged ==
  ASSUME IInv, Agree, NEW t \in Ids, TagCompound(t)
  PROVE  Agree'
<1>1. /\ nextId' = nextId /\ last' = last /\ crashes' = crashes
      /\ pending' = pending \ {t}
  BY DEF TagCompound
<1>2. /\ db'.rows = db.rows /\ disk'.rows = db.rows /\ db'.tags = db.tags
      /\ \/ Has(t) /\ disk' = db' /\ db'.links = db.links \cup {<<t, "Compound">>}
         \/ ~Has(t) /\ disk' = disk /\ db' = db
  BY DEF TagCompound, AddSystemTag, Commit, IInv, DbShape
<1>3. Linked(db') /\ Linked(disk') /\ AutoTagsOnDisk' /\ RowsTyped(db'.rows) /\ Rest' /\ RowsAsBefore
  BY <1>1, <1>2 DEF Agree, AutoTagsOnDisk, Linked, Rest, RowsAsBefore, AutoManaged, Has
<1>4. last' >= last
  BY <1>1 DEF Agree, Rest
<1>5. Stamped'
  BY <1>3, <1>4, StampsStay DEF Agree
<1>6. CompoundIsTagged'
  <2>1. Roots(db') = Roots(db) /\ \A r : Children(db', r) = Children(db, r)
    BY <1>2 DEF Roots, IsRoot, Children
  <2>2. t \in Roots(db) => <<t, "Compound">> \in db'.links
    BY <1>2 DEF Roots, Has
  <2>3. \A r : <<r, "Compound">> \in db.links => <<r, "Compound">> \in db'.links
    BY <1>2
  <2> QED
    BY <1>1, <2>1, <2>2, <2>3 DEF CompoundIsTagged, Agree
<1> QED
  BY <1>3, <1>5, <1>6 DEF Agree

\* After an exit the newest stamp on disk is the last one.
LEMMA AgreeRestart ==
  ASSUME IInv, Agree, Restart
  PROVE  Agree'
<1>1. /\ db' = disk /\ disk' = disk /\ nextId' = nextId
      /\ crashes' = crashes + 1 /\ crashes < MaxCrashes
      /\ last' = IF Stamps(disk) = {} THEN 0 ELSE Max(Stamps(disk))
  BY DEF Restart
<1>2. db'.rows = db.rows /\ disk.rows = db.rows
  BY <1>1 DEF IInv
<1> DEFINE T == Stamps(disk)
           f == [t \in DOMAIN db.rows |-> db.rows[t].stamp]
<1>3. T \in SUBSET Nat
  BY <1>2 DEF Stamps, Agree, RowsTyped, Row
<1>4. IsFiniteSet(T)
  <2>1. IsFiniteSet(Ids)
    BY LibraryAssumption, FS_Interval DEF Ids
  <2>2. IsFiniteSet(DOMAIN db.rows)
    <3>1. DOMAIN db.rows \in SUBSET Ids
      BY DEF Agree, RowsTyped
    <3> QED
      BY <2>1, <3>1, FS_Subset
  <2>3. f \in Surjection(DOMAIN db.rows, T)
    BY <1>2 DEF Surjection, Stamps
  <2> HIDE DEF f, T
  <2> QED
    BY <2>2, <2>3, FS_Surjection
<1>5. last' \in Nat /\ \A x \in T : x <= last'
  <2>1. CASE T = {}
    BY <1>1, <2>1
  <2>2. CASE T # {}
    <3>1. \E x \in T : \A y \in T : x >= y
      BY <1>3, <1>4, <2>2, LargestExists
    <3>2. Max(T) \in T /\ \A y \in T : Max(T) >= y
      BY <3>1 DEF Max
    <3> QED
      BY <1>1, <1>3, <2>2, <3>2
  <2> QED
    BY <2>1, <2>2
<1>6. \A t \in DOMAIN db.rows : db.rows[t].stamp \in T
  BY <1>2 DEF Stamps
<1>7. Stamped'
  BY <1>2, <1>5, <1>6 DEF Stamped, StampsFollowIds, Agree
<1>8. RowsTyped(db'.rows) /\ Linked(db') /\ Linked(disk') /\ AutoTagsOnDisk' /\ Rest'
  BY <1>1, <1>2, <1>5, LibraryAssumption DEF Agree, Linked, AutoTagsOnDisk, Rest
<1>9. crashes' > 0
  BY <1>1 DEF Agree, Rest
<1> QED
  BY <1>7, <1>8, <1>9 DEF Agree, CompoundIsTagged

LEMMA InitAgree == Init => Agree
<1> SUFFICES ASSUME Init PROVE Agree
  OBVIOUS
<1>1. PICK n \in 0..MaxId : Seeded = 1..n
  BY LibraryAssumption
<1>2. n \in Nat /\ n <= MaxId /\ nextId = n + 1 /\ last = n
  <2>1. n \in Int /\ n >= 0 /\ n <= MaxId
    BY LibraryAssumption
  <2>2. Cardinality(1..n) = n
    BY <2>1, FS_Interval
  <2> QED
    BY <1>1, <2>1, <2>2 DEF Init
<1>3. /\ disk = db /\ db.rows = [t \in Seeded |-> NewRow(t, t)] /\ db.tags = UserTags /\ db.links = {}
      /\ crashes = 0
  BY DEF Init
<1>4. \A t \in Seeded : t \in Nat /\ t <= n /\ t \in Ids
  BY <1>1, <1>2, LibraryAssumption DEF Ids
<1>5. \A t \in Seeded : NewRow(t, t) \in Row /\ NewRow(t, t).stamp = t /\ NewRow(t, t).root = NoId
  <2>1. \A t \in Seeded : <<t>> \in Seq(Ids)
    BY <1>4
  <2> QED
    BY <1>4, <2>1 DEF NewRow, Row
<1>6. RowsTyped(db.rows) /\ Linked(db) /\ Linked(disk) /\ Rest /\ AutoTagsOnDisk
  BY <1>2, <1>3, <1>4, <1>5, LibraryAssumption DEF RowsTyped, Linked, Rest, AutoTagsOnDisk
<1>7. Stamped
  BY <1>2, <1>3, <1>4, <1>5 DEF Stamped, StampsFollowIds
<1>8. CompoundIsTagged
  <2>1. \A r \in Roots(db) : r # NoId
    BY <1>3, <1>4, LibraryAssumption DEF Roots
  <2> QED
    BY <1>3, <1>5, <2>1 DEF CompoundIsTagged, Children
<1> QED
  BY <1>6, <1>7, <1>8 DEF Agree

LEMMA NextAgree == IInv /\ Agree /\ [Next]_vars => Agree'
<1> SUFFICES ASSUME IInv, Agree, [Next]_vars PROVE Agree'
  OBVIOUS
<1>1. ASSUME NEW now \in 0..MaxClock, AddTranscript(now) \/ AddTranscriptFails(now) PROVE Agree'
  BY <1>1, AgreeAdd, AgreeAddFails
<1>2. ASSUME NEW t \in Ids, CommitEdits(t) \/ Retranscribe(t) \/ RevertToRaw(t) PROVE Agree'
  BY <1>2, AgreeReword
<1>3. ASSUME NEW t \in Ids, DeleteTranscript(t) PROVE Agree'
  BY <1>3, AgreeDelete DEF DeleteTranscript, Deletable, Has
<1>4. ASSUME NEW S \in SUBSET Ids, BatchDeleteTranscripts(S) PROVE Agree'
  BY <1>4, AgreeDelete DEF BatchDeleteTranscripts, Deletable, Has
<1>5. ASSUME ClearAllTranscripts PROVE Agree'
  BY <1>5, AgreeDelete DEF ClearAllTranscripts
<1>6. ASSUME NEW t \in Ids, NEW s \in Ids, AppendToTranscript(t, s) PROVE Agree'
  BY <1>6, AgreeAppend
<1>7. ASSUME NEW t \in Ids, NEW G \in SUBSET UserTags, AssignTags(t, G) \/ AssignTagsFails(t, G)
      PROVE  Agree'
  BY <1>7, AgreeTags
<1>8. ASSUME NEW S, NEW g \in UserTags, NEW add, BatchToggleTag(S, g, add) \/ BatchToggleTagFails(S, g)
      PROVE  Agree'
  BY <1>8, AgreeTags
<1>9. ASSUME NEW g, MeetsNoRow \/ AddTag(g) \/ DeleteTag(g) PROVE Agree'
  BY <1>9, AgreeTags
<1>10. ASSUME NEW t \in Ids, TagCompound(t) PROVE Agree'
  BY <1>10, AgreeTagged
<1>11. CASE Restart
  BY <1>11, AgreeRestart
<1>12. CASE UNCHANGED vars
  BY <1>12 DEF vars, Agree, Linked, Rest, Stamped, StampsFollowIds, AutoTagsOnDisk, CompoundIsTagged
<1> QED
  BY <1>1, <1>2, <1>3, <1>4, <1>5, <1>6, <1>7, <1>8, <1>9, <1>10, <1>11, <1>12 DEF Next

\* Rows, stamps and tags agree: stamps follow ids although the clock may run back
\* and the process may end, and every compound gets its tag.
THEOREM LibraryAlwaysAgrees == Spec => []LibraryAgrees
<1> QED
  BY AgreeIsLibrary, Invariance, InitAgree, NextAgree, PTL DEF Spec

-----------------------------------------------------------------------------
(* Nothing is hidden *)

\* The raw text holds words of a row that was retranscribed while it held others.
Retold(x, told) == ToSet(x.raw) \cap told # {}

Whole(x, told) == x.norm \in {<<>>, x.raw} \/ Retold(x, told)

\* A row begins with its own words, so a row that is retold is one of these.
Unhidden ==
  \A t \in DOMAIN db.rows : t \in ToSet(db.rows[t].raw) /\ Whole(db.rows[t], retold)

LEMMA UnhiddenShows == Unhidden => NothingIsHidden
BY DEF Unhidden, NothingIsHidden, Whole, Retold, Shown

LEMMA WordsJoin ==
  ASSUME NEW a \in Seq(Ids), NEW b \in Seq(Ids)
  PROVE  ToSet(a) \subseteq ToSet(a \o b) /\ ToSet(b) \subseteq ToSet(a \o b)
<1> DEFINE c == a \o b
<1>1. /\ Len(a) \in Nat /\ Len(b) \in Nat /\ DOMAIN c = 1..(Len(a) + Len(b))
      /\ DOMAIN a = 1..Len(a) /\ DOMAIN b = 1..Len(b)
  OBVIOUS
<1>2. \A i \in DOMAIN a : i \in DOMAIN c /\ c[i] = a[i]
  OBVIOUS
<1>3. \A i \in DOMAIN b : i + Len(a) \in DOMAIN c /\ c[i + Len(a)] = b[i]
  OBVIOUS
<1> HIDE DEF c
<1>4. ToSet(a) \subseteq ToSet(c)
  BY <1>2 DEF ToSet
<1>5. ToSet(b) \subseteq ToSet(c)
  BY <1>3 DEF ToSet
<1> QED
  BY <1>4, <1>5 DEF c

\* The texts of two rows that hide nothing, put together, hide nothing.
LEMMA JoinedIsWhole ==
  ASSUME NEW x \in Row, NEW y \in Row, NEW told, Whole(x, told), Whole(y, told),
         NEW shown, shown = IF y.norm # <<>> THEN y.norm ELSE y.raw,
         NEW z, z.raw = x.raw \o y.raw,
         z.norm = IF x.norm = <<>> THEN <<>> ELSE x.norm \o shown
  PROVE  Whole(z, told)
<1>1. ToSet(x.raw) \subseteq ToSet(z.raw) /\ ToSet(y.raw) \subseteq ToSet(z.raw)
  BY WordsJoin DEF Row
<1>2. CASE Retold(x, told) \/ Retold(y, told)
  BY <1>1, <1>2 DEF Whole, Retold
<1>3. CASE ~(Retold(x, told) \/ Retold(y, told))
  <2>1. x.norm \in {<<>>, x.raw} /\ shown = y.raw
    BY <1>3 DEF Whole
  <2> QED
    BY <2>1 DEF Whole
<1> QED
  BY <1>2, <1>3

\* Most steps keep the texts of the rows there are.
LEMMA TextsStay ==
  ASSUME Unhidden, retold \subseteq retold', DOMAIN db'.rows \subseteq DOMAIN db.rows,
         \A t \in DOMAIN db'.rows :
           db'.rows[t].raw = db.rows[t].raw /\ db'.rows[t].norm = db.rows[t].norm
  PROVE  Unhidden'
BY DEF Unhidden, Whole, Retold

LEMMA UnhiddenAdd ==
  ASSUME IInv, Unhidden, NEW now, AddTranscript(now)
  PROVE  Unhidden'
<1> DEFINE ts == NextTimestamp(now)
           Q == [t \in (DOMAIN db.rows) \cup {nextId} |->
                   IF t = nextId THEN NewRow(t, ts) ELSE db.rows[t]]
<1>1. db' = [db EXCEPT !.rows = Q] /\ retold' = retold
  BY DEF AddTranscript, Commit
<1>2. db'.rows = Q
  BY <1>1 DEF IInv, DbShape
<1>3. NewRow(nextId, ts).norm = <<nextId>> /\ NewRow(nextId, ts).raw = <<nextId>>
  BY DEF NewRow
<1>4. nextId \in ToSet(<<nextId>>)
  <2>1. 1 \in DOMAIN <<nextId>> /\ <<nextId>>[1] = nextId
    OBVIOUS
  <2> QED
    BY <2>1 DEF ToSet
<1>5. Q[nextId] = NewRow(nextId, ts) /\ \A t \in DOMAIN Q : t # nextId => t \in DOMAIN db.rows /\ Q[t] = db.rows[t]
  OBVIOUS
<1> HIDE DEF Q, ts
<1> QED
  BY <1>1, <1>2, <1>3, <1>4, <1>5 DEF Unhidden, Whole

LEMMA UnhiddenReword ==
  ASSUME IInv, Unhidden, NEW t, CommitEdits(t) \/ Retranscribe(t) \/ RevertToRaw(t)
  PROVE  Unhidden'
<1>1. t \in DOMAIN db.rows /\ retold \subseteq retold'
  BY DEF CommitEdits, Retranscribe, RevertToRaw, Has
<1>2. PICK text : /\ db' = [db EXCEPT !.rows[t].norm = text]
                  /\ \/ text = Shown(db, t) \/ text = <<>>
                     \/ text = <<t>> /\ (db.rows[t].raw = <<t>> \/ t \in retold')
  BY DEF CommitEdits, Retranscribe, RevertToRaw, Commit, UpdateNormalizedText
<1>3. db'.rows = [db.rows EXCEPT ![t].norm = text]
  BY <1>2 DEF IInv, DbShape
<1>4. RowShape(db.rows[t])
  BY <1>1 DEF IInv, RowsInv, Typed
<1>5. /\ DOMAIN db'.rows = DOMAIN db.rows
      /\ \A u \in DOMAIN db.rows \ {t} : db'.rows[u] = db.rows[u]
      /\ db'.rows[t].raw = db.rows[t].raw /\ db'.rows[t].norm = text
  BY <1>1, <1>3, <1>4 DEF RowShape
<1>6. Whole(db.rows[t], retold) /\ t \in ToSet(db.rows[t].raw)
  BY <1>1 DEF Unhidden
<1>7. Whole(db'.rows[t], retold')
  BY <1>1, <1>2, <1>5, <1>6 DEF Whole, Retold, Shown
<1> QED
  BY <1>1, <1>5, <1>6, <1>7 DEF Unhidden, Whole, Retold

LEMMA UnhiddenAppend ==
  ASSUME IInv, Agree, Unhidden, NEW t, NEW s, AppendToTranscript(t, s)
  PROVE  Unhidden'
<1> DEFINE r == RootOf(t)
<1>1. /\ t \in DOMAIN db.rows /\ s \in DOMAIN db.rows /\ s # r
      /\ db' = Appended(db, r, s) /\ retold' = retold
  BY DEF AppendToTranscript, Has, IsRoot, Commit
<1>2. r \in DOMAIN db.rows /\ db.rows[r].root = NoId
  BY <1>1 DEF IInv, RowsInv, Rooted, RootOf, IsRoot
<1> HIDE DEF r
<1>3. db'.rows = AppendedRows(db, r, s) /\ DOMAIN db'.rows = DOMAIN db.rows
  BY <1>1 DEF IInv, DbShape, Appended, AppendedRows
<1>4. \A u \in DOMAIN db.rows : db.rows[u] \in Row /\ RowShape(db.rows[u])
  BY DEF Agree, RowsTyped, IInv, RowsInv, Typed
<1>5. /\ db'.rows[r].raw = db.rows[r].raw \o db.rows[s].raw
      /\ db'.rows[r].norm = IF db.rows[r].norm = <<>> THEN <<>> ELSE db.rows[r].norm \o Shown(db, s)
  <2>1. db'.rows[r] = Lengthened(db, r, s)
    <3>1. r # s /\ db.rows[r].root # s
      BY <1>1, <1>2, LibraryAssumption DEF Agree, RowsTyped, Ids
    <3> QED
      BY ONLY <1>2, <1>3, <3>1 DEF AppendedRows
  <2>2. RowShape(db.rows[r])
    BY <1>2, <1>4
  <2> QED
    BY <2>1, <2>2 DEF Lengthened, RowShape
<1>6. \A u \in DOMAIN db.rows \ {r} :
        db'.rows[u].raw = db.rows[u].raw /\ db'.rows[u].norm = db.rows[u].norm
  BY <1>3, <1>4 DEF AppendedRows, RowShape
<1>7. Whole(db'.rows[r], retold)
  <2>1. Whole(db.rows[r], retold) /\ Whole(db.rows[s], retold)
    BY <1>1, <1>2 DEF Unhidden
  <2>2. db.rows[r] \in Row /\ db.rows[s] \in Row
    BY <1>1, <1>2, <1>4
  <2>3. Shown(db, s) = IF db.rows[s].norm # <<>> THEN db.rows[s].norm ELSE db.rows[s].raw
    BY DEF Shown
  <2> QED
    BY <2>1, <2>2, <2>3, <1>5, JoinedIsWhole
<1>8. r \in ToSet(db'.rows[r].raw)
  <2>1. r \in ToSet(db.rows[r].raw) /\ db.rows[r].raw \in Seq(Ids) /\ db.rows[s].raw \in Seq(Ids)
    BY <1>1, <1>2, <1>4 DEF Unhidden, Row
  <2> QED
    BY <2>1, <1>5, WordsJoin
<1> QED
  BY <1>1, <1>3, <1>6, <1>7, <1>8 DEF Unhidden, Whole, Retold

LEMMA NextUnhidden == IInv /\ Agree /\ Unhidden /\ [Next]_vars => Unhidden'
<1> SUFFICES ASSUME IInv, Agree, Unhidden, [Next]_vars PROVE Unhidden'
  OBVIOUS
<1>1. ASSUME NEW S, DeleteRows(S) PROVE Unhidden'
  <2>1. db'.rows = [t \in (DOMAIN db.rows) \ Cascade(db, S) |-> db.rows[t]] /\ retold' = retold
    BY <1>1 DEF DeleteRows, Commit, Without, IInv, DbShape
  <2> QED
    BY <2>1, TextsStay
<1>2. ASSUME RowsAlone, retold' = retold PROVE Unhidden'
  BY <1>2, TextsStay DEF RowsAlone
<1>3. ASSUME NEW t, DeleteTranscript(t) PROVE Unhidden'
  BY <1>1, <1>3 DEF DeleteTranscript
<1>4. ASSUME NEW S, BatchDeleteTranscripts(S) PROVE Unhidden'
  BY <1>1, <1>4 DEF BatchDeleteTranscripts
<1>5. ASSUME ClearAllTranscripts PROVE Unhidden'
  BY <1>1, <1>5 DEF ClearAllTranscripts
<1>6. ASSUME NEW t, NEW g, NEW G, NEW S, NEW add, NEW now,
             \/ AddTag(g) \/ DeleteTag(g)
             \/ AssignTags(t, G) \/ AssignTagsFails(t, G)
             \/ BatchToggleTag(S, g, add) \/ BatchToggleTagFails(S, g)
             \/ AddTranscriptFails(now) \/ MeetsNoRow \/ TagCompound(t) \/ Restart
      PROVE  Unhidden'
  <2>1. retold' = retold
    BY <1>6 DEF AddTag, DeleteTag, AssignTags, AssignTagsFails, BatchToggleTag, BatchToggleTagFails,
       AddTranscriptFails, MeetsNoRow, TagCompound, Restart
  <2> QED
    BY <2>1, <1>2, <1>6, TagSteps
<1>7. CASE UNCHANGED vars
  BY <1>7, TextsStay DEF vars
<1> QED
  BY <1>3, <1>4, <1>5, <1>6, <1>7, UnhiddenAdd, UnhiddenReword, UnhiddenAppend DEF Next

\* The edited text of a transcript hides nothing of its raw text, until the audio
\* of one of its rows that holds the words of others is transcribed again.
THEOREM NothingEverHidden == Spec => []NothingIsHidden
<1>1. Init => Unhidden
  <2>1. ASSUME Init, NEW t \in Seeded PROVE t \in ToSet(<<t>>)
    <3>1. 1 \in DOMAIN <<t>> /\ <<t>>[1] = t
      OBVIOUS
    <3> QED
      BY <3>1 DEF ToSet
  <2> QED
    BY <2>1 DEF Init, Unhidden, Whole, NewRow
<1> QED
  BY <1>1, UnhiddenShows, NextUnhidden, NextAgree, InitAgree, Invariance, PTL DEF Spec

-----------------------------------------------------------------------------
(* Compounds as sequences: the members of a root by their places.  The     *)
(* place of a member among them is the number of those not after it, so    *)
(* there is one such sequence and only one.                                *)

\* R gives different members of C different places.
Placed(C, R) ==
  /\ IsFiniteSet(C) /\ \A c \in C : R[c].ord \in Nat
  /\ \A b, c \in C : R[b].ord = R[c].ord => b = c

UpTo(C, R, c) == {b \in C : R[b].ord <= R[c].ord}
Rank(C, R, c) == Cardinality(UpTo(C, R, c))

IsListing(q, C, R) ==
  /\ q \in [1..Cardinality(C) -> C]
  /\ \A i, j \in 1..Cardinality(C) : i < j => R[q[i]].ord < R[q[j]].ord

LEMMA RankGrows ==
  ASSUME NEW C, NEW R, Placed(C, R), NEW b \in C, NEW c \in C, R[b].ord < R[c].ord
  PROVE  Rank(C, R, b) < Rank(C, R, c)
<1>1. UpTo(C, R, b) \subseteq UpTo(C, R, c) /\ c \in UpTo(C, R, c) /\ c \notin UpTo(C, R, b)
  BY DEF UpTo, Placed
<1>2. IsFiniteSet(UpTo(C, R, c)) /\ IsFiniteSet(UpTo(C, R, b))
  BY FS_Subset DEF UpTo, Placed
<1>3. UpTo(C, R, b) # UpTo(C, R, c)
  BY <1>1
<1> QED
  BY <1>1, <1>2, <1>3, FS_Subset, FS_CardinalityType DEF Rank

LEMMA RankIsBijection ==
  ASSUME NEW C, NEW R, Placed(C, R)
  PROVE  /\ Cardinality(C) \in Nat
         /\ \A c \in C : Rank(C, R, c) \in 1..Cardinality(C)
         /\ \A i \in 1..Cardinality(C) : \E c \in C : Rank(C, R, c) = i
<1> DEFINE n == Cardinality(C)
           f == [c \in C |-> Rank(C, R, c)]
<1>1. n \in Nat
  BY FS_CardinalityType DEF Placed
<1>2. ASSUME NEW c \in C PROVE Rank(C, R, c) \in 1..n
  <2>1. IsFiniteSet(UpTo(C, R, c)) /\ Rank(C, R, c) <= n
    BY FS_Subset DEF UpTo, Placed, Rank
  <2>2. Rank(C, R, c) \in Nat
    BY <2>1, FS_CardinalityType DEF Rank
  <2>3. c \in UpTo(C, R, c)
    BY DEF UpTo, Placed
  <2>4. Rank(C, R, c) # 0
    BY <2>1, <2>3, FS_EmptySet DEF Rank
  <2> QED
    BY <1>1, <2>1, <2>2, <2>4
<1>3. f \in Injection(C, 1..n)
  <2>1. f \in [C -> 1..n]
    BY <1>2
  <2>2. ASSUME NEW b \in C, NEW c \in C, f[b] = f[c] PROVE b = c
    <3>1. Rank(C, R, b) = Rank(C, R, c) /\ Rank(C, R, b) \in Nat /\ Rank(C, R, c) \in Nat
      BY <1>2, <2>2
    <3>2. ~(R[b].ord < R[c].ord) /\ ~(R[c].ord < R[b].ord)
      BY <3>1, RankGrows
    <3> QED
      BY <3>2 DEF Placed
  <2> HIDE DEF f
  <2> QED
    BY <2>1, <2>2, Fun_IsInj
<1>4. IsFiniteSet(1..n) /\ Cardinality(1..n) = n
  BY <1>1, FS_Interval
<1>5. f \in Surjection(C, 1..n)
  <2> HIDE DEF f
  <2> QED
    BY <1>3, <1>4, FS_Injection
<1>6. \A i \in 1..n : \E c \in C : f[c] = i
  BY <1>5 DEF Surjection
<1> QED
  BY <1>1, <1>2, <1>6

LEMMA ListingExists ==
  ASSUME NEW C, NEW R, Placed(C, R)
  PROVE  \E q \in [1..Cardinality(C) -> C] : IsListing(q, C, R)
<1> DEFINE n == Cardinality(C)
           q == [i \in 1..n |-> CHOOSE c \in C : Rank(C, R, c) = i]
<1>1. \A i \in 1..n : q[i] \in C /\ Rank(C, R, q[i]) = i
  BY RankIsBijection
<1>2. ASSUME NEW i \in 1..n, NEW j \in 1..n, i < j PROVE R[q[i]].ord < R[q[j]].ord
  <2>1. ~(R[q[j]].ord < R[q[i]].ord)
    <3>1. q[i] \in C /\ q[j] \in C /\ ~(Rank(C, R, q[j]) < Rank(C, R, q[i]))
      BY <1>1, <1>2
    <3> HIDE DEF q
    <3> QED
      BY <3>1, RankGrows
  <2>2. q[i] # q[j]
    BY <1>1, <1>2
  <2>3. q[i] \in C /\ q[j] \in C
    BY <1>1
  <2> HIDE DEF q
  <2> QED
    BY <2>1, <2>2, <2>3 DEF Placed
<1>3. q \in [1..n -> C]
  BY <1>1
<1> HIDE DEF q
<1> QED
  BY <1>2, <1>3 DEF IsListing

\* In a listing the rank of a member is its index; so all members are listed.
LEMMA ListingByRank ==
  ASSUME NEW C, NEW R, Placed(C, R), NEW q, IsListing(q, C, R)
  PROVE  /\ \A c \in C : \E i \in 1..Cardinality(C) : q[i] = c
         /\ \A i \in 1..Cardinality(C) : Rank(C, R, q[i]) = i
<1> DEFINE n == Cardinality(C)
<1>1. n \in Nat /\ q \in [1..n -> C]
  BY RankIsBijection DEF IsListing
<1>2. \A i, j \in 1..n : R[q[i]].ord \in Nat /\ (i < j => R[q[i]].ord < R[q[j]].ord)
  BY <1>1 DEF IsListing, Placed
<1>3. \A i, j \in 1..n : q[i] = q[j] => i = j
  BY <1>2
<1>4. q \in Injection(1..n, C)
  BY <1>1, <1>3, Fun_IsInj
<1>5. IsFiniteSet(C) /\ Cardinality(1..n) = n
  BY <1>1, FS_Interval DEF Placed
<1>6. q \in Surjection(1..n, C)
  BY <1>4, <1>5, FS_Injection
<1>7. \A c \in C : \E i \in 1..n : q[i] = c
  BY <1>6 DEF Surjection
<1>8. ASSUME NEW i \in 1..n PROVE Rank(C, R, q[i]) = i
  <2> DEFINE U == UpTo(C, R, q[i])
             p == [j \in 1..i |-> q[j]]
  <2>1. \A j \in 1..n : q[j] \in U <=> j <= i
    <3>1. ASSUME NEW j \in 1..n PROVE R[q[j]].ord <= R[q[i]].ord <=> j <= i
      <4>1. i \in Nat /\ j \in Nat
        OBVIOUS
      <4>2. j < i => R[q[j]].ord < R[q[i]].ord
        BY <1>2
      <4>3. i < j => R[q[i]].ord < R[q[j]].ord
        BY <1>2
      <4>4. R[q[i]].ord \in Nat /\ R[q[j]].ord \in Nat
        BY <1>2
      <4> QED
        BY <4>1, <4>2, <4>3, <4>4
    <3> QED
      BY <1>1, <3>1 DEF UpTo
  <2>2. U \subseteq C
    BY DEF UpTo
  <2>3. i \in Nat /\ \A j \in 1..i : j \in 1..n /\ j <= i
    BY <1>1
  <2> HIDE DEF U
  <2>4. p \in [1..i -> U]
    BY <2>1, <2>3
  <2>5. \A j, k \in 1..i : p[j] = p[k] => j = k
    BY <1>3, <2>3
  <2>6. \A u \in U : \E j \in 1..i : p[j] = u
    <3> SUFFICES ASSUME NEW u \in U PROVE \E j \in 1..i : p[j] = u
      OBVIOUS
    <3>1. PICK j \in 1..n : q[j] = u
      BY <1>7, <2>2
    <3>2. j \in 1..i
      BY <2>1, <2>3, <3>1
    <3> QED
      BY <3>1, <3>2
  <2> HIDE DEF p
  <2>7. p \in Bijection(1..i, U)
    BY <2>4, <2>5, <2>6, Fun_IsInj DEF Bijection, Surjection
  <2>8. ExistsBijection(1..i, U)
    BY <2>7 DEF ExistsBijection
  <2> QED
    BY <2>3, <2>8, FS_CountingElements DEF Rank, U
<1> QED
  BY <1>7, <1>8

LEMMA ListingIsUnique ==
  ASSUME NEW C, NEW R, Placed(C, R), NEW p, NEW q, IsListing(p, C, R), IsListing(q, C, R)
  PROVE  p = q
<1>1. \A b, c \in C : Rank(C, R, b) = Rank(C, R, c) => b = c
  <2> SUFFICES ASSUME NEW b \in C, NEW c \in C, Rank(C, R, b) = Rank(C, R, c) PROVE b = c
    OBVIOUS
  <2>1. Rank(C, R, b) \in Nat /\ Rank(C, R, c) \in Nat
    BY RankIsBijection
  <2>2. ~(R[b].ord < R[c].ord) /\ ~(R[c].ord < R[b].ord)
    BY <2>1, RankGrows
  <2> QED
    BY <2>2 DEF Placed
<1> DEFINE D == 1..Cardinality(C)
<1>2. p \in [D -> C] /\ q \in [D -> C]
  BY DEF IsListing
<1>3. \A i \in D : Rank(C, R, p[i]) = i
  BY ListingByRank
<1>4. \A i \in D : Rank(C, R, q[i]) = i
  BY ListingByRank
<1> HIDE DEF D
<1>5. \A i \in D : p[i] = q[i]
  BY <1>1, <1>2, <1>3, <1>4
<1> QED
  BY <1>2, <1>5

\* What InOrder is when the rows are in order.
LEMMA ChildrenPlaced ==
  ASSUME NEW d, NEW n, RowsInv(d.rows, n), NEW r, r # NoId
  PROVE  Placed(Children(d, r), d.rows) /\ r \notin Children(d, r)
<1>1. IsFiniteSet(Children(d, r))
  <2>1. IsFiniteSet(Ids)
    BY LibraryAssumption, FS_Interval DEF Ids
  <2> QED
    BY <2>1, FS_Subset DEF Children, RowsInv, Typed
<1>2. \A c \in Children(d, r) : d.rows[c].ord \in Nat
  BY DEF Children, RowsInv, Typed, RowShape
<1>3. \A b, c \in Children(d, r) : d.rows[b].ord = d.rows[c].ord => b = c
  BY DEF Children, RowsInv, Ordered
<1>4. r \notin Children(d, r)
  BY DEF Children, RowsInv, Rooted
<1> QED
  BY <1>1, <1>2, <1>3, <1>4 DEF Placed

LEMMA InOrderLists ==
  ASSUME NEW d, NEW r, Placed(Children(d, r), d.rows)
  PROVE  IsListing(InOrder(d, r), Children(d, r), d.rows)
<1> DEFINE C == Children(d, r)
           n == Cardinality(C)
           Good(q) == \A i, j \in DOMAIN q : i < j => d.rows[q[i]].ord < d.rows[q[j]].ord
<1>1. n \in Nat
  BY RankIsBijection
<1>2. \A q \in [1..n -> C] : Len(q) = n
  BY <1>1
<1>3. PICK q \in [1..n -> C] : IsListing(q, C, d.rows)
  BY ListingExists
<1>4. q \in SetToSeqs(C) /\ Good(q)
  <2>1. \A i, j \in 1..n : i < j => d.rows[q[i]].ord < d.rows[q[j]].ord
    BY <1>3 DEF IsListing
  <2>2. \A i \in 1..n : d.rows[q[i]].ord \in Nat
    BY <1>3 DEF Placed
  <2>3. \A i, j \in 1..n : i # j => q[i] # q[j]
    BY <1>1, <2>1, <2>2
  <2> QED
    BY <1>2, <1>3, <2>1, <2>3 DEF SetToSeqs
<1>5. InOrder(d, r) = CHOOSE p \in SetToSeqs(C) : Good(p)
  BY DEF InOrder
<1>6. InOrder(d, r) \in SetToSeqs(C) /\ Good(InOrder(d, r))
  <2> HIDE DEF Good, C
  <2> QED
    BY <1>4, <1>5
<1>7. InOrder(d, r) \in [1..n -> C]
  BY <1>6 DEF SetToSeqs
<1> QED
  BY <1>2, <1>6, <1>7 DEF IsListing

\* The sequence of a compound: its root, then its members by their places.
LEMMA CompoundLists ==
  ASSUME NEW d, NEW n, RowsInv(d.rows, n), NEW r, r # NoId
  PROVE  LET C == Children(d, r)
             q == InOrder(d, r)
             s == Compound(d, r)
         IN  /\ Cardinality(C) \in Nat /\ q \in Seq(C) /\ Len(q) = Cardinality(C)
             /\ IsListing(q, C, d.rows)
             /\ s \in Seq({r} \cup C) /\ Len(s) = 1 + Len(q) /\ s[1] = r
             /\ Head(s) = r /\ Shelf!Members(s) = {r} \cup C
<1> DEFINE C == Children(d, r)
           q == InOrder(d, r)
           s == Compound(d, r)
<1>1. Placed(C, d.rows)
  BY ChildrenPlaced
<1>2. IsListing(q, C, d.rows)
  BY <1>1, InOrderLists
<1>3. Cardinality(C) \in Nat
  BY <1>1, RankIsBijection
<1>4. q \in [1..Cardinality(C) -> C]
  BY <1>2 DEF IsListing
<1>13. \A c \in C : \E i \in 1..Cardinality(C) : q[i] = c
  <2> HIDE DEF C, q
  <2> QED
    BY <1>1, <1>2, ListingByRank
<1>5. s = <<r>> \o q
  BY DEF Compound
<1> HIDE DEF C, q, s
<1>6. q \in Seq(C) /\ Len(q) = Cardinality(C)
  BY <1>3, <1>4
<1>7. q \in Seq({r} \cup C) /\ <<r>> \in Seq({r} \cup C)
  BY <1>6
<1>8. s \in Seq({r} \cup C) /\ Len(s) = 1 + Len(q)
  BY <1>5, <1>7, ConcatProperties
<1>9. s[1] = r
  BY <1>5, <1>7, <1>8
<1>10. \A i \in 1..Len(q) : s[i + 1] = q[i]
  BY <1>5, <1>7, <1>8
<1>11. Head(s) = r
  BY <1>8, <1>9
<1>12. Shelf!Members(s) = {r} \cup C
  <2>1. Shelf!Members(s) \subseteq {r} \cup C
    BY <1>8 DEF Shelf!Members
  <2>2. r \in Shelf!Members(s)
    BY <1>6, <1>8, <1>9 DEF Shelf!Members
  <2>3. ASSUME NEW c \in C PROVE c \in Shelf!Members(s)
    <3>1. PICK i \in 1..Len(q) : q[i] = c
      BY <1>6, <1>13
    <3>2. i + 1 \in 1..Len(s) /\ s[i + 1] = c
      BY <1>6, <1>8, <1>10, <3>1
    <3> QED
      BY <3>2 DEF Shelf!Members
  <2> QED
    BY <2>1, <2>2, <2>3
<1> QED
  BY <1>2, <1>3, <1>6, <1>8, <1>9, <1>10, <1>11, <1>12 DEF C, q, s

\* The items of s after the first are those of q.
Behind(s, q) ==
  /\ \A i \in 1..Len(q) : s[i + 1] = q[i]
  /\ \A i \in 2..Len(s) : s[i] = q[i - 1]

LEMMA CompoundItems ==
  ASSUME NEW d, NEW n, RowsInv(d.rows, n), NEW r, r # NoId
  PROVE  Behind(Compound(d, r), InOrder(d, r))
<1> DEFINE C == Children(d, r)
           q == InOrder(d, r)
           s == Compound(d, r)
<1>1. q \in Seq(C)
  BY CompoundLists
<1>2. s = <<r>> \o q
  BY DEF Compound
<1> HIDE DEF C, q, s
<1>3. q \in Seq({r} \cup C) /\ <<r>> \in Seq({r} \cup C)
  BY <1>1
<1>4. Len(s) = 1 + Len(q) /\ \A i \in 1..Len(q) : s[i + 1] = q[i]
  BY <1>2, <1>3
<1>5. \A i \in 2..Len(s) : s[i] = q[i - 1]
  BY <1>2, <1>3, <1>4
<1> QED
  BY <1>4, <1>5 DEF q, s, Behind

\* A root whose members and their places are as before has the same compound.
LEMMA CompoundStays ==
  ASSUME NEW d, NEW e, NEW r, Children(e, r) = Children(d, r),
         \A c \in Children(d, r) : e.rows[c].ord = d.rows[c].ord
  PROVE  Compound(e, r) = Compound(d, r)
<1> DEFINE S == SetToSeqs(Children(d, r))
           Good(x, q) == \A i, j \in DOMAIN q : i < j => x.rows[q[i]].ord < x.rows[q[j]].ord
<1>1. ASSUME NEW q \in S PROVE Good(d, q) <=> Good(e, q)
  <2>1. q \in [1..Cardinality(Children(d, r)) -> Children(d, r)]
    BY DEF SetToSeqs
  <2> QED
    BY <2>1
<1>2. InOrder(d, r) = CHOOSE q \in S : Good(d, q)
  BY DEF InOrder
<1>3. InOrder(e, r) = CHOOSE q \in S : Good(e, q)
  BY DEF InOrder
<1> HIDE DEF S, Good
<1>4. InOrder(e, r) = InOrder(d, r)
  BY <1>1, <1>2, <1>3
<1> QED
  BY <1>4 DEF Compound

-----------------------------------------------------------------------------
(* Each step on the shelf *)

LEMMA ShelfHolds ==
  ASSUME NEW d, NEW n, RowsInv(d.rows, n)
  PROVE  /\ NoId \notin DOMAIN d.rows
         /\ \A r \in Roots(d) : Shelf!Members(Compound(d, r)) = {r} \cup Children(d, r)
         /\ \A r, t \in Roots(d) : Compound(d, r) = Compound(d, t) => r = t
         /\ \A r \in Roots(d) : Head(Compound(d, r)) = r
         /\ \A R \in SUBSET Roots(d) :
              Shelf!All({Compound(d, r) : r \in R}) = R \cup UNION {Children(d, r) : r \in R}
         /\ Shelf!All(OnShelf(d)) = DOMAIN d.rows
<1>1. NoId \notin DOMAIN d.rows
  BY LibraryAssumption DEF RowsInv, Typed, Ids
<1>2. \A r \in Roots(d) : /\ Head(Compound(d, r)) = r
                          /\ Shelf!Members(Compound(d, r)) = {r} \cup Children(d, r)
  BY <1>1, CompoundLists DEF Roots
<1>3. ASSUME NEW R \in SUBSET Roots(d)
      PROVE  Shelf!All({Compound(d, r) : r \in R}) = R \cup UNION {Children(d, r) : r \in R}
  BY <1>2 DEF Shelf!All
<1>4. Roots(d) \cup UNION {Children(d, r) : r \in Roots(d)} = DOMAIN d.rows
  <2>1. \A t \in DOMAIN d.rows : t \in Roots(d) \/ \E r \in Roots(d) : t \in Children(d, r)
    BY DEF Roots, IsRoot, Children, RowsInv, Rooted
  <2> QED
    BY <2>1 DEF Roots, Children
<1>5. \A r, t \in Roots(d) : Compound(d, r) = Compound(d, t) => r = t
  BY <1>2
<1> QED
  BY <1>1, <1>2, <1>3, <1>4, <1>5 DEF OnShelf

\* Roots and places are all the shelf is made of.
LEMMA ShelfStays ==
  ASSUME NEW d, NEW e, DOMAIN e.rows = DOMAIN d.rows,
         \A t \in DOMAIN d.rows : e.rows[t].root = d.rows[t].root /\ e.rows[t].ord = d.rows[t].ord
  PROVE  OnShelf(e) = OnShelf(d)
<1>1. Roots(e) = Roots(d) /\ \A r : Children(e, r) = Children(d, r)
  BY DEF Roots, IsRoot, Children
<1>2. \A r : \A c \in Children(d, r) : e.rows[c].ord = d.rows[c].ord
  BY DEF Children
<1>3. \A r : Compound(e, r) = Compound(d, r)
  BY <1>1, <1>2, CompoundStays
<1> QED
  BY <1>1, <1>3 DEF OnShelf

LEMMA AddIsRecord ==
  ASSUME IInv, NEW now, AddTranscript(now)
  PROVE  Shelf!Record(nextId)
<1> DEFINE ts == NextTimestamp(now)
           Q == [t \in (DOMAIN db.rows) \cup {nextId} |->
                   IF t = nextId THEN NewRow(t, ts) ELSE db.rows[t]]
<1>1. db' = [db EXCEPT !.rows = Q] /\ disk' = db' /\ nextId' = nextId + 1
  BY DEF AddTranscript, Commit
<1>2. disk'.rows = Q /\ disk.rows = db.rows /\ RowsInv(disk.rows, nextId) /\ nextId \in Nat
  BY <1>1 DEF IInv, DbShape
<1>3. nextId \notin DOMAIN disk.rows /\ \A t \in DOMAIN disk.rows : t \in Nat /\ t < nextId
  BY <1>2, LibraryAssumption DEF RowsInv, Typed, Ids
<1>4. /\ DOMAIN disk'.rows = DOMAIN disk.rows \cup {nextId}
      /\ \A t \in DOMAIN disk.rows : disk'.rows[t] = disk.rows[t]
      /\ disk'.rows[nextId].root = NoId
  BY <1>2, <1>3 DEF NewRow
<1>5. NoId # nextId /\ \A t \in DOMAIN disk.rows : disk.rows[t].root # nextId
  BY <1>2, <1>3, LibraryAssumption DEF RowsInv, Rooted
<1>6. Roots(disk') = Roots(disk) \cup {nextId}
  BY <1>3, <1>4 DEF Roots, IsRoot
<1>7. /\ \A r : r # NoId => Children(disk', r) = Children(disk, r)
      /\ Children(disk', nextId) = {}
  BY <1>3, <1>4, <1>5 DEF Children
<1>8. \A r \in Roots(disk) : Compound(disk', r) = Compound(disk, r)
  <2> SUFFICES ASSUME NEW r \in Roots(disk) PROVE Compound(disk', r) = Compound(disk, r)
    OBVIOUS
  <2>1. Children(disk', r) = Children(disk, r)
    BY <1>2, <1>7, ShelfHolds DEF Roots
  <2>2. \A c \in Children(disk, r) : disk'.rows[c].ord = disk.rows[c].ord
    BY <1>4 DEF Children
  <2> QED
    BY <2>1, <2>2, CompoundStays
<1>9. Compound(disk', nextId) = <<nextId>>
  <2>1. RowsInv(disk'.rows, nextId + 1)
    BY <1>1, AddTranscriptStep DEF IInv
  <2> DEFINE s == Compound(disk', nextId)
             q == InOrder(disk', nextId)
  <2>2. /\ Len(q) = Cardinality(Children(disk', nextId)) /\ Len(s) = 1 + Len(q)
        /\ s \in Seq({nextId} \cup Children(disk', nextId)) /\ s[1] = nextId
    BY <2>1, <1>5, CompoundLists
  <2> HIDE DEF s, q
  <2>3. Len(s) = 1 /\ s \in Seq({nextId}) /\ s[1] = nextId
    BY <1>7, <2>2, FS_EmptySet
  <2>4. s = <<nextId>>
    BY <2>3
  <2> QED
    BY <2>4 DEF s
<1>10. OnShelf(disk') = OnShelf(disk) \cup {<<nextId>>}
  BY <1>6, <1>8, <1>9 DEF OnShelf
<1>11. Deleted' = Deleted
  BY <1>1, <1>2, <1>3, <1>4 DEF Deleted
<1>12. nextId \notin Shelf!All(OnShelf(disk)) \cup Deleted
  <2>1. Shelf!All(OnShelf(disk)) = DOMAIN disk.rows
    BY <1>2, ShelfHolds
  <2> QED
    BY <1>2, <1>3, <2>1 DEF Deleted
<1> QED
  BY <1>10, <1>11, <1>12 DEF Shelf!Record, OnShelf

\* What deleting the rows of S leaves.
LEMMA Deleting ==
  ASSUME IInv, NEW S \in SUBSET (DOMAIN db.rows), DeleteRows(S)
  PROVE  LET gone == S \cup UNION {Children(disk, t) : t \in S} IN
         /\ RowsInv(disk.rows, nextId) /\ RowsInv(disk'.rows, nextId)
         /\ gone \subseteq DOMAIN disk.rows /\ S \subseteq DOMAIN disk.rows
         /\ DOMAIN disk'.rows = DOMAIN disk.rows \ gone
         /\ \A t \in DOMAIN disk'.rows : disk'.rows[t] = disk.rows[t]
         /\ Deleted' = Deleted \cup gone
         /\ Roots(disk') = Roots(disk) \ gone
<1> DEFINE gone == Cascade(db, S)
           Q == [t \in (DOMAIN db.rows) \ gone |-> db.rows[t]]
<1>1. gone = S \cup UNION {Children(disk, t) : t \in S}
  BY DEF Cascade, Children, IInv
<1>2. disk'.rows = Q /\ nextId' = nextId
  BY DEF DeleteRows, Commit, Without, IInv, DbShape
<1>3. IInv'
  BY DeleteStep
<1>4. gone \subseteq DOMAIN disk.rows
  BY <1>1 DEF Children, IInv
<1>5. \A t \in DOMAIN disk.rows : t \in 1..(nextId - 1)
  BY DEF IInv, RowsInv, Typed, Ids
<1> HIDE DEF gone
<1>6. DOMAIN disk'.rows = DOMAIN disk.rows \ gone /\ \A t \in DOMAIN disk'.rows : disk'.rows[t] = disk.rows[t]
  BY <1>2 DEF IInv
<1>7. Deleted' = Deleted \cup gone
  BY <1>2, <1>4, <1>5, <1>6 DEF Deleted
<1>8. Roots(disk') = Roots(disk) \ gone
  BY <1>6 DEF Roots, IsRoot
<1> QED
  BY <1>1, <1>2, <1>3, <1>4, <1>6, <1>7, <1>8 DEF IInv

\* Deleting roots throws their compounds away.
LEMMA DeleteIsDiscard ==
  ASSUME IInv, NEW S \in SUBSET Roots(db), DeleteRows(S)
  PROVE  \E D \in SUBSET OnShelf(disk) : Shelf!Discard(D)
<1> DEFINE gone == S \cup UNION {Children(disk, t) : t \in S}
           D == {Compound(disk, t) : t \in S}
<1>1. S \in SUBSET Roots(disk) /\ S \in SUBSET (DOMAIN db.rows)
  BY DEF IInv, Roots, IsRoot
<1>2. /\ RowsInv(disk.rows, nextId)
      /\ DOMAIN disk'.rows = DOMAIN disk.rows \ gone
      /\ \A t \in DOMAIN disk'.rows : disk'.rows[t] = disk.rows[t]
      /\ Deleted' = Deleted \cup gone
      /\ Roots(disk') = Roots(disk) \ gone
  BY <1>1, Deleting
<1>9. NoId \notin DOMAIN disk.rows
  BY <1>2, ShelfHolds
<1>3. Roots(disk') = Roots(disk) \ S
  BY <1>1, <1>2, <1>9 DEF Roots, IsRoot, Children
<1>4. \A r \in Roots(disk') : Compound(disk', r) = Compound(disk, r)
  <2> SUFFICES ASSUME NEW r \in Roots(disk) \ S PROVE Compound(disk', r) = Compound(disk, r)
    BY <1>3
  <2>1. Children(disk', r) = Children(disk, r)
    <3>1. \A c \in Children(disk, r) : c \notin gone
      BY <1>1, <1>9 DEF Roots, IsRoot, Children
    <3> QED
      BY <1>2, <3>1 DEF Children
  <2>2. \A c \in Children(disk, r) : disk'.rows[c].ord = disk.rows[c].ord
    BY <1>2, <2>1 DEF Children
  <2> QED
    BY <2>1, <2>2, CompoundStays
<1>5. OnShelf(disk') = OnShelf(disk) \ D
  <2>1. OnShelf(disk') = {Compound(disk, r) : r \in Roots(disk) \ S}
    BY <1>3, <1>4 DEF OnShelf
  <2>2. \A r, t \in Roots(disk) : Compound(disk, r) = Compound(disk, t) => r = t
    BY <1>2, ShelfHolds
  <2> QED
    BY <1>1, <2>1, <2>2 DEF OnShelf
<1>6. Shelf!All(D) = gone
  BY <1>1, <1>2, ShelfHolds
<1>7. D \in SUBSET OnShelf(disk)
  BY <1>1 DEF OnShelf
<1> HIDE DEF D, gone
<1>8. Shelf!Discard(D)
  BY <1>2, <1>5, <1>6 DEF Shelf!Discard, OnShelf
<1> QED
  BY <1>7, <1>8

\* In a listing, an earlier place is an earlier index.
LEMMA EarlierIndex ==
  ASSUME NEW C, NEW R, Placed(C, R), NEW q, IsListing(q, C, R),
         NEW i \in 1..Cardinality(C), NEW j \in 1..Cardinality(C), R[q[i]].ord < R[q[j]].ord
  PROVE  i < j
<1>1. Cardinality(C) \in Nat /\ q[i] \in C /\ q[j] \in C
  BY RankIsBijection DEF IsListing
<1>2. R[q[i]].ord \in Nat /\ R[q[j]].ord \in Nat
  BY <1>1 DEF Placed
<1>3. j < i => R[q[j]].ord < R[q[i]].ord
  BY DEF IsListing
<1> QED
  BY <1>1, <1>2, <1>3

\* What stays of a compound whose root stays.
LEMMA RestOfCompound ==
  ASSUME NEW d, NEW e, NEW n, RowsInv(d.rows, n), RowsInv(e.rows, n), NEW r \in Roots(d), r \in Seeded,
         Children(e, r) = Children(d, r) \cap Seeded,
         \A c \in Children(e, r) : e.rows[c].ord = d.rows[c].ord
  PROVE  Shelf!IsRest(Compound(e, r), Compound(d, r))
<1> DEFINE C == Children(d, r)
           E == Children(e, r)
           p == InOrder(e, r)
           q == InOrder(d, r)
           k == Compound(e, r)
           s == Compound(d, r)
<1>1. r # NoId
  BY ShelfHolds DEF Roots
<1>2. /\ Cardinality(E) \in Nat /\ Len(p) = Cardinality(E) /\ IsListing(p, E, e.rows)
      /\ Len(k) = 1 + Len(p) /\ k[1] = r
      /\ Behind(k, p)
      /\ Shelf!Members(k) = {r} \cup E
  <2>1. /\ Cardinality(E) \in Nat /\ Len(p) = Cardinality(E) /\ IsListing(p, E, e.rows)
        /\ Len(k) = 1 + Len(p) /\ k[1] = r
    BY <1>1, CompoundLists
  <2>2. Behind(k, p)
    BY <1>1, CompoundItems
  <2>3. Shelf!Members(k) = {r} \cup E
    BY <1>1, CompoundLists
  <2> QED
    BY <2>1, <2>2, <2>3
<1>3. /\ Cardinality(C) \in Nat /\ Len(q) = Cardinality(C) /\ IsListing(q, C, d.rows)
      /\ Len(s) = 1 + Len(q) /\ s[1] = r
      /\ Behind(s, q)
      /\ Shelf!Members(s) = {r} \cup C
  <2>1. /\ Cardinality(C) \in Nat /\ Len(q) = Cardinality(C) /\ IsListing(q, C, d.rows)
        /\ Len(s) = 1 + Len(q) /\ s[1] = r
    BY <1>1, CompoundLists
  <2>2. Behind(s, q)
    BY <1>1, CompoundItems
  <2>3. Shelf!Members(s) = {r} \cup C
    BY <1>1, CompoundLists
  <2> QED
    BY <2>1, <2>2, <2>3
<1>4. Placed(C, d.rows) /\ Placed(E, e.rows)
  BY <1>1, ChildrenPlaced
<1>5. E = C \cap Seeded /\ \A c \in E : e.rows[c].ord = d.rows[c].ord
  OBVIOUS
<1> HIDE DEF C, E, p, q, k, s
<1>6. Shelf!Members(k) = Shelf!Members(s) \cap Seeded
  BY <1>2, <1>3, <1>5
<1>7. ASSUME NEW i \in 1..Cardinality(E)
      PROVE  \E a \in 1..Cardinality(C) : q[a] = p[i]
  <2>1. p[i] \in C
    BY <1>2, <1>5 DEF IsListing
  <2> QED
    BY <2>1, <1>3, <1>4, ListingByRank
<1>8. ASSUME NEW i \in 1..Len(k), NEW j \in 1..Len(k), i < j
      PROVE  \E a, b \in 1..Len(s) : a < b /\ k[i] = s[a] /\ k[j] = s[b]
  <2>1. j \in 2..Len(k) /\ j - 1 \in 1..Cardinality(E) /\ k[j] = p[j - 1]
    BY <1>2, <1>8 DEF Behind
  <2>2. PICK b \in 1..Cardinality(C) : q[b] = p[j - 1]
    BY <2>1, <1>7
  <2>3. b + 1 \in 2..Len(s) /\ s[b + 1] = k[j]
    BY <2>1, <2>2, <1>3 DEF Behind
  <2>4. CASE i = 1
    <3>1. 1 \in 1..Len(s) /\ b + 1 \in 1..Len(s) /\ 1 < b + 1 /\ k[i] = s[1]
      BY <2>3, <2>4, <1>2, <1>3
    <3> QED
      BY <3>1, <2>3
  <2>5. CASE i # 1
    <3>1. i \in 2..Len(k) /\ i - 1 \in 1..Cardinality(E) /\ k[i] = p[i - 1] /\ i - 1 < j - 1
      BY <1>2, <1>8, <2>5 DEF Behind
    <3>2. PICK a \in 1..Cardinality(C) : q[a] = p[i - 1]
      BY <3>1, <1>7
    <3>3. e.rows[p[i - 1]].ord < e.rows[p[j - 1]].ord /\ p[i - 1] \in E /\ p[j - 1] \in E
      BY <3>1, <2>1, <1>2 DEF IsListing
    <3>4. d.rows[q[a]].ord < d.rows[q[b]].ord
      BY <3>2, <3>3, <2>2, <1>5
    <3>5. a < b
      BY <3>4, <1>3, <1>4, EarlierIndex
    <3>6. a + 1 \in 1..Len(s) /\ s[a + 1] = k[i] /\ a + 1 < b + 1
      BY <3>1, <3>2, <3>5, <1>3 DEF Behind
    <3> QED
      BY <3>6, <2>3
  <2> QED
    BY <2>4, <2>5
<1> QED
  BY <1>6, <1>8 DEF Shelf!IsRest, k, s

LEMMA ClearIsClear ==
  ASSUME IInv, ClearAllTranscripts
  PROVE  Shelf!Clear
<1> DEFINE S == {t \in DOMAIN db.rows : ~IsProtected(t)}
           gone == S \cup UNION {Children(disk, t) : t \in S}
<1>1. S \in SUBSET (DOMAIN db.rows) /\ DeleteRows(S)
  BY DEF ClearAllTranscripts
<1>2. /\ RowsInv(disk.rows, nextId) /\ RowsInv(disk'.rows, nextId)
      /\ gone \subseteq DOMAIN disk.rows
      /\ DOMAIN disk'.rows = DOMAIN disk.rows \ gone
      /\ \A t \in DOMAIN disk'.rows : disk'.rows[t] = disk.rows[t]
      /\ Deleted' = Deleted \cup gone
      /\ Roots(disk') = Roots(disk) \ gone
  <2> HIDE DEF S
  <2> QED
    BY <1>1, Deleting
<1>3. NoId \notin DOMAIN disk.rows /\ S = DOMAIN disk.rows \ Seeded
  BY <1>2, ShelfHolds DEF IInv, IsProtected
<1>4. Roots(disk') = Roots(disk) \cap Seeded
  BY <1>2, <1>3 DEF Roots, IsRoot, Children
<1>5. ASSUME NEW r \in Roots(disk')
      PROVE  Shelf!IsRest(Compound(disk', r), Compound(disk, r))
  <2>1. r \in Roots(disk) /\ r \in Seeded
    BY <1>4
  <2>2. Children(disk', r) = Children(disk, r) \cap Seeded
    <3>1. \A c \in Children(disk, r) : c \in gone <=> c \notin Seeded
      BY <1>3, <2>1 DEF Children, Roots, IsRoot
    <3> HIDE DEF gone
    <3> QED
      BY <1>2, <3>1 DEF Children
  <2>3. \A c \in Children(disk', r) : disk'.rows[c].ord = disk.rows[c].ord
    BY <1>2 DEF Children
  <2> QED
    BY <1>2, <2>1, <2>2, <2>3, RestOfCompound
<1> HIDE DEF S, gone
<1>6. /\ \A r \in Roots(disk) : Head(Compound(disk, r)) = r
      /\ Shelf!All(OnShelf(disk)) = DOMAIN disk.rows
      /\ Shelf!All(OnShelf(disk')) = DOMAIN disk'.rows
  BY <1>2, ShelfHolds
<1>7. ASSUME NEW s \in OnShelf(disk), Head(s) \in Seeded
      PROVE  \E k \in OnShelf(disk') : Shelf!IsRest(k, s)
  <2>1. PICK r \in Roots(disk) : s = Compound(disk, r)
    BY DEF OnShelf
  <2>2. r \in Roots(disk')
    BY <2>1, <1>4, <1>6, <1>7
  <2> QED
    BY <2>1, <2>2, <1>5 DEF OnShelf
<1>8. ASSUME NEW k \in OnShelf(disk')
      PROVE  \E s \in OnShelf(disk) : Head(s) \in Seeded /\ Shelf!IsRest(k, s)
  <2>1. PICK r \in Roots(disk') : k = Compound(disk', r)
    BY DEF OnShelf
  <2>2. r \in Roots(disk) /\ Head(Compound(disk, r)) \in Seeded
    BY <1>4, <1>6
  <2> QED
    BY <2>1, <2>2, <1>5 DEF OnShelf
<1>9. Deleted' = Deleted \cup (Shelf!All(OnShelf(disk)) \ Shelf!All(OnShelf(disk')))
  BY <1>2, <1>6
<1>10. OnShelf(disk') = OnShelf(disk)'
  BY DEF OnShelf, Compound, InOrder, Roots, IsRoot, Children
<1> QED
  BY <1>7, <1>8, <1>9, <1>10 DEF Shelf!Clear

-----------------------------------------------------------------------------
(* Joining two compounds *)

\* A listing with another behind it, all of whose places are moved beyond its own.
LEMMA ListingsJoin ==
  ASSUME NEW A, NEW B, NEW s, s \notin A, s \notin B, A \cap B = {},
         NEW R, NEW Q, NEW first \in Nat, Placed(A, R), Placed(B, R),
         \A c \in A : Q[c].ord = R[c].ord /\ R[c].ord < first,
         Q[s].ord = first,
         \A c \in B : Q[c].ord = R[c].ord + first /\ R[c].ord > 0,
         NEW q \in Seq(A), IsListing(q, A, R), Len(q) = Cardinality(A),
         NEW p, IsListing(p, B, R), Len(p) = Cardinality(B),
         NEW w \in Seq({s} \cup B), Len(w) = 1 + Len(p), w[1] = s, Behind(w, p)
  PROVE  IsListing(q \o w, A \cup {s} \cup B, Q)
<1> DEFINE a == Cardinality(A)
           b == Cardinality(B)
           C == A \cup {s} \cup B
           m == q \o w
<1>1. a \in Nat /\ b \in Nat /\ IsFiniteSet(A) /\ IsFiniteSet(B)
  BY RankIsBijection DEF Placed
<1>2. Cardinality(C) = a + 1 + b
  <2>1. IsFiniteSet(A \cup {s}) /\ Cardinality(A \cup {s}) = a + 1
    BY <1>1, FS_AddElement
  <2>2. Cardinality((A \cup {s}) \cap B) = 0
    <3>1. (A \cup {s}) \cap B = {}
      OBVIOUS
    <3> QED
      BY <3>1, FS_EmptySet
  <2>3. Cardinality(C) = Cardinality(A \cup {s}) + b - Cardinality((A \cup {s}) \cap B)
    BY <1>1, <2>1, FS_Union
  <2> HIDE DEF a, b, C
  <2> QED
    BY <1>1, <2>1, <2>2, <2>3
<1>3. q \in Seq(C) /\ w \in Seq(C)
  OBVIOUS
<1>4. /\ m \in Seq(C) /\ Len(m) = a + 1 + b
      /\ \A i \in 1..(a + 1 + b) : m[i] = IF i <= a THEN q[i] ELSE w[i - a]
  <2>1. Len(w) = 1 + b /\ Len(q) = a /\ m = q \o w
    OBVIOUS
  <2> HIDE DEF C, m, a, b
  <2>4. m \in Seq(C) /\ Len(m) = Len(q) + Len(w)
    BY ONLY <1>3, <2>1, ConcatProperties
  <2>5. \A i \in 1..(Len(q) + Len(w)) : m[i] = IF i <= Len(q) THEN q[i] ELSE w[i - Len(q)]
    BY <1>3, <2>1
  <2>3. Len(q) + Len(w) = a + 1 + b
    BY <1>1, <2>1
  <2> QED
    BY <2>1, <2>3, <2>4, <2>5
<1>5. \A i \in 1..a : m[i] \in A /\ m[i] = q[i]
  BY <1>1, <1>4
<1>6. m[a + 1] = s
  BY <1>1, <1>4
<1>7. ASSUME NEW i \in 1..(a + 1 + b), i > a + 1
      PROVE  i - a - 1 \in 1..b /\ m[i] = p[i - a - 1] /\ m[i] \in B
  <2>1. i - a - 1 \in 1..b /\ i - a \in 2..Len(w) /\ (i - a) - 1 = i - a - 1
    BY <1>1, <1>7
  <2>2. m[i] = w[i - a]
    BY <1>1, <1>4, <1>7
  <2>3. w[i - a] = p[i - a - 1]
    BY <2>1 DEF Behind
  <2>4. p \in [1..b -> B]
    BY DEF IsListing
  <2> QED
    BY <2>1, <2>2, <2>3, <2>4
<1>8. \A c \in A \cup B : R[c].ord \in Nat
  BY DEF Placed
<1> HIDE DEF m, C, a, b
<1>9. ASSUME NEW i \in 1..(a + 1 + b), NEW j \in 1..(a + 1 + b), i < j
      PROVE  Q[m[i]].ord < Q[m[j]].ord
  <2>1. CASE j <= a
    <3>1. i \in 1..a /\ j \in 1..a
      BY <1>1, <1>9, <2>1
    <3>2. R[q[i]].ord < R[q[j]].ord
      BY <3>1, <1>9 DEF IsListing, a
    <3> QED
      BY <3>1, <3>2, <1>5
  <2>2. CASE j = a + 1
    <3>1. i \in 1..a
      BY <1>1, <1>9, <2>2
    <3> QED
      BY <3>1, <2>2, <1>5, <1>6
  <2>3. CASE j > a + 1
    <3>1. /\ j - a - 1 \in 1..b /\ m[j] = p[j - a - 1] /\ m[j] \in B
          /\ Q[m[j]].ord = R[m[j]].ord + first /\ R[m[j]].ord > 0 /\ R[m[j]].ord \in Nat
      BY <2>3, <1>7, <1>8
    <3>2. CASE i <= a
      <4>1. m[i] \in A
        BY <1>1, <1>9, <3>2, <1>5
      <4>2. Q[m[i]].ord < first /\ Q[m[i]].ord \in Nat
        BY <4>1, <1>8
      <4> QED
        BY <4>2, <3>1
    <3>3. CASE i = a + 1
      BY <3>1, <3>3, <1>6
    <3>4. CASE i > a + 1
      <4>1. /\ i - a - 1 \in 1..b /\ m[i] = p[i - a - 1] /\ m[i] \in B
            /\ Q[m[i]].ord = R[m[i]].ord + first /\ R[m[i]].ord \in Nat
        BY <3>4, <1>7, <1>8
      <4>2. i - a - 1 < j - a - 1
        BY <1>1, <1>9
      <4>3. R[p[i - a - 1]].ord < R[p[j - a - 1]].ord
        BY <4>1, <4>2, <3>1 DEF IsListing, b
      <4> QED
        BY <4>1, <4>3, <3>1
    <3> QED
      BY <1>1, <3>2, <3>3, <3>4
  <2> QED
    BY <1>1, <2>1, <2>2, <2>3
<1>10. m \in [1..Cardinality(C) -> C]
  BY <1>2, <1>4
<1> QED
  BY <1>2, <1>9, <1>10 DEF IsListing, m, C

\* What append_to_transcript does to the roots and the places of the rows.
Moved(d, e, r, s, first) ==
  /\ first \in Nat /\ \A c \in Children(d, r) : d.rows[c].ord < first
  /\ DOMAIN e.rows = DOMAIN d.rows
  /\ e.rows[s].root = r /\ e.rows[s].ord = first
  /\ \A c \in Children(d, s) : e.rows[c].root = r /\ e.rows[c].ord = d.rows[c].ord + first
  /\ \A t \in DOMAIN d.rows : t # s /\ t \notin Children(d, s) =>
       e.rows[t].root = d.rows[t].root /\ e.rows[t].ord = d.rows[t].ord

\* What that is for the compounds.
Joined(d, e, r, s) ==
  /\ Roots(e) = Roots(d) \ {s}
  /\ Compound(e, r) = Compound(d, r) \o Compound(d, s)
  /\ \A x \in Roots(d) \ {r, s} : Compound(e, x) = Compound(d, x)

LEMMA MovedJoins ==
  ASSUME NEW d, NEW n, RowsInv(d.rows, n), NEW e, RowsInv(e.rows, n),
         NEW r \in Roots(d), NEW s \in Roots(d), r # s,
         NEW first, Moved(d, e, r, s, first)
  PROVE  Joined(d, e, r, s)
<1> DEFINE A == Children(d, r)
           B == Children(d, s)
           C == Children(e, r)
           q == InOrder(d, r)
           p == InOrder(d, s)
           w == Compound(d, s)
<1>1. /\ NoId \notin DOMAIN d.rows /\ r \in DOMAIN d.rows /\ s \in DOMAIN d.rows
      /\ d.rows[r].root = NoId /\ d.rows[s].root = NoId /\ r # NoId /\ s # NoId
  BY ShelfHolds DEF Roots, IsRoot
<1>2. s \notin A /\ s \notin B /\ r \notin B /\ A \cap B = {}
  BY <1>1 DEF Children
<1>3. Roots(e) = Roots(d) \ {s}
  BY <1>1 DEF Moved, Roots, IsRoot, Children
<1>4. C = A \cup {s} \cup B
  BY <1>1, <1>2 DEF Moved, Children
<1>5. ASSUME NEW x \in Roots(d) \ {r, s} PROVE Compound(e, x) = Compound(d, x)
  <2>1. Children(e, x) = Children(d, x)
    BY <1>1, <1>5 DEF Moved, Children, Roots
  <2>2. \A c \in Children(d, x) : e.rows[c].ord = d.rows[c].ord
    BY <1>1, <1>5 DEF Moved, Children, Roots
  <2> QED
    BY <2>1, <2>2, CompoundStays
<1>6. Placed(A, d.rows) /\ Placed(B, d.rows) /\ Placed(C, e.rows)
  BY <1>1, ChildrenPlaced
<1>7. /\ q \in Seq(A) /\ Len(q) = Cardinality(A) /\ IsListing(q, A, d.rows)
  BY <1>1, CompoundLists
<1>8. /\ Len(p) = Cardinality(B) /\ IsListing(p, B, d.rows)
      /\ w \in Seq({s} \cup B) /\ Len(w) = 1 + Len(p) /\ w[1] = s
  BY <1>1, CompoundLists
<1>9. Behind(w, p)
  BY <1>1, CompoundItems
<1>10. \A c \in A : e.rows[c].ord = d.rows[c].ord /\ d.rows[c].ord < first
  BY <1>2 DEF Moved, Children
<1>11. \A c \in B : e.rows[c].ord = d.rows[c].ord + first /\ d.rows[c].ord > 0
  BY <1>1 DEF Moved, Children, RowsInv, Ordered
<1>12. e.rows[s].ord = first /\ first \in Nat
  BY DEF Moved
<1>13. IsListing(InOrder(e, r), C, e.rows)
  BY <1>6, InOrderLists
<1>14. Compound(e, r) = <<r>> \o InOrder(e, r) /\ Compound(d, r) = <<r>> \o q
  BY DEF Compound
<1> HIDE DEF A, B, C, q, p, w
<1>15. IsListing(q \o w, C, e.rows)
  BY <1>2, <1>4, <1>6, <1>7, <1>8, <1>9, <1>10, <1>11, <1>12, ListingsJoin
<1>16. InOrder(e, r) = q \o w
  BY <1>6, <1>13, <1>15, ListingIsUnique
<1>17. <<r>> \o (q \o w) = (<<r>> \o q) \o w
  <2> DEFINE U == {r, s} \cup A \cup B
  <2>1. <<r>> \in Seq(U) /\ q \in Seq(U) /\ w \in Seq(U)
    BY <1>7, <1>8
  <2> HIDE DEF U
  <2> QED
    BY <2>1, ConcatAssociative
<1> QED
  BY <1>3, <1>5, <1>14, <1>16, <1>17 DEF w, Joined

LEMMA AppendMoves ==
  ASSUME NEW d, NEW n, RowsInv(d.rows, n), NEW r \in Roots(d), NEW s \in Roots(d), r # s,
         NEW e, e.rows = AppendedRows(d, r, s)
  PROVE  Moved(d, e, r, s, NextOrder(d, r))
<1> DEFINE R == d.rows
           Q == e.rows
           first == NextOrder(d, r)
<1>1. first \in Nat /\ \A c \in Children(d, r) : d.rows[c].ord < first
  BY NextIsBeyond DEF RowsInv
<1>2. /\ r \in DOMAIN R /\ s \in DOMAIN R /\ R[r].root = NoId /\ R[s].root = NoId
      /\ \A t \in DOMAIN R : t # NoId /\ RowShape(R[t])
  BY ShelfHolds DEF Roots, IsRoot, RowsInv, Typed
<1>3. DOMAIN Q = DOMAIN R
  BY DEF AppendedRows
<1>4. Q[r].root = R[r].root /\ Q[r].ord = R[r].ord
  <2>1. Q[r] = Lengthened(d, r, s)
    BY <1>2 DEF AppendedRows
  <2> HIDE DEF Q, R
  <2> QED
    BY <2>1, <1>2 DEF Lengthened, RowShape, R
<1>5. Q[s].root = r /\ Q[s].ord = first
  <2>1. Q[s] = [R[s] EXCEPT !.root = r, !.ord = first]
    BY <1>2 DEF AppendedRows
  <2> HIDE DEF Q, R, first
  <2> QED
    BY <2>1, <1>1, <1>2 DEF RowShape
<1>6. ASSUME NEW c \in Children(d, s) PROVE Q[c].root = r /\ Q[c].ord = R[c].ord + first
  <2>1. c \in DOMAIN R /\ R[c].root = s /\ c # r /\ c # s
    BY <1>2 DEF Children
  <2>2. Q[c] = [R[c] EXCEPT !.root = r, !.ord = @ + first]
    BY <2>1 DEF AppendedRows
  <2>3. RowShape(R[c])
    BY <2>1, <1>2
  <2> HIDE DEF Q, R, first
  <2> QED
    BY <2>2, <2>3, <1>1 DEF RowShape
<1>7. ASSUME NEW t \in DOMAIN R, t # s, t \notin Children(d, s)
      PROVE  Q[t].root = R[t].root /\ Q[t].ord = R[t].ord
  <2>1. CASE t = r
    BY <2>1, <1>4
  <2>2. CASE t # r
    <3>1. Q[t] = R[t]
      BY <2>2, <1>7 DEF AppendedRows, Children
    <3> HIDE DEF Q, R
    <3> QED
      BY <3>1
  <2> QED
    BY <2>1, <2>2
<1> QED
  BY <1>1, <1>3, <1>5, <1>6, <1>7 DEF Moved

LEMMA AppendIsJoin ==
  ASSUME IInv, NEW t, NEW s, AppendToTranscript(t, s)
  PROVE  \E k, m \in OnShelf(disk) : Shelf!Join(k, m)
<1> DEFINE r == RootOf(t)
           first == NextOrder(db, r)
           k == Compound(disk, r)
           m == Compound(disk, s)
<1>1. /\ t \in DOMAIN db.rows /\ s \in DOMAIN db.rows /\ s # r /\ db.rows[s].root = NoId
      /\ db' = Appended(db, r, s) /\ disk' = db' /\ nextId' = nextId
  BY DEF AppendToTranscript, Has, IsRoot, Commit
<1>2. r \in DOMAIN db.rows /\ db.rows[r].root = NoId
  BY <1>1 DEF IInv, RowsInv, Rooted, RootOf, IsRoot
<1>3. RowsInv(db.rows, nextId) /\ db.rows = disk.rows
  BY DEF IInv
<1>4. RowsInv(disk'.rows, nextId)
  BY <1>1, AppendStep DEF IInv
<1>5. disk'.rows = AppendedRows(db, r, s)
  BY <1>1 DEF IInv, DbShape, Appended
<1>6. r \in Roots(db) /\ s \in Roots(db)
  BY <1>1, <1>2 DEF Roots, IsRoot
<1> HIDE DEF r, first
<1>8. Moved(db, disk', r, s, first)
  BY <1>1, <1>3, <1>5, <1>6, AppendMoves DEF first
<1>9. Joined(db, disk', r, s)
  <2>1. r # s
    BY <1>1
  <2> QED
    BY <2>1, <1>3, <1>4, <1>6, <1>8, MovedJoins
<1>10. /\ Roots(db) = Roots(disk)
       /\ \A x : Compound(db, x) = Compound(disk, x)
  <2>1. \A x : Children(db, x) = Children(disk, x)
    BY <1>3 DEF Children
  <2>2. \A x : \A c \in Children(db, x) : db.rows[c].ord = disk.rows[c].ord
    BY <1>3
  <2>3. Roots(db) = Roots(disk)
    BY <1>3 DEF Roots, IsRoot
  <2> QED
    BY <2>1, <2>2, <2>3, CompoundStays
<1>11. \A x, y \in Roots(disk) : Compound(disk, x) = Compound(disk, y) => x = y
  BY <1>3, ShelfHolds
<1>12. k \in OnShelf(disk) /\ m \in OnShelf(disk) /\ k # m
  BY <1>1, <1>6, <1>10, <1>11 DEF OnShelf
<1>13. OnShelf(disk') = (OnShelf(disk) \ {k, m}) \cup {k \o m}
  <2>1. /\ Roots(disk') = Roots(disk) \ {s} /\ Compound(disk', r) = k \o m
        /\ r \in Roots(disk) /\ s \in Roots(disk) /\ r # s
        /\ \A x \in Roots(disk) \ {r, s} : Compound(disk', x) = Compound(disk, x)
    BY <1>1, <1>6, <1>9, <1>10 DEF Joined
  <2>2. OnShelf(disk') \subseteq (OnShelf(disk) \ {k, m}) \cup {k \o m}
    <3> SUFFICES ASSUME NEW x \in Roots(disk')
                 PROVE  Compound(disk', x) \in (OnShelf(disk) \ {k, m}) \cup {k \o m}
      BY DEF OnShelf
    <3>1. CASE x = r
      BY <3>1, <2>1
    <3>2. CASE x # r
      <4>1. x \in Roots(disk) \ {r, s} /\ Compound(disk', x) = Compound(disk, x)
        BY <3>2, <2>1
      <4>2. Compound(disk, x) # k /\ Compound(disk, x) # m /\ Compound(disk, x) \in OnShelf(disk)
        BY <4>1, <2>1, <1>11 DEF OnShelf
      <4> QED
        BY <4>1, <4>2
    <3> QED
      BY <3>1, <3>2
  <2>3. k \o m \in OnShelf(disk')
    BY <2>1 DEF OnShelf
  <2>4. OnShelf(disk) \ {k, m} \subseteq OnShelf(disk')
    <3> SUFFICES ASSUME NEW x \in Roots(disk), Compound(disk, x) # k, Compound(disk, x) # m
                 PROVE  Compound(disk, x) \in OnShelf(disk')
      BY DEF OnShelf
    <3>1. x \in Roots(disk) \ {r, s} /\ x \in Roots(disk')
      BY <2>1
    <3> QED
      BY <3>1, <2>1 DEF OnShelf
  <2> HIDE DEF k, m
  <2> QED
    BY <2>2, <2>3, <2>4
<1>14. Deleted' = Deleted
  BY <1>1, <1>3, <1>8 DEF Deleted, Moved
<1> HIDE DEF k, m
<1>15. Shelf!Join(k, m)
  BY <1>12, <1>13, <1>14 DEF Shelf!Join, OnShelf
<1> QED
  BY <1>12, <1>15

\* Rewording, tags and failures leave the shelf as it is.
LEMMA ShelfUntouched ==
  ASSUME DOMAIN disk'.rows = DOMAIN disk.rows, nextId' = nextId,
         \A t \in DOMAIN disk.rows :
           disk'.rows[t].root = disk.rows[t].root /\ disk'.rows[t].ord = disk.rows[t].ord
  PROVE  UNCHANGED <<OnShelf(disk), Deleted>>
<1>1. OnShelf(disk') = OnShelf(disk)
  BY ShelfStays
<1>2. Deleted' = Deleted
  BY DEF Deleted
<1>3. OnShelf(disk)' = OnShelf(disk')
  BY DEF OnShelf, Compound, InOrder, Roots, IsRoot, Children
<1> QED
  BY <1>1, <1>2, <1>3

LEMMA RewordIsNothing ==
  ASSUME IInv, NEW t, CommitEdits(t) \/ Retranscribe(t) \/ RevertToRaw(t)
  PROVE  UNCHANGED <<OnShelf(disk), Deleted>>
<1>1. PICK text : db' = [db EXCEPT !.rows[t].norm = text]
  BY DEF CommitEdits, Retranscribe, RevertToRaw, Commit, UpdateNormalizedText
<1>2. t \in DOMAIN db.rows /\ disk' = db' /\ nextId' = nextId
  BY DEF CommitEdits, Retranscribe, RevertToRaw, Commit, Has
<1>3. disk'.rows = [db.rows EXCEPT ![t].norm = text] /\ db.rows = disk.rows
  BY <1>1, <1>2 DEF IInv, DbShape
<1>4. RowShape(disk.rows[t])
  BY <1>2 DEF IInv, RowsInv, Typed
<1>5. DOMAIN disk'.rows = DOMAIN disk.rows
  BY <1>3
<1>6. disk'.rows[t].root = disk.rows[t].root /\ disk'.rows[t].ord = disk.rows[t].ord
  BY <1>2, <1>3, <1>4 DEF RowShape
<1>7. \A u \in DOMAIN disk.rows \ {t} : disk'.rows[u] = disk.rows[u]
  BY <1>3
<1> QED
  BY <1>2, <1>5, <1>6, <1>7, ShelfUntouched

LEMMA ShelfBegins == Init => Shelf!Init
<1> SUFFICES ASSUME Init PROVE Shelf!Init
  OBVIOUS
<1>1. IInv
  BY InitInv
<1>2. disk.rows = [t \in Seeded |-> NewRow(t, t)] /\ nextId = Cardinality(Seeded) + 1
  BY DEF Init
<1>3. RowsInv(disk.rows, nextId)
  BY <1>1 DEF IInv
<1>4. Roots(disk) = Seeded
  BY <1>2 DEF Roots, IsRoot, NewRow
<1>5. ASSUME NEW t \in Seeded PROVE Compound(disk, t) = <<t>>
  <2> DEFINE s == Compound(disk, t)
             q == InOrder(disk, t)
  <2>1. t # NoId
    BY <1>3, <1>4, ShelfHolds DEF Roots
  <2>2. Children(disk, t) = {}
    BY <1>2, <2>1 DEF Children, NewRow
  <2>3. /\ Len(q) = Cardinality(Children(disk, t)) /\ Len(s) = 1 + Len(q)
        /\ s \in Seq({t} \cup Children(disk, t)) /\ s[1] = t
    BY <1>3, <2>1, CompoundLists
  <2> HIDE DEF s, q
  <2>4. Len(s) = 1 /\ s \in Seq({t}) /\ s[1] = t
    BY <2>2, <2>3, FS_EmptySet
  <2>5. s = <<t>>
    BY <2>4
  <2> QED
    BY <2>5 DEF s
<1>6. Deleted = {}
  <2>1. PICK n \in 0..MaxId : Seeded = 1..n
    BY LibraryAssumption
  <2>2. n \in Nat /\ Cardinality(Seeded) = n
    <3>1. n \in Int /\ n >= 0
      BY LibraryAssumption
    <3>2. Cardinality(1..n) = n
      BY <3>1, FS_Interval
    <3> QED
      BY <2>1, <3>1, <3>2
  <2>3. nextId - 1 = n
    BY <1>2, <2>2
  <2> QED
    BY <1>2, <2>1, <2>3 DEF Deleted
<1>7. OnShelf(disk) = {<<t>> : t \in Seeded}
  BY <1>4, <1>5 DEF OnShelf
<1> QED
  BY <1>6, <1>7 DEF Shelf!Init, OnShelf

LEMMA ShelfSteps ==
  IInv /\ [Next]_vars => [Shelf!Next]_<<OnShelf(disk), Deleted>>
<1> SUFFICES ASSUME IInv, [Next]_vars
             PROVE  Shelf!Next \/ UNCHANGED <<OnShelf(disk), Deleted>>
  OBVIOUS
<1>1. CASE UNCHANGED vars
  BY <1>1, ShelfUntouched DEF vars
<1>2. ASSUME NEW now, AddTranscript(now) PROVE Shelf!Next
  BY <1>2, AddIsRecord DEF Shelf!Next, AddTranscript
<1>3. ASSUME NEW t, CommitEdits(t) \/ Retranscribe(t) \/ RevertToRaw(t)
      PROVE  UNCHANGED <<OnShelf(disk), Deleted>>
  BY <1>3, RewordIsNothing
<1>4. ASSUME NEW t, DeleteTranscript(t) PROVE Shelf!Next
  <2>1. {t} \in SUBSET Roots(db) /\ DeleteRows({t})
    BY <1>4 DEF DeleteTranscript, Deletable, Has, Roots
  <2> QED
    BY <2>1, DeleteIsDiscard DEF Shelf!Next
<1>5. ASSUME NEW S, BatchDeleteTranscripts(S) PROVE Shelf!Next
  <2> DEFINE T == {t \in S : Deletable(t)}
  <2>1. T \in SUBSET Roots(db) /\ DeleteRows(T)
    BY <1>5 DEF BatchDeleteTranscripts, Deletable, Has, Roots
  <2> HIDE DEF T
  <2> QED
    BY <2>1, DeleteIsDiscard DEF Shelf!Next
<1>6. ASSUME ClearAllTranscripts PROVE Shelf!Next
  BY <1>6, ClearIsClear DEF Shelf!Next
<1>7. ASSUME NEW t, NEW s, AppendToTranscript(t, s) PROVE Shelf!Next
  BY <1>7, AppendIsJoin DEF Shelf!Next
<1>8. ASSUME RowsAlone PROVE UNCHANGED <<OnShelf(disk), Deleted>>
  BY <1>8, ShelfUntouched DEF RowsAlone, IInv
<1> QED
  BY <1>1, <1>2, <1>3, <1>4, <1>5, <1>6, <1>7, <1>8, TagSteps DEF Next

\* What happens to the rows is what Compounds allows to happen to the shelf.
THEOREM LibraryImplementsCompounds == Spec => ImplementsCompounds
<1> QED
  BY ShelfBegins, ShelfSteps, Invariance, PTL DEF Spec, ImplementsCompounds, Shelf!Spec
=================================================================================
