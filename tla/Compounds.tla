------------------------------- MODULE Compounds -------------------------------
(***************************************************************************)
(* What the transcript library promises about what was said: it is a shelf *)
(* of compounds, each a sequence of transcripts in the order they were     *)
(* joined. Two compounds are joined end to end, a compound is thrown away  *)
(* as a whole, and clearing the library keeps what is protected. Rows,     *)
(* roots and order columns are invisible here.                             *)
(***************************************************************************)
EXTENDS Naturals, Sequences

CONSTANTS Transcripts, Protected

VARIABLES
  shelf,    \* the compounds there are
  gone      \* the transcripts that were thrown away

Members(s) == {s[i] : i \in 1..Len(s)}
All(S) == UNION {Members(s) : s \in S}

Init == shelf = {<<t>> : t \in Protected} /\ gone = {}

\* A new transcript is a compound of its own.
Record(t) ==
  /\ t \notin All(shelf) \cup gone
  /\ shelf' = shelf \cup {<<t>>}
  /\ UNCHANGED gone

\* The second compound becomes the end of the first.
Join(s, t) ==
  /\ s # t
  /\ shelf' = (shelf \ {s, t}) \cup {s \o t}
  /\ UNCHANGED gone

\* Whole compounds, with everything in them.
Discard(S) ==
  /\ shelf' = shelf \ S
  /\ gone' = gone \cup All(S)

\* What is protected of a compound, in its order.
IsRest(k, s) ==
  /\ Members(k) = Members(s) \cap Protected
  /\ \A i, j \in 1..Len(k) : i < j =>
       \E a, b \in 1..Len(s) : a < b /\ k[i] = s[a] /\ k[j] = s[b]

\* Everything that is not protected goes, and what is joined to it.
Clear ==
  LET staying == {s \in shelf : Head(s) \in Protected} IN
  /\ \A s \in staying : \E k \in shelf' : IsRest(k, s)
  /\ \A k \in shelf' : \E s \in staying : IsRest(k, s)
  /\ gone' = gone \cup (All(shelf) \ All(shelf'))

Next ==
  \/ \E t \in Transcripts : Record(t)
  \/ \E s, t \in shelf : Join(s, t)
  \/ \E S \in SUBSET shelf : Discard(S)
  \/ Clear

Spec == Init /\ [][Next]_<<shelf, gone>>
===============================================================================
