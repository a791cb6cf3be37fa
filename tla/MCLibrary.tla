------------------------------- MODULE MCLibrary -------------------------------
(***************************************************************************)
(* The library of transcripts, and the runtime of the model that writes    *)
(* their titles and refines them: part says which of the two a behaviour   *)
(* is of, and the other stays as it began. They share no state.            *)
(***************************************************************************)
EXTENDS Library

CONSTANTS Runtimes, Refiners, Generators, NoRuntime, NoOne, LockTimeouts, EarlyRequests

VARIABLES part, current, state, engine, holder, loader, cpc, mine, prev, restart

Slm == INSTANCE SLMRuntime

ASSUME ModelAssumption == Slm!RuntimeAssumption

slmVars == <<current, state, engine, holder, loader, cpc, mine, prev, restart>>
bothVars == <<part, vars, slmVars>>

BothInit ==
  /\ part \in {"library", "slm"}
  /\ Init
  /\ Slm!Init /\ (part = "slm" \/ current = CHOOSE r \in Runtimes : TRUE)

BothNext ==
  \/ part = "library" /\ Next /\ UNCHANGED <<part, slmVars>>
  \/ part = "slm" /\ Slm!Next /\ UNCHANGED <<part, vars>>

\* The fairness is that of SLMRuntime.
BothSpec ==
  /\ BothInit /\ [][BothNext]_bothVars
  /\ WF_bothVars(part = "slm" /\ Slm!RestartStep /\ UNCHANGED <<part, vars>>)
  /\ \A c \in Slm!Clients :
       WF_bothVars(part = "slm" /\ Slm!ClientStep(c) /\ UNCHANGED <<part, vars>>)
  /\ \A r \in Runtimes :
       WF_bothVars(part = "slm" /\ Slm!LoaderStep(r) /\ UNCHANGED <<part, vars>>)

-----------------------------------------------------------------------------
(* Properties: those of Library, and those of SLMRuntime, stated and       *)
(* explained there.                                                        *)

\* An inference keeps its engine, and has it alone.
InferenceHasEngine == Slm!TypeOK /\ Slm!InferenceHasEngine

\* Outside a restart, a current runtime that says it is ready has an engine.
ReadyMeansLoaded == Slm!ReadyMeansLoaded

\* Every request to the model ends.
RequestsEnd == Slm!RequestsEnd

\* A restart of the model's engine ends.
RestartEnds == Slm!RestartEnds
===============================================================================
