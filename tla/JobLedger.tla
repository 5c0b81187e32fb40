------------------------------ MODULE JobLedger ------------------------------
(***************************************************************************)
(* What the server promises of its jobs, whatever happens to messages and  *)
(* workers: in each stage the job of a file is with one worker, or in the  *)
(* pool of jobs to hand out, or done; only a worker that has it can get it *)
(* done; and a stage is over when every job of it is.                      *)
(***************************************************************************)
CONSTANTS Files, Workers

VARIABLES
  stage,
  holder              \* where the stage's job of each file is

ledgerVars == <<stage, holder>>

Place == Workers \cup {"pool", "done"}

LedgerTypeOK ==
  /\ stage \in {"histograms", "equalisation", "finished"}
  /\ holder \in [Files -> Place]

HeldBy(place) == {f \in Files : holder[f] = place}

\* The files fs go to place, the others stay where they are.
Move(fs, place) ==
  holder' = [f \in Files |-> IF f \in fs THEN place ELSE holder[f]]

LedgerInit ==
  /\ stage = "histograms"
  /\ holder = [f \in Files |-> "pool"]

Assign(w, fs) ==
  /\ stage # "finished"
  /\ fs \subseteq HeldBy("pool")
  /\ Move(fs, w)
  /\ UNCHANGED stage

\* w gets the job of f done, and is given those of fs at once.
Complete(w, f, fs) ==
  /\ stage # "finished"
  /\ holder[f] = w
  /\ fs \subseteq HeldBy("pool")
  /\ holder' = [g \in Files |-> IF g = f THEN "done"
                                ELSE IF g \in fs THEN w ELSE holder[g]]
  /\ UNCHANGED stage

\* Workers given up lose their jobs, in the equalisation stage only.
Release(ws) ==
  /\ stage = "equalisation"
  /\ Move({f \in Files : holder[f] \in ws}, "pool")
  /\ UNCHANGED stage

AllDone == HeldBy("done") = Files

StartEqualisation ==
  /\ stage = "histograms"
  /\ AllDone
  /\ stage' = "equalisation"
  /\ Move(Files, "pool")

Finish ==
  /\ stage = "equalisation"
  /\ AllDone
  /\ stage' = "finished"
  /\ UNCHANGED holder

LedgerNext ==
  \/ \E w \in Workers, fs \in SUBSET Files : Assign(w, fs)
  \/ \E w \in Workers, f \in Files, fs \in SUBSET Files : Complete(w, f, fs)
  \/ \E ws \in SUBSET Workers : Release(ws)
  \/ StartEqualisation
  \/ Finish

LedgerSpec == LedgerInit /\ [][LedgerNext]_ledgerVars
=============================================================================
