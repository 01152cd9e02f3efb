--------------------------- MODULE RankingService ---------------------------
(***************************************************************************)
(* What the shared mode promises of one metric's rankings, without Redis:  *)
(* mutations happen one after the other, and a ranking request answers     *)
(* with one of the states between its start and its end.                   *)
(***************************************************************************)
EXTENDS Integers

CONSTANTS
    Boards,         \* leaderboards of the metric
    Contents,       \* what a board can hold
    EmptyContents,  \* what a board holds initially
    Readers,        \* concurrent requests
    None,           \* no board, no answer
    Answer(_)       \* the report on a board's contents

VARIABLES
    count,          \* number of mutations
    states,         \* the boards after each of them
    phase, asked, begun, answer     \* per request

vars == <<count, states, phase, asked, begun, answer>>

Init ==
    /\ count = 0
    /\ states = [i \in 0..0 |-> [b \in Boards |-> EmptyContents]]
    /\ phase = [r \in Readers |-> "idle"]
    /\ asked = [r \in Readers |-> None]
    /\ begun = [r \in Readers |-> 0]
    /\ answer = [r \in Readers |-> None]

Mutate ==
    /\ count' = count + 1
    /\ states' \in [0..(count + 1) -> [Boards -> Contents]]
    /\ \A i \in 0..count : states'[i] = states[i]
    /\ UNCHANGED <<phase, asked, begun, answer>>

Ask(r) ==
    /\ phase[r] = "idle"
    /\ phase' = [phase EXCEPT ![r] = "asked"]
    /\ \E b \in Boards : asked' = [asked EXCEPT ![r] = b]
    /\ begun' = [begun EXCEPT ![r] = count]
    /\ UNCHANGED <<count, states, answer>>

Respond(r) ==
    /\ phase[r] = "asked"
    /\ phase' = [phase EXCEPT ![r] = "answered"]
    /\ \E i \in begun[r]..count :
          answer' = [answer EXCEPT ![r] = Answer(states[i][asked[r]])]
    /\ UNCHANGED <<count, states, asked, begun>>

\* The answer is consumed, or the request is abandoned.
Leave(r) ==
    /\ phase[r] # "idle"
    /\ phase' = [phase EXCEPT ![r] = "idle"]
    /\ asked' = [asked EXCEPT ![r] = None]
    /\ begun' = [begun EXCEPT ![r] = 0]
    /\ answer' = [answer EXCEPT ![r] = None]
    /\ UNCHANGED <<count, states>>

Next == Mutate \/ \E r \in Readers : Ask(r) \/ Respond(r) \/ Leave(r)

Spec == Init /\ [][Next]_vars
=============================================================================
