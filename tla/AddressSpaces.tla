---------------------------- MODULE AddressSpaces ----------------------------
(***************************************************************************)
(* What memory management promises to user programs: every task has a      *)
(* memory of its own, which starts as its executable says, is copied by    *)
(* fork, and changes by the task's own writes only.                        *)
(***************************************************************************)
CONSTANTS Task,
          Prog,       \* the executables
          NoProg,
          VPage,      \* the pages of an address space
          Image(_)    \* Image(p): a memory right after exec of p

VARIABLES runs,  \* the executable of each task, NoProg for a task that is not there
          mem    \* the contents of its memory: a task writes its own name

avars == <<runs, mem>>

Nothing == [v \in VPage |-> NoProg]
Fresh(p) == IF p = NoProg THEN Nothing ELSE Image(p)

AInit ==
    /\ runs \in [Task -> Prog \cup {NoProg}]
    /\ \A t \in Task : runs[t] = NoProg => mem[t] = Nothing

AWrite(t, v) ==
    /\ runs[t] # NoProg
    /\ mem' = [mem EXCEPT ![t][v] = t]
    /\ UNCHANGED runs

AFork(t, c) ==
    /\ runs[t] # NoProg /\ runs[c] = NoProg
    /\ runs' = [runs EXCEPT ![c] = runs[t]]
    /\ mem' = [mem EXCEPT ![c] = mem[t]]

(* An exec of p; the end of the task, for NoProg. *)
AExec(t, p) ==
    /\ runs[t] # NoProg
    /\ runs' = [runs EXCEPT ![t] = p]
    /\ mem' = [mem EXCEPT ![t] = Fresh(p)]

ANext == \E t \in Task :
            \/ \E v \in VPage : AWrite(t, v)
            \/ \E c \in Task : AFork(t, c)
            \/ \E p \in Prog \cup {NoProg} : AExec(t, p)

ASpec == AInit /\ [][ANext]_avars
=============================================================================
