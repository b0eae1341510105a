----------------------------- MODULE MCSignals -----------------------------
(* Instances of Signals: what the program does and which signals it gets.  *)
EXTENDS Signals

Does(handler, mask, flags) == [sa_handler |-> handler, sa_mask |-> mask, sa_flags |-> flags]
Default == Does("SIG_DFL", {}, {})
Catches(sig, mask) == Does("catch", mask \cup {sig}, {})

Plain == [calls |-> {}, nested |-> {}, masks |-> {}, waits |-> {}, changes |-> {}, posts |-> {},
          actions |-> [s \in Sig |-> Default]]

(* A program that blocks a signal and waits for it, as sigsuspend is meant *)
(* to be used; it can be killed, stopped and continued.                    *)
Suspends == [Plain EXCEPT !.calls = {"sigsuspend", "pause"}, !.masks = {{}, Sig}, !.waits = {{}, {SIGUSR1}},
                          !.posts = {SIGUSR1, SIGTSTP, SIGCONT, SIGKILL},
                          !.actions[SIGUSR1] = Catches(SIGUSR1, {})]

(* Handlers that wait themselves, and interrupt each other.                *)
Nests == [Plain EXCEPT !.calls = {"sigsuspend", "read"}, !.nested = {"sigsuspend"},
                       !.masks = {{SIGUSR1}}, !.waits = {{SIGUSR1}, {SIGCHLD}},
                       !.posts = {SIGUSR1, SIGCHLD},
                       !.actions[SIGUSR1] = Catches(SIGUSR1, {}),
                       !.actions[SIGCHLD] = Catches(SIGCHLD, {SIGUSR1})]

(* A job: reads its terminal in the background, waits for its children.    *)
Job == [Plain EXCEPT !.calls = {"read", "tty", "waitpid"}, !.masks = {{}, {SIGCHLD}},
                     !.posts = {SIGCHLD, SIGTSTP, SIGCONT},
                     !.actions[SIGCHLD] = Catches(SIGCHLD, {}),
                     !.actions[SIGCONT] = Catches(SIGCONT, {SIGCHLD})]

(* Actions change: handlers of System V, that are gone after one signal,   *)
(* ignored signals, and stops with a handler that lets calls fail.         *)
Changes == [Plain EXCEPT !.calls = {"read", "waitpid"},
                         !.posts = {SIGUSR1, SIGTSTP, SIGKILL},
                         !.changes = {<<SIGUSR1, Does("catch", {SIGTSTP}, {"SA_ONESHOT", "SA_NOMASK"})>>,
                                      <<SIGUSR1, Does("SIG_IGN", {}, {})>>,
                                      <<SIGTSTP, Does("catch", {}, {"SA_INTERRUPT"})>>,
                                      <<SIGTSTP, Does("catch", {SIGUSR1}, {})>>}]

MCSetups == {Suspends, Nests, Job, Changes}

ASSUME \A s \in MCSetups : Careful(s)

(* The program ignores SIGCONT.                                            *)
Ignores == {[Suspends EXCEPT !.actions[SIGCONT] = Does("SIG_IGN", {}, {})]}

(* A handler's sa_mask is everything.                                      *)
Filled == {[Suspends EXCEPT !.actions[SIGUSR1] = Catches(SIGUSR1, Sig)]}
=============================================================================
