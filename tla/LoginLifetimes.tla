--------------------------- MODULE LoginLifetimes ---------------------------
(***************************************************************************)
(* What the platform promises about a login: it can be used from its       *)
(* answer until its own logout or its end of life, whatever happens to     *)
(* other logins and however often the server restarts.  Until a logout has *)
(* answered, the login may come back: the server forgot, or a refresh was  *)
(* under way.  Once it has answered, never.                                *)
(***************************************************************************)
EXTENDS Naturals

CONSTANTS
  Logins,
  Life,   \* how long a login may last
  Never   \* when a login that was not opened was opened

VARIABLES
  now,
  opened,      \* when each login was opened
  waiting,     \* logins opened and not yet answered
  ending,      \* logins with a logout under way
  logged_out,  \* logins with an answered logout
  usable       \* logins with a token the server accepts

vars == <<now, opened, waiting, ending, logged_out, usable>>

Alive(login) == now < opened[login] + Life

Init ==
  /\ now = 0 /\ opened = [login \in Logins |-> Never]
  /\ waiting = {} /\ ending = {} /\ logged_out = {} /\ usable = {}

Open(login) ==
  /\ opened[login] = Never
  /\ opened' = [opened EXCEPT ![login] = now]
  /\ \/ usable' = usable \cup {login} /\ UNCHANGED waiting
     \/ waiting' = waiting \cup {login} /\ UNCHANGED usable
  /\ UNCHANGED <<now, ending, logged_out>>

\* The answer comes, perhaps when the token has expired.
Answer(login) ==
  /\ login \in waiting
  /\ waiting' = waiting \ {login}
  /\ \/ UNCHANGED usable
     \/ usable' = usable \cup {login} /\ Alive(login)
  /\ UNCHANGED <<now, opened, ending, logged_out>>

BeginLogout(login) ==
  /\ login \in usable
  /\ ending' = ending \cup {login}
  /\ usable' \in {usable, usable \ {login}}
  /\ UNCHANGED <<now, opened, waiting, logged_out>>

Lose(login) ==
  /\ login \in ending
  /\ usable' = usable \ {login}
  /\ UNCHANGED <<now, opened, waiting, ending, logged_out>>

Regain(login) ==
  /\ login \in ending \ logged_out
  /\ Alive(login)
  /\ usable' = usable \cup {login}
  /\ UNCHANGED <<now, opened, waiting, ending, logged_out>>

\* Another logout of the same login may still be under way.
EndLogout(login) ==
  /\ login \in ending \ usable
  /\ ending' \in {ending, ending \ {login}}
  /\ logged_out' = logged_out \cup {login}
  /\ UNCHANGED <<now, opened, waiting, usable>>

\* The server forgets what is under way, and may take back what no logout has answered.
Crash ==
  /\ waiting' = {} /\ ending' = {}
  /\ usable \subseteq usable'
  /\ usable' \subseteq usable \cup {login \in ending \ logged_out : Alive(login)}
  /\ UNCHANGED <<now, opened, logged_out>>

Tick ==
  /\ now' = now + 1
  /\ usable' \subseteq {login \in usable : Alive(login)'}
  /\ UNCHANGED <<opened, waiting, ending, logged_out>>

Next ==
  \/ \E login \in Logins :
       \/ Open(login) \/ Answer(login)
       \/ BeginLogout(login) \/ Lose(login) \/ Regain(login) \/ EndLogout(login)
  \/ Crash
  \/ Tick

Spec == Init /\ [][Next]_vars
=============================================================================
