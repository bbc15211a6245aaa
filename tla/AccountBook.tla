---------------------------- MODULE AccountBook -----------------------------
(***************************************************************************)
(* What the accounts promise, without requests and without the stores they  *)
(* use: an account is opened for an address nobody has; links are issued    *)
(* for accounts; a link is taken at most once, and may then change the one  *)
(* account it was issued for once, in the way it was issued for.  Accounts   *)
(* implements this.                                                         *)
(*                                                                          *)
(* What a change may do to the rest of the row is deliberately loose: rows  *)
(* are written back whole from stale copies, so a reset may carry an old     *)
(* mark of verification.  It cannot make one up.                            *)
(***************************************************************************)
CONSTANTS UserId, Link, Address, Password, None

VARIABLES users, links

vars == <<users, links>>

Purpose == {"verify_email", "password_reset"}

Init ==
  /\ users = [u \in UserId |-> None]
  /\ links = [l \in Link |-> None]

\* Somebody took a verification link of this user; one that lapsed proves nothing.
Proved(u) ==
  \E l \in Link : /\ links[l] # None
                  /\ links[l].st \in {"taken", "spent"}
                  /\ links[l].purpose = "verify_email" /\ links[l].user = u

Open ==
  /\ \E u \in UserId, a \in Address, p \in Password :
       /\ users[u] = None
       /\ \A v \in UserId : users[v] # None => users[v].email # a
       /\ users' = [users EXCEPT ![u] = [email |-> a, verified |-> FALSE, hash |-> p]]
  /\ UNCHANGED links

Issue(l) ==
  /\ links[l] = None
  /\ \E u \in UserId, p \in Purpose :
       /\ users[u] # None
       /\ links' = [links EXCEPT ![l] = [st |-> "valid", purpose |-> p, user |-> u]]
  /\ UNCHANGED users

Take(l) ==
  /\ links[l] # None /\ links[l].st = "valid"
  /\ links' = [links EXCEPT ![l].st = "taken"]
  /\ UNCHANGED users

\* A link that was taken has its effect.
Change(l) ==
  LET u == links[l].user IN
  /\ links[l] # None /\ links[l].st = "taken"
  /\ links' = [links EXCEPT ![l].st = "spent"]
  /\ \E verified \in BOOLEAN, p \in Password :
       /\ links[l].purpose = "verify_email" => verified
       /\ verified => Proved(u)
       /\ users' = [users EXCEPT ![u].verified = verified, ![u].hash = p]

\* A valid link runs out; or what took links fails, several at once in a crash,
\* and they are used up for nothing.
Lapse(l) ==
  /\ links[l] # None /\ links[l].st = "valid"
  /\ links' = [links EXCEPT ![l].st = "lapsed"]
  /\ UNCHANGED users

Waste ==
  /\ \E S \in SUBSET Link :
       /\ \A l \in S : links[l] # None /\ links[l].st = "taken"
       /\ links' = [l \in Link |-> IF l \in S THEN [links[l] EXCEPT !.st = "spent"]
                                              ELSE links[l]]
  /\ UNCHANGED users

Next ==
  \/ Open \/ Waste
  \/ \E l \in Link : Issue(l) \/ Take(l) \/ Change(l) \/ Lapse(l)

Spec == Init /\ [][Next]_vars
=============================================================================
