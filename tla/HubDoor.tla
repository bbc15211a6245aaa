------------------------------ MODULE HubDoor -------------------------------
(***************************************************************************)
(* What the account hub promises about who is signed in where.              *)
(*                                                                          *)
(* A browser begins a login and somebody completes it.  A completed login   *)
(* can be taken up once, by a browser that has begun a login itself, and    *)
(* lets that browser in, once, as the user who completed it.  As a rule the *)
(* two logins are one: a browser takes up what it began.  The hub does not  *)
(* see to that: it asks for a state of the browser and for a code, not for  *)
(* the two to belong together.  Who has left gets in again with another     *)
(* login only.                                                              *)
(***************************************************************************)
CONSTANTS Browser, User, Login, None

VARIABLES
  logins,     \* [Login -> None or what has become of it]
  signedIn    \* whom each browser is signed in as: [Browser -> User or None]

vars == <<logins, signedIn>>

Init ==
  /\ logins = [l \in Login |-> None]
  /\ signedIn = [b \in Browser |-> None]

Begin(l, b) ==
  /\ logins[l] = None
  /\ logins' = [logins EXCEPT ![l] =
       [browser |-> b, user |-> None, with |-> None, st |-> "begun"]]
  /\ UNCHANGED signedIn

Complete(l, u) ==
  /\ logins[l] # None /\ logins[l].st = "begun"
  /\ logins' = [logins EXCEPT ![l].st = "completed", ![l].user = u]
  /\ UNCHANGED signedIn

\* The browser that began k takes up l; the hub may refuse it at once.
Take(l, k) ==
  /\ logins[l] # None /\ logins[l].st = "completed"
  /\ logins[k] # None
  /\ \E st \in {"taken", "used"} :
       logins' = [logins EXCEPT ![l].st = st, ![l].with = k]
  /\ UNCHANGED signedIn

\* The browser that took up l is let in, in place of whoever was signed in there;
\* what the login opens may be over by then.
Enter(l) ==
  /\ logins[l] # None /\ logins[l].st = "taken"
  /\ logins' = [logins EXCEPT ![l].st = "used"]
  /\ \E u \in {logins[l].user, None} :
       signedIn' = [signedIn EXCEPT ![logins[logins[l].with].browser] = u]

\* Logins that were taken up come to nothing, several at once in a crash.
Lose(lost) ==
  /\ \A l \in lost : logins[l] # None /\ logins[l].st = "taken"
  /\ logins' = [l \in Login |-> IF l \in lost THEN [logins[l] EXCEPT !.st = "used"]
                                              ELSE logins[l]]
  /\ UNCHANGED signedIn

\* One browser signs out, or is signed out.
Leave(b) ==
  /\ signedIn' = [signedIn EXCEPT ![b] = None]
  /\ UNCHANGED logins

Next ==
  \/ \E l \in Login, b \in Browser : Begin(l, b)
  \/ \E l \in Login, u \in User : Complete(l, u)
  \/ \E l, k \in Login : Take(l, k)
  \/ \E l \in Login : Enter(l)
  \/ \E lost \in SUBSET Login : Lose(lost)
  \/ \E b \in Browser : Leave(b)

Spec == Init /\ [][Next]_vars

=============================================================================
