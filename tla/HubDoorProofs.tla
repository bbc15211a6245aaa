--------------------------- MODULE HubDoorProofs ----------------------------
(***************************************************************************)
(* HubAuth implements HubDoor, for any browsers, users, flows, session ids  *)
(* and requests: every step of the hub either shows nothing, or is one step *)
(* of the door.                                                             *)
(*                                                                          *)
(* The exchange of the code makes the callback the only carrier of that     *)
(* login; the answer of that callback brings the session of that login into *)
(* the browser whose state came with the code, and nothing else brings one. *)
(***************************************************************************)
EXTENDS HubAuthProofs

\* The callback has exchanged the code of its login and is not answered yet.
Carries(r) == req[r].op = "callback" /\ req[r].pc \in {"create", "reply"}

CarrierInv(r) ==
  Carries(r) =>
    /\ TakenBy(req[r].browser, req[r].code)
    /\ req[r].pc = "reply" => sessions[req[r].id].flow = req[r].code

\* Two callbacks under way never carry the same login.
CarriersApart ==
  \A r, s \in Request :
    Carries(r) /\ Carries(s) /\ r # s => req[r].code # req[s].code

DoorInv == IInv /\ (\A r \in Request : CarrierInv(r)) /\ CarriersApart

-----------------------------------------------------------------------------
(* The invariant.                                                           *)

\* A carrier that does not move keeps its login and its session.
LEMMA CarrierIsStable ==
  ASSUME DoorInv, Grown, NEW r \in Request, req'[r] = req[r]
  PROVE  CarrierInv(r)'
<1> SUFFICES ASSUME Carries(r)
             PROVE  /\ TakenBy(req[r].browser, req[r].code)'
                    /\ req[r].pc = "reply" => sessions'[req[r].id].flow = req[r].code
  BY DEF CarrierInv, Carries, TakenBy, OwnFlow
<1>1. CarrierInv(r) /\ RequestInv(r)
  BY DEF DoorInv, IInv
<1>2. req[r].pc = "reply" => req[r].id \in HubId /\ sessions[req[r].id] # None
  BY <1>1 DEF RequestInv, At, Carries, OwnSession
<1>3. TakenBy(req[r].browser, req[r].code)'
  BY <1>1 DEF CarrierInv, TakenBy, OwnFlow, Grown
<1> QED
  BY <1>1, <1>2, <1>3 DEF CarrierInv, Grown

LEMMA CarriersKept ==
  ASSUME DoorInv, Grown, IInv', \A s \in Request : Carries(s)' => req'[s] = req[s]
  PROVE  DoorInv'
<1>1. \A s \in Request : CarrierInv(s)'
  BY CarrierIsStable DEF CarrierInv
<1>2. CarriersApart'
  BY DEF DoorInv, CarriersApart, Carries
<1> QED
  BY <1>1, <1>2 DEF DoorInv

\* One callback moves on to, or as, a carrier.
LEMMA CarrierMoves ==
  ASSUME DoorInv, Grown, IInv', NEW r \in Request, CarrierInv(r)',
         \A s \in Request \ {r} : req'[s] = req[s],
         \A s \in Request \ {r} : Carries(s) => req[s].code # req'[r].code
  PROVE  DoorInv'
<1>1. \A s \in Request : CarrierInv(s)'
  BY CarrierIsStable
<1>2. CarriersApart'
  BY DEF DoorInv, CarriersApart, Carries
<1> QED
  BY <1>1, <1>2 DEF DoorInv

\* The code of a login that is carried is spent, so nobody else exchanges it.
LEMMA ExchangeCarries ==
  ASSUME DoorInv, Grown, IInv', NEW r \in Request, Exchange(r)
  PROVE  DoorInv'
<1> PICK c : c = req[r].code
  OBVIOUS
<1>1. req[r].pc = "exchange" /\ req[r] \in ReqState /\ RequestInv(r)
  BY DEF Exchange, DoorInv, IInv, TypeOK
<1>2. req[r].op = "callback"
  BY <1>1 DEF RequestInv
<1>3. ASSUME NEW res, Answer(r, res) PROVE DoorInv'
  <2>1. \A s \in Request : Carries(s)' => req'[s] = req[s]
    BY <1>3 DEF Answer, Blank, Carries, DoorInv, IInv, TypeOK
  <2> QED
    BY <2>1, CarriersKept
<1>4. ASSUME NEW u, flows[c].st = "code",
             req' = [req EXCEPT ![r].pc = "create", ![r].user = u]
      PROVE  DoorInv'
  <2>1. /\ req'[r].pc = "create" /\ req'[r].op = "callback" /\ req'[r].code = c
        /\ \A s \in Request \ {r} : req'[s] = req[s]
    BY <1>1, <1>2, <1>4 DEF DoorInv, IInv, TypeOK, ReqState
  <2>2. CarrierInv(r)'
    BY <2>1 DEF CarrierInv, Carries, IInv, RequestInv
  <2>3. \A s \in Request \ {r} : Carries(s) => req[s].code # c
    BY <1>4 DEF DoorInv, CarrierInv, TakenBy
  <2> QED
    BY <2>1, <2>2, <2>3, CarrierMoves
<1> QED
  BY <1>3, <1>4 DEF Exchange

LEMMA CreateCarries ==
  ASSUME DoorInv, Grown, IInv', NEW r \in Request, Create(r)
  PROVE  DoorInv'
<1> PICK f : f = req[r].code
  OBVIOUS
<1>1. PICK h \in HubId :
        /\ sessions' = [sessions EXCEPT ![h] = [subject |-> req[r].user, flow |-> f]]
        /\ req' = [req EXCEPT ![r].pc = "reply", ![r].id = h, ![r].user = None]
        /\ req[r].pc = "create" /\ UNCHANGED flows
  BY DEF Create
<1>2. req[r] \in ReqState /\ RequestInv(r) /\ CarrierInv(r)
  BY DEF DoorInv, IInv, TypeOK
<1>3. Carries(r)
  BY <1>1, <1>2 DEF RequestInv, Carries
<1>4. /\ req'[r].pc = "reply" /\ req'[r].op = "callback" /\ req'[r].code = f
      /\ req'[r].browser = req[r].browser /\ req'[r].id = h
      /\ \A s \in Request \ {r} : req'[s] = req[s]
  BY <1>1, <1>2, <1>3 DEF DoorInv, IInv, TypeOK, ReqState, Carries
<1>5. sessions'[h].flow = f
  BY <1>1 DEF DoorInv, IInv, TypeOK
<1>6. CarrierInv(r)'
  BY <1>1, <1>2, <1>3, <1>4, <1>5 DEF CarrierInv, Carries, TakenBy, OwnFlow
<1>7. \A s \in Request \ {r} : Carries(s) => req[s].code # f
  BY <1>3 DEF DoorInv, CarriersApart
<1> QED
  BY <1>4, <1>6, <1>7, CarrierMoves

\* No other step makes a carrier.
LEMMA OthersCarryNothing ==
  ASSUME DoorInv, NEW r \in Request,
         Begin(r) \/ Delete(r) \/ Guard(r) \/ Deliver(r) \/ Abort(r)
  PROVE  \A s \in Request : Carries(s)' => req'[s] = req[s]
<1> USE DEF Carries, Blank
<1> req \in [Request -> ReqState]
  BY DEF DoorInv, IInv, TypeOK
<1>1. CASE Begin(r)
  <2> PICK b \in Browser :
        \/ BeginLogin(r, b) \/ BeginLogout(r, b) \/ BeginPage(r, b)
        \/ \E f \in States, c \in Codes : BeginCallback(r, b, f, c)
    BY <1>1 DEF Begin
  <2>1. CASE BeginLogin(r, b)
    BY <2>1 DEF BeginLogin
  <2>2. CASE BeginLogout(r, b)
    BY <2>2 DEF BeginLogout
  <2>3. CASE BeginPage(r, b)
    BY <2>3 DEF BeginPage
  <2>4. CASE \E f \in States, c \in Codes : BeginCallback(r, b, f, c)
    BY <2>4 DEF BeginCallback
  <2> QED
    BY <2>1, <2>2, <2>3, <2>4
<1>2. CASE Delete(r)
  <2>1. req[r].op = "logout"
    BY <1>2 DEF Delete, DoorInv, IInv, RequestInv
  <2> QED
    BY <1>2, <2>1 DEF Delete, Goto, ReqState
<1>3. CASE Guard(r)
  <2>1. req[r].op = "page"
    BY <1>3 DEF Guard, DoorInv, IInv, RequestInv
  <2> QED
    BY <1>3, <2>1 DEF Guard, Answer, ReqState
<1>4. CASE Deliver(r)
  BY <1>4 DEF Deliver
<1>5. CASE Abort(r)
  BY <1>5 DEF Abort, Answer
<1> QED
  BY <1>1, <1>2, <1>3, <1>4, <1>5

LEMMA DoorInvNext == DoorInv /\ [Next]_vars => DoorInv'
<1> SUFFICES ASSUME DoorInv, [Next]_vars PROVE DoorInv'
  OBVIOUS
<1>1. Grown /\ IInv'
  BY NextInv DEF DoorInv
<1>2. ASSUME NEW r \in Request, Exchange(r) \/ Create(r) PROVE DoorInv'
  BY <1>1, <1>2, ExchangeCarries, CreateCarries
<1>3. ASSUME NEW r \in Request,
             Begin(r) \/ Delete(r) \/ Guard(r) \/ Deliver(r) \/ Abort(r)
      PROVE  DoorInv'
  BY <1>1, <1>3, OthersCarryNothing, CarriersKept
<1>4. CASE Crash
  BY <1>1, <1>4, CarriersKept DEF Crash, Carries, Blank
<1>5. CASE UNCHANGED req
  BY <1>1, <1>5, CarriersKept
<1> QED
  BY <1>2, <1>3, <1>4, <1>5 DEF Next, Step, vars, SignIn, Expire, Forget

LEMMA DoorInvInit == Init => DoorInv
  BY InitInv DEF Init, DoorInv, CarrierInv, CarriersApart, Carries, Blank

-----------------------------------------------------------------------------
(* What the door shows, and its steps in these terms.                       *)

LEMMA LoginShape ==
  ASSUME IInv, NEW f \in Flow, flows[f].st # "none"
  PROVE  /\ LoginOf(f) = [browser |-> flows[f].browser, user |-> flows[f].user,
                          with |-> flows[f].with, st |-> Stage(f)]
         /\ LoginOf(f) # None
         /\ flows[f].browser \in Browser
<1>1. flows[f] \in FlowRec /\ flows[f].browser \in Browser
  BY DEF IInv, TypeOK, FlowInv
<1>2. Stage(f) \in {"begun", "completed", "taken", "used"}
  BY DEF Stage
<1>3. LoginOf(f) \in Seen
  BY <1>1, <1>2 DEF LoginOf, Seen, FlowRec
<1> QED
  BY <1>1, <1>3, SeenAssumption DEF LoginOf

LEMMA BeginStep ==
  ASSUME NEW f \in Flow, NEW b \in Browser, LoginOf(f) = None,
         LoginOf(f)' = [browser |-> b, user |-> None, with |-> None, st |-> "begun"],
         \A g \in Flow \ {f} : LoginOf(g)' = LoginOf(g),
         \A c \in Browser : GuestOf(c)' = GuestOf(c)
  PROVE  Door!Next
<1>1. Door!Begin(f, b)
  BY DEF Door!Begin
<1> QED
  BY <1>1 DEF Door!Next

LEMMA CompleteStep ==
  ASSUME NEW f \in Flow, NEW u \in User, LoginOf(f) # None,
         NEW b, NEW v, NEW w,
         LoginOf(f) = [browser |-> b, user |-> v, with |-> w, st |-> "begun"],
         LoginOf(f)' = [browser |-> b, user |-> u, with |-> w, st |-> "completed"],
         \A g \in Flow \ {f} : LoginOf(g)' = LoginOf(g),
         \A c \in Browser : GuestOf(c)' = GuestOf(c)
  PROVE  Door!Next
<1> DEFINE logins == [g \in Flow |-> LoginOf(g)]
<1>1. logins' = [logins EXCEPT ![f].st = "completed", ![f].user = u]
  <2> PICK old, new : old = logins /\ new = logins'
    OBVIOUS
  <2>1. /\ old = [g \in Flow |-> old[g]] /\ new = [g \in Flow |-> new[g]]
        /\ old[f] = LoginOf(f) /\ new[f] = LoginOf(f)'
        /\ \A g \in Flow \ {f} : new[g] = old[g]
    OBVIOUS
  <2> HIDE DEF logins
  <2>2. /\ old[f] = [browser |-> b, user |-> v, with |-> w, st |-> "begun"]
        /\ new[f] = [browser |-> b, user |-> u, with |-> w, st |-> "completed"]
    BY <2>1
  <2> PICK some : some = [old EXCEPT ![f].st = "completed"]
    OBVIOUS
  <2>3. /\ some = [g \in Flow |-> some[g]] /\ \A g \in Flow \ {f} : some[g] = old[g]
        /\ some[f] = [browser |-> b, user |-> v, with |-> w, st |-> "completed"]
    BY <2>1, <2>2
  <2> PICK other : other = [some EXCEPT ![f].user = u]
    OBVIOUS
  <2>4. /\ other = [g \in Flow |-> other[g]] /\ \A g \in Flow \ {f} : other[g] = new[g]
        /\ other[f] = new[f]
    BY <2>1, <2>2, <2>3
  <2>5. other = new
    BY <2>1, <2>4
  <2> QED
    BY <2>5
<1>2. Door!Complete(f, u)
  BY <1>1 DEF Door!Complete
<1> QED
  BY <1>2 DEF Door!Next

LEMMA TakeStep ==
  ASSUME NEW f \in Flow, NEW k \in Flow, NEW st \in {"taken", "used"},
         LoginOf(f) # None, LoginOf(k) # None, NEW b, NEW v, NEW w,
         LoginOf(f) = [browser |-> b, user |-> v, with |-> w, st |-> "completed"],
         LoginOf(f)' = [browser |-> b, user |-> v, with |-> k, st |-> st],
         \A g \in Flow \ {f} : LoginOf(g)' = LoginOf(g),
         \A c \in Browser : GuestOf(c)' = GuestOf(c)
  PROVE  Door!Next
<1> DEFINE logins == [g \in Flow |-> LoginOf(g)]
<1>1. logins' = [logins EXCEPT ![f].st = st, ![f].with = k]
  <2> PICK old, new : old = logins /\ new = logins'
    OBVIOUS
  <2>1. /\ old = [g \in Flow |-> old[g]] /\ new = [g \in Flow |-> new[g]]
        /\ old[f] = LoginOf(f) /\ new[f] = LoginOf(f)'
        /\ \A g \in Flow \ {f} : new[g] = old[g]
    OBVIOUS
  <2> HIDE DEF logins
  <2>2. /\ old[f] = [browser |-> b, user |-> v, with |-> w, st |-> "completed"]
        /\ new[f] = [browser |-> b, user |-> v, with |-> k, st |-> st]
    BY <2>1
  <2> PICK some : some = [old EXCEPT ![f].st = st]
    OBVIOUS
  <2>3. /\ some = [g \in Flow |-> some[g]] /\ \A g \in Flow \ {f} : some[g] = old[g]
        /\ some[f] = [browser |-> b, user |-> v, with |-> w, st |-> st]
    BY <2>1, <2>2
  <2> PICK other : other = [some EXCEPT ![f].with = k]
    OBVIOUS
  <2>4. /\ other = [g \in Flow |-> other[g]] /\ \A g \in Flow \ {f} : other[g] = new[g]
        /\ other[f] = new[f]
    BY <2>1, <2>2, <2>3
  <2>5. other = new
    BY <2>1, <2>4
  <2> QED
    BY <2>5
<1>2. /\ logins[f] # None /\ logins[f].st = "completed" /\ logins[k] # None
      /\ UNCHANGED [c \in Browser |-> GuestOf(c)]
  OBVIOUS
<1>3. Door!Take(f, k)
  BY <1>1, <1>2, Zenon DEF Door!Take
<1> QED
  BY <1>3 DEF Door!Next

LEMMA EnterStep ==
  ASSUME NEW f \in Flow, NEW k \in Flow, NEW b \in Browser, LoginOf(f) # None,
         LoginOf(f).st = "taken", LoginOf(f).with = k, LoginOf(k).browser = b,
         LoginOf(f)' = [LoginOf(f) EXCEPT !.st = "used"],
         \A g \in Flow \ {f} : LoginOf(g)' = LoginOf(g),
         GuestOf(b)' \in {LoginOf(f).user, None},
         \A c \in Browser \ {b} : GuestOf(c)' = GuestOf(c)
  PROVE  Door!Next
<1>1. Door!Enter(f)
  BY DEF Door!Enter
<1> QED
  BY <1>1 DEF Door!Next

LEMMA LeaveStep ==
  ASSUME NEW b \in Browser, GuestOf(b)' = None,
         \A c \in Browser \ {b} : GuestOf(c)' = GuestOf(c),
         \A g \in Flow : LoginOf(g)' = LoginOf(g)
  PROVE  Door!Next
<1>1. Door!Leave(b)
  BY DEF Door!Leave
<1> QED
  BY <1>1 DEF Door!Next

\* The redirect that reaches the browser does not show: the login is begun.
SameFlow(f) ==
  \/ flows'[f] = flows[f]
  \/ /\ flows[f].st = "drawn" /\ flows'[f].st = "begun"
     /\ flows'[f].browser = flows[f].browser /\ flows'[f].user = flows[f].user
     /\ flows'[f].with = flows[f].with

\* Carriers that are gone are lost logins; without any the door shows nothing.
LEMMA LoseStep ==
  ASSUME IInv,
         \A f \in Flow : SameFlow(f) /\ (Carried(f)' => Carried(f)),
         \A c \in Browser : GuestOf(c)' = GuestOf(c)
  PROVE  Door!Next
<1> DEFINE S == {f \in Flow : LoginOf(f)' # LoginOf(f)}
<1>1. ASSUME NEW f \in Flow, LoginOf(f)' # LoginOf(f)
      PROVE  /\ LoginOf(f) # None /\ LoginOf(f).st = "taken"
             /\ LoginOf(f)' = [LoginOf(f) EXCEPT !.st = "used"]
  <2>1. flows'[f] = flows[f] /\ flows[f].st # "none"
    BY <1>1 DEF LoginOf, SameFlow, Stage
  <2>2. LoginOf(f)' = [browser |-> flows[f].browser, user |-> flows[f].user,
                       with |-> flows[f].with, st |-> Stage(f)']
    BY <2>1 DEF LoginOf
  <2>3. /\ LoginOf(f) # None
        /\ LoginOf(f) = [browser |-> flows[f].browser, user |-> flows[f].user,
                         with |-> flows[f].with, st |-> Stage(f)]
    BY <2>1, LoginShape
  <2>4. Stage(f) = "taken" /\ Stage(f)' = "used"
    BY <1>1, <2>1, <2>2, <2>3 DEF Stage
  <2> QED
    BY <2>2, <2>3, <2>4
<1>2. Door!Lose(S)
  <2> DEFINE before == [f \in Flow |-> LoginOf(f)]
             after == [f \in Flow |-> LoginOf(f)']
  <2>1. after = [f \in Flow |-> IF f \in S THEN [before[f] EXCEPT !.st = "used"]
                                           ELSE before[f]]
    BY <1>1
  <2>2. S \in SUBSET Flow /\ \A f \in S : before[f] # None /\ before[f].st = "taken"
    BY <1>1
  <2>3. before' = after
    OBVIOUS
  <2> HIDE DEF S, after
  <2> QED
    BY <2>1, <2>2, <2>3 DEF Door!Lose
<1>3. S \in SUBSET Flow
  OBVIOUS
<1> HIDE DEF S
<1> QED
  BY <1>2, <1>3 DEF Door!Next

\* Where no session and no cookie changes, nobody is signed in or out.
LEMMA SameGuests ==
  ASSUME UNCHANGED <<sessionJar, sessions, live>>
  PROVE  \A c \in Browser : GuestOf(c)' = GuestOf(c)
  BY DEF GuestOf

\* A request that ends, or goes on, without taking up a login.
LEMMA CarriesNothingNew ==
  ASSUME \A s \in Request : Carries(s)' => Carries(s) /\ req'[s].code = req[s].code
  PROVE  \A f : Carried(f)' => Carried(f)
  BY DEF Carried, Carries

-----------------------------------------------------------------------------
(* The steps of the hub.                                                    *)

\* A session that ends signs out the browser that holds it, if there is one.
LEMMA SessionEnds ==
  ASSUME IInv, NEW h \in HubId, live' \in {live \ {h}, live},
         UNCHANGED <<sessionJar, sessions, flows>>,
         \A f : Carried(f)' <=> Carried(f)
  PROVE  Door!Next
<1>1. \A f \in Flow : LoginOf(f)' = LoginOf(f)
  BY DEF LoginOf, Stage
<1>2. CASE \E b \in Browser : sessionJar[b] = h /\ live' = live \ {h}
  <2> PICK b \in Browser : sessionJar[b] = h /\ live' = live \ {h}
    BY <1>2
  <2>1. h # None
    BY NoneAssumption
  <2>2. GuestOf(b)' = None
    BY DEF GuestOf
  <2>3. ASSUME NEW c \in Browser \ {b} PROVE GuestOf(c)' = GuestOf(c)
    <3>1. sessionJar[c] # h
      BY <2>1 DEF IInv, JarInv, OwnSession, TakenBy, OwnFlow
    <3> QED
      BY <3>1 DEF GuestOf
  <2> QED
    BY <1>1, <2>2, <2>3, LeaveStep
<1>3. CASE ~ \E b \in Browser : sessionJar[b] = h /\ live' = live \ {h}
  <2>1. \A c \in Browser : GuestOf(c)' = GuestOf(c)
    BY <1>3 DEF GuestOf
  <2> QED
    BY <2>1, LoseStep DEF SameFlow
<1> QED
  BY <1>2, <1>3

LEMMA ExchangeStep ==
  ASSUME DoorInv, NEW r \in Request, Exchange(r)
  PROVE  Door!Next
<1> PICK f, c : f = req[r].flow /\ c = req[r].code
  OBVIOUS
<1>1. req[r].pc = "exchange" /\ req[r] \in ReqState /\ RequestInv(r) /\ IInv
  BY DEF Exchange, DoorInv, IInv, TypeOK
<1>2. f \in Flow /\ flows[f].st # "none" /\ req[r].op = "callback"
  BY <1>1 DEF RequestInv, OwnFlow
<1>3. \A b \in Browser : GuestOf(b)' = GuestOf(b)
  BY SameGuests DEF Exchange, jars, store
<1>4. \A s \in Request \ {r} : req'[s] = req[s]
  BY DEF Exchange, Answer, DoorInv, IInv, TypeOK
<1>5. CASE ~ (c # None /\ flows[c].st = "code")
  <2>1. Answer(r, "error") /\ UNCHANGED flows
    BY <1>5 DEF Exchange
  <2>2. ~ Carries(r)'
    BY <1>1, <2>1 DEF Answer, Blank, Carries, IInv, TypeOK
  <2>3. \A g : Carried(g)' => Carried(g)
    BY <1>4, <2>2, CarriesNothingNew DEF Carries
  <2> QED
    BY <1>1, <1>3, <2>1, <2>3, LoseStep DEF SameFlow
<1>6. CASE c # None /\ flows[c].st = "code"
  <2>1. /\ flows' = [flows EXCEPT ![c].st = "spent", ![c].with = f]
        /\ c \in Flow
    BY <1>1, <1>6 DEF Exchange, ReqState
  <2>2. /\ flows'[c].st = "spent" /\ flows'[c].browser = flows[c].browser
        /\ flows'[c].user = flows[c].user /\ flows'[c].with = f
        /\ \A g \in Flow \ {c} : flows'[g] = flows[g]
    BY <1>1, <2>1 DEF IInv, TypeOK, FlowRec
  <2>3. req'[r].code \in {c, None}
    <3>1. CASE Answer(r, "error")
      BY <1>1, <3>1 DEF Answer, Blank, IInv, TypeOK
    <3>2. CASE ~ Answer(r, "error")
      BY <1>1, <1>6, <3>2 DEF Exchange, IInv, TypeOK, ReqState
    <3> QED
      BY <3>1, <3>2
  <2>4. ASSUME NEW g \in Flow \ {c} PROVE LoginOf(g)' = LoginOf(g)
    <3>1. req'[r].code # g /\ req[r].code # g
      BY <2>3, NoneAssumption
    <3>2. Carried(g)' <=> Carried(g)
      BY <1>4, <3>1 DEF Carried
    <3> QED
      BY <2>2, <3>2 DEF LoginOf, Stage
  <2>5. PICK st \in {"taken", "used"} : st = IF Carried(c)' THEN "taken" ELSE "used"
    OBVIOUS
  <2>6. LoginOf(c)' = [browser |-> flows[c].browser, user |-> flows[c].user,
                       with |-> f, st |-> st]
    BY <2>2, <2>5 DEF LoginOf, Stage
  <2>7. /\ LoginOf(c) = [browser |-> flows[c].browser, user |-> flows[c].user,
                         with |-> flows[c].with, st |-> "completed"]
        /\ LoginOf(c) # None
    BY <1>1, <1>6, <2>1, LoginShape DEF Stage
  <2>8. LoginOf(f) # None
    BY <1>1, <1>2, LoginShape
  <2> QED
    BY <1>2, <1>3, <2>1, <2>4, <2>6, <2>7, <2>8, TakeStep
<1> QED
  BY <1>5, <1>6

\* Nobody holds the new session yet: its callback still carries the login.
LEMMA CreateStep ==
  ASSUME DoorInv, NEW r \in Request, Create(r)
  PROVE  Door!Next
<1>1. PICK h \in HubId :
        /\ sessions[h] = None
        /\ sessions' = [sessions EXCEPT ![h] = [subject |-> req[r].user,
                                                flow |-> req[r].code]]
        /\ live' = live \cup {h}
        /\ req' = [req EXCEPT ![r].pc = "reply", ![r].id = h, ![r].user = None]
        /\ req[r].pc = "create" /\ UNCHANGED <<jars, flows>>
  BY DEF Create
<1>2. IInv /\ req[r].op = "callback"
  BY <1>1 DEF DoorInv, IInv, RequestInv
<1>3. ASSUME NEW c \in Browser PROVE GuestOf(c)' = GuestOf(c)
  <2>1. sessionJar[c] # h
    BY <1>1, <1>2, NoneAssumption DEF IInv, JarInv, OwnSession
  <2>2. sessions'[sessionJar[c]] = sessions[sessionJar[c]] \/ sessionJar[c] \notin live'
    BY <1>1, <1>2, <2>1 DEF IInv, TypeOK
  <2> QED
    BY <1>1, <1>2, <2>1, <2>2 DEF GuestOf, jars, IInv, TypeOK
<1>4. /\ req'[r].op = "callback" /\ req'[r].pc = "reply" /\ req'[r].code = req[r].code
      /\ \A s \in Request \ {r} : req'[s] = req[s]
  BY <1>1, <1>2 DEF IInv, TypeOK, ReqState
<1>5. \A g : Carried(g)' => Carried(g)
  BY <1>1, <1>2, <1>4, CarriesNothingNew DEF Carries
<1> QED
  BY <1>1, <1>2, <1>3, <1>5, LoseStep DEF SameFlow

\* The answer of a callback lets its browser in; that of a logout sees it out.
LEMMA DeliverStep ==
  ASSUME DoorInv, NEW r \in Request, Deliver(r)
  PROVE  Door!Next
<1> PICK b, f : b = req[r].browser /\ f = req[r].flow
  OBVIOUS
<1>1. /\ IInv /\ req[r].pc = "reply" /\ UNCHANGED <<sessions, live>>
      /\ RequestInv(r) /\ CarrierInv(r) /\ req[r] \in ReqState /\ b \in Browser
  BY DEF Deliver, store, DoorInv, IInv, TypeOK, RequestInv, Active
<1>2. req'[r].pc = "done" /\ \A s \in Request \ {r} : req'[s] = req[s]
  BY DEF Deliver, Blank, DoorInv, IInv, TypeOK
<1>3. req[r].op \in {"login", "callback", "logout"}
  BY <1>1 DEF RequestInv, At, ReqState, Op
<1>4. \A g : Carried(g)' => Carried(g)
  BY <1>2, CarriesNothingNew DEF Carries
<1>5. ASSUME req[r].op # "callback" PROVE \A g : Carried(g)' <=> Carried(g)
  BY <1>2, <1>4, <1>5 DEF Carried
<1>6. CASE req[r].op = "login"
  <2>1. /\ flows' = [flows EXCEPT ![f].st = "begun"] /\ UNCHANGED sessionJar
        /\ f \in Flow /\ flows[f].st = "drawn"
    BY <1>1, <1>6 DEF Deliver, IInv, TypeOK, RequestInv, At, OwnFlow
  <2>2. \A g \in Flow : SameFlow(g)
    BY <1>1, <2>1 DEF IInv, TypeOK, FlowRec, SameFlow
  <2>3. \A c \in Browser : GuestOf(c)' = GuestOf(c)
    BY <1>1, <2>1, SameGuests
  <2> QED
    BY <1>1, <1>4, <2>2, <2>3, LoseStep
<1>7. CASE req[r].op = "logout"
  <2>1. /\ UNCHANGED flows /\ sessionJar'[b] = None
        /\ \A c \in Browser \ {b} : sessionJar'[c] = sessionJar[c]
    BY <1>1, <1>7 DEF Deliver, IInv, TypeOK
  <2>2. GuestOf(b)' = None
    BY <1>1, <2>1, NoneAssumption DEF GuestOf, IInv, TypeOK
  <2>3. \A c \in Browser \ {b} : GuestOf(c)' = GuestOf(c)
    BY <1>1, <2>1 DEF GuestOf
  <2>4. \A g \in Flow : LoginOf(g)' = LoginOf(g)
    BY <1>5, <1>7, <2>1 DEF LoginOf, Stage
  <2> QED
    BY <1>1, <2>2, <2>3, <2>4, LeaveStep
<1>8. CASE req[r].op = "callback"
  <2> PICK c, k : c = req[r].code /\ k = flows[c].with
    OBVIOUS
  <2>1. /\ UNCHANGED flows /\ sessionJar'[b] = req[r].id
        /\ \A e \in Browser \ {b} : sessionJar'[e] = sessionJar[e]
    BY <1>1, <1>8 DEF Deliver, IInv, TypeOK
  <2>2. /\ Carries(r) /\ c \in Flow /\ flows[c].st = "spent"
        /\ k \in Flow /\ flows[k].st # "none" /\ flows[k].browser = b
    BY <1>1, <1>8 DEF Carries, CarrierInv, TakenBy, OwnFlow
  <2>3. Carried(c) /\ ~ Carried(c)'
    BY <1>2, <2>2 DEF Carried, Carries, DoorInv, CarriersApart
  <2>4. /\ LoginOf(c) = [browser |-> flows[c].browser, user |-> flows[c].user,
                         with |-> k, st |-> "taken"]
        /\ LoginOf(c) # None
    BY <1>1, <2>2, <2>3, LoginShape DEF Stage
  <2>5. LoginOf(c)' = [browser |-> flows[c].browser, user |-> flows[c].user,
                       with |-> k, st |-> "used"]
    BY <2>1, <2>2, <2>3 DEF LoginOf, Stage
  <2>6. ASSUME NEW g \in Flow \ {c} PROVE LoginOf(g)' = LoginOf(g)
    <3>1. Carried(g)' <=> Carried(g)
      BY <1>2, <1>4 DEF Carried
    <3> QED
      BY <2>1, <3>1 DEF LoginOf, Stage
  <2>7. sessions[req[r].id].subject = flows[c].user
    <3>1. OwnSession(b, req[r].id) /\ sessions[req[r].id].flow = c
      BY <1>1, <1>8, <2>2 DEF RequestInv, At, CarrierInv
    <3>2. SessionInv(req[r].id) /\ sessions[req[r].id] # None
      BY <1>1, <3>1 DEF IInv, OwnSession
    <3> QED
      BY <3>1, <3>2 DEF SessionInv
  <2>8. GuestOf(b)' \in {flows[c].user, None}
    BY <1>1, <2>1, <2>7 DEF GuestOf
  <2>9. \A e \in Browser \ {b} : GuestOf(e)' = GuestOf(e)
    BY <1>1, <2>1 DEF GuestOf
  <2>10. /\ LoginOf(c).st = "taken" /\ LoginOf(c).with = k
         /\ LoginOf(c).user = flows[c].user
         /\ LoginOf(c)' = [LoginOf(c) EXCEPT !.st = "used"]
    BY <2>4, <2>5
  <2>11. LoginOf(k).browser = b
    BY <1>1, <2>2, LoginShape
  <2> QED
    BY <1>1, <2>2, <2>4, <2>6, <2>8, <2>9, <2>10, <2>11, EnterStep
<1> QED
  BY <1>3, <1>6, <1>7, <1>8

\* What requests do besides: no cookie of a session changes, no login is taken up.
LEMMA QuietStep ==
  ASSUME DoorInv, NEW r \in Request, Begin(r) \/ Guard(r) \/ Abort(r),
         UNCHANGED flows
  PROVE  Door!Next
<1>1. \A s \in Request : Carries(s)' => Carries(s) /\ req'[s].code = req[s].code
  <2>1. \A s \in Request : Carries(s)' => req'[s] = req[s]
    BY OthersCarryNothing
  <2> QED
    BY <2>1 DEF Carries
<1>2. UNCHANGED <<sessionJar, sessions, live>>
  BY DEF Begin, BeginLogin, BeginLogout, BeginPage, BeginCallback, Guard, Abort, jars, store
<1> QED
  BY <1>1, <1>2, CarriesNothingNew, SameGuests, LoseStep DEF DoorInv, SameFlow

\* The drawing of a state begins a login.
LEMMA BeginLoginStep ==
  ASSUME DoorInv, NEW r \in Request, NEW b \in Browser, BeginLogin(r, b)
  PROVE  Door!Next
<1>1. PICK f \in Flow :
        /\ flows[f].st = "none"
        /\ flows' = [flows EXCEPT ![f].st = "drawn", ![f].browser = b]
        /\ req' = [req EXCEPT ![r] = [Blank EXCEPT !.op = "login", !.pc = "reply",
                                        !.browser = b, !.flow = f]]
  BY DEF BeginLogin
<1>2. /\ flows[f].user = None /\ flows[f].with = None
  BY <1>1 DEF DoorInv, IInv, FlowInv
<1>3. /\ flows'[f].st = "drawn" /\ flows'[f].browser = b
      /\ flows'[f].user = None /\ flows'[f].with = None
      /\ \A g \in Flow \ {f} : flows'[g] = flows[g]
  BY <1>1, <1>2 DEF DoorInv, IInv, TypeOK, FlowRec
<1>4. \A g : Carried(g)' <=> Carried(g)
  <2>1. ~ Carries(r)'
    BY <1>1 DEF Carries, Blank, DoorInv, IInv, TypeOK
  <2>2. ~ Carries(r)
    BY DEF Carries, BeginLogin, Active
  <2>3. \A s \in Request \ {r} : req'[s] = req[s]
    BY <1>1 DEF DoorInv, IInv, TypeOK
  <2> QED
    BY <2>1, <2>2, <2>3 DEF Carried, Carries
<1>5. LoginOf(f) = None /\ \A g \in Flow \ {f} : LoginOf(g)' = LoginOf(g)
  BY <1>1, <1>3, <1>4 DEF LoginOf, Stage
<1>6. LoginOf(f)' = [browser |-> b, user |-> None, with |-> None, st |-> "begun"]
  BY <1>3 DEF LoginOf, Stage
<1>7. \A c \in Browser : GuestOf(c)' = GuestOf(c)
  BY SameGuests DEF BeginLogin, jars, store
<1> QED
  BY <1>5, <1>6, <1>7, BeginStep

LEMMA RequestStep ==
  ASSUME DoorInv, NEW r \in Request, Begin(r) \/ Guard(r) \/ Abort(r)
  PROVE  Door!Next
<1>1. UNCHANGED flows \/ \E b \in Browser : BeginLogin(r, b)
  BY DEF Begin, BeginLogout, BeginPage, BeginCallback, Guard, Abort
<1> QED
  BY <1>1, QuietStep, BeginLoginStep

LEMMA DeleteStep ==
  ASSUME DoorInv, NEW r \in Request, Delete(r)
  PROVE  Door!Next
<1>1. IInv /\ req[r].op = "logout" /\ req[r].id \in HubId /\ req[r].pc = "delete"
  BY DEF Delete, DoorInv, IInv, RequestInv
<1>2. /\ req'[r].op = "logout" /\ \A s \in Request \ {r} : req'[s] = req[s]
      /\ live' \in {live \ {req[r].id}, live} /\ UNCHANGED <<sessionJar, sessions, flows>>
  BY <1>1 DEF Delete, Goto, Removed, jars, IInv, TypeOK, ReqState
<1>3. \A f : Carried(f)' <=> Carried(f)
  BY <1>1, <1>2 DEF Carried
<1> QED
  BY <1>1, <1>2, <1>3, SessionEnds

\* What happens around the requests.
LEMMA SurroundingsStep ==
  ASSUME DoorInv,
         \/ \E f \in Flow, u \in User : SignIn(f, u)
         \/ \E h \in HubId : Expire(h)
         \/ \E b \in Browser : Forget(b)
         \/ Crash
  PROVE  Door!Next
<1>1. ASSUME NEW f \in Flow, NEW u \in User, SignIn(f, u) PROVE Door!Next
  <2>1. /\ flows'[f].st = "code" /\ flows[f].st = "begun"
        /\ flows'[f].browser = flows[f].browser /\ flows'[f].user = u
        /\ flows'[f].with = flows[f].with
        /\ \A g \in Flow \ {f} : flows'[g] = flows[g]
    BY <1>1 DEF SignIn, DoorInv, IInv, TypeOK, FlowRec
  <2>2. UNCHANGED <<sessionJar, sessions, live, req>>
    BY <1>1 DEF SignIn, jars, store
  <2>3. \A g : Carried(g)' <=> Carried(g)
    BY <2>2 DEF Carried
  <2>4. /\ LoginOf(f) = [browser |-> flows[f].browser, user |-> flows[f].user,
                         with |-> flows[f].with, st |-> "begun"]
        /\ LoginOf(f) # None
    BY <2>1, LoginShape DEF Stage, DoorInv
  <2>5. LoginOf(f)' = [browser |-> flows[f].browser, user |-> u,
                       with |-> flows[f].with, st |-> "completed"]
    BY <2>1 DEF LoginOf, Stage
  <2>6. \A g \in Flow \ {f} : LoginOf(g)' = LoginOf(g)
    BY <2>1, <2>3 DEF LoginOf, Stage
  <2> QED
    BY <2>2, <2>4, <2>5, <2>6, SameGuests, CompleteStep
<1>2. ASSUME NEW h \in HubId, Expire(h) PROVE Door!Next
  <2>1. /\ UNCHANGED <<sessionJar, sessions, flows, req>> /\ live' \in {live \ {h}, live}
    BY <1>2 DEF Expire, jars
  <2>2. \A f : Carried(f)' <=> Carried(f)
    BY <2>1 DEF Carried
  <2> QED
    BY <2>1, <2>2, SessionEnds DEF DoorInv
<1>3. ASSUME NEW b \in Browser, Forget(b) PROVE Door!Next
  <2>1. UNCHANGED <<flows, sessions, live, req>>
    BY <1>3 DEF Forget, store
  <2>2. \A f : Carried(f)' <=> Carried(f)
    BY <2>1 DEF Carried
  <2>3. CASE UNCHANGED sessionJar
    BY <2>1, <2>2, <2>3, SameGuests, LoseStep DEF DoorInv, SameFlow
  <2>4. CASE sessionJar' = [sessionJar EXCEPT ![b] = None]
    <3>1. /\ sessionJar'[b] = None /\ \A c \in Browser \ {b} : sessionJar'[c] = sessionJar[c]
          /\ live \subseteq HubId
      BY <2>4 DEF DoorInv, IInv, TypeOK
    <3>2. GuestOf(b)' = None /\ \A c \in Browser \ {b} : GuestOf(c)' = GuestOf(c)
      BY <2>1, <3>1, NoneAssumption DEF GuestOf
    <3>3. \A g \in Flow : LoginOf(g)' = LoginOf(g)
      BY <2>1, <2>2 DEF LoginOf, Stage
    <3> QED
      BY <3>2, <3>3, LeaveStep
  <2> QED
    BY <1>3, <2>3, <2>4 DEF Forget
<1>4. CASE Crash
  <2>1. UNCHANGED <<sessionJar, sessions, live, flows>>
    BY <1>4 DEF Crash, jars, store
  <2>2. \A s \in Request : Carries(s)' => Carries(s) /\ req'[s].code = req[s].code
    BY <1>4 DEF Crash, Carries, Blank
  <2> QED
    BY <2>1, <2>2, CarriesNothingNew, SameGuests, LoseStep DEF DoorInv, SameFlow
<1> QED
  BY <1>1, <1>2, <1>3, <1>4

LEMMA DoorNext == DoorInv /\ [Next]_vars => [Door!Next]_(Door!vars)
<1> SUFFICES ASSUME DoorInv, [Next]_vars PROVE [Door!Next]_(Door!vars)
  OBVIOUS
<1>1. CASE UNCHANGED vars
  BY <1>1 DEF vars, jars, store, Door!vars, LoginOf, Stage, GuestOf, Carried
<1>2. CASE \E r \in Request : Begin(r) \/ Step(r) \/ Abort(r)
  BY <1>2, RequestStep, ExchangeStep, CreateStep, DeleteStep, DeliverStep DEF Step
<1>3. CASE Next /\ ~ \E r \in Request : Begin(r) \/ Step(r) \/ Abort(r)
  BY <1>3, SurroundingsStep DEF Next
<1> QED
  BY <1>1, <1>2, <1>3

LEMMA DoorInit == Init => Door!Init
  BY NoneAssumption DEF Init, Door!Init, LoginOf, GuestOf

\* Browsers are signed in and out of the account hub as in HubDoor: each completed
\* login lets one browser in, that brought it along with a state of its own, as the
\* user who signed in, at most once (hub_auth_handlers.go).
THEOREM Refinement == Spec => OneEntryPerLogin
<1>1. Spec => []DoorInv
  BY DoorInvInit, DoorInvNext, PTL DEF Spec
<1> QED
  BY <1>1, DoorInit, DoorNext, PTL DEF Spec, OneEntryPerLogin, Door!Spec

=============================================================================
