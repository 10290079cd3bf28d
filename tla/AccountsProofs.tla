--------------------------- MODULE AccountsProofs ---------------------------
(* Who may do what: the registration of an address, a ban and its kick, the *)
(* session of an administrator, friends and spectators, the limits of       *)
(* requests. The five modules share no state; each has an inductive         *)
(* invariant and one theorem.                                               *)
EXTENDS Registration, Presence, AdminSession, Community, RateLimiter,
        FiniteSetTheorems, SequenceTheorems, WellFoundedInduction, TLAPS

-----------------------------------------------------------------------------
(* A verified address makes one account, for any number of addresses and of *)
(* registrations at the same time.                                          *)

Flights == [email: Emails, next: {"create", "clear"}] \cup {Resting}

RegistrationTypeOK ==
    /\ code \in [Emails -> Nat \cup {None}]
    /\ verified \subseteq Emails
    /\ accounts \in [Emails -> Nat]
    /\ flight \in [Registrations -> Flights]
    /\ typed \in [Emails -> Nat]
    /\ made \in [Emails -> Nat]
    /\ freed \in [Emails -> Nat]

(* An address somebody may be about to register.                            *)
Claimed(e) == e \in verified \/ \E r \in Registrations : flight[r] = [email |-> e, next |-> "create"]

(* VerifiedOnce alone is not inductive: whoever is past the two looks at    *)
(* the address may still create an account, and the verification is cleared *)
(* only later.  But while the address is free and claimed, a code or an     *)
(* account that was given up is still to be answered by an account.         *)
OneLeft(e) == IsFree(e) /\ Claimed(e) => made[e] < typed[e] + freed[e]

RegistrationInv ==
    RegistrationTypeOK /\ VerifiedOnce /\ \A e \in Emails : OneLeft(e)

LEMMA RegistrationStarts == RegistrationInit => RegistrationInv
BY DEF RegistrationInit, RegistrationInv, RegistrationTypeOK, Flights, VerifiedOnce, OneLeft,
       Claimed, Resting

(* What neither claims an address nor changes its accounts, keeps it all.   *)
LEMMA ClaimsOnlyEnd ==
  ASSUME RegistrationInv, UNCHANGED <<accounts, typed, made, freed>>,
         \A e \in Emails : Claimed(e)' => Claimed(e), RegistrationTypeOK'
  PROVE  RegistrationInv'
BY DEF RegistrationInv, VerifiedOnce, OneLeft, IsFree

LEMMA RegistrationStep == RegistrationInv /\ [RegistrationNext]_registrationVars => RegistrationInv'
<1> SUFFICES ASSUME RegistrationInv, [RegistrationNext]_registrationVars
             PROVE  RegistrationInv'
  OBVIOUS
<1>0. RegistrationTypeOK
  BY DEF RegistrationInv
<1>1. ASSUME NEW e \in Emails, RequestCode(e) \/ MistypeCode(e) \/ Expire(e)
      PROVE  RegistrationInv'
  <2>1. UNCHANGED <<flight, accounts, typed, made, freed>> /\ verified' \subseteq verified
    BY <1>1 DEF RequestCode, MistypeCode, Expire
  <2>2. code' \in [Emails -> Nat \cup {None}]
    <3>1. CASE RequestCode(e) \/ Expire(e)
      BY <1>0, <3>1 DEF RegistrationTypeOK, RequestCode, Expire
    <3>2. CASE MistypeCode(e)
      BY <1>0, <3>2 DEF RegistrationTypeOK, MistypeCode
    <3> QED
      BY <1>1, <3>1, <3>2
  <2> QED
    BY <1>0, <2>1, <2>2, ClaimsOnlyEnd DEF RegistrationTypeOK, Claimed
<1>2. ASSUME NEW e \in Emails, TypeCode(e)
      PROVE  RegistrationInv'
  <2>1. CASE UNCHANGED <<verified, typed>>
    <3>1. RegistrationTypeOK'
      BY <1>0, <1>2, <2>1 DEF RegistrationTypeOK, TypeCode
    <3>2. \A a \in Emails : Claimed(a)' => Claimed(a)
      BY <1>2, <2>1 DEF TypeCode, Claimed
    <3> QED
      BY <1>2, <2>1, <3>1, <3>2, ClaimsOnlyEnd DEF TypeCode
  <2>2. CASE verified' = verified \cup {e} /\ typed' = [typed EXCEPT ![e] = @ + 1]
    <3>1. RegistrationTypeOK'
      BY <1>0, <1>2, <2>2 DEF RegistrationTypeOK, TypeCode
    <3>2. typed'[e] = typed[e] + 1 /\ \A a \in Emails \ {e} : typed'[a] = typed[a]
      BY <1>0, <2>2 DEF RegistrationTypeOK
    <3>3. UNCHANGED <<accounts, flight, made, freed>>
      BY <1>2 DEF TypeCode
    <3>4. \A a \in Emails \ {e} : Claimed(a)' => Claimed(a)
      BY <2>2, <3>3 DEF Claimed
    <3> QED
      BY <1>0, <3>1, <3>2, <3>3, <3>4 DEF RegistrationInv, RegistrationTypeOK, VerifiedOnce, OneLeft, IsFree
  <2> QED
    BY <1>2, <2>1, <2>2 DEF TypeCode
<1>3. ASSUME NEW r \in Registrations, NEW e \in Emails, StartRegistration(r, e)
      PROVE  RegistrationInv'
  <2>1. RegistrationTypeOK'
    BY <1>0, <1>3 DEF RegistrationTypeOK, StartRegistration, Flights
  <2>2. ASSUME NEW a \in Emails, Claimed(a)'
        PROVE  Claimed(a)
    <3>1. CASE a = e
      BY <1>3, <3>1 DEF StartRegistration, MayRegister, Claimed
    <3>2. CASE a # e
      BY <1>0, <1>3, <2>2, <3>2 DEF StartRegistration, Claimed, RegistrationTypeOK
    <3> QED
      BY <3>1, <3>2
  <2> QED
    BY <1>3, <2>1, <2>2, ClaimsOnlyEnd DEF StartRegistration
<1>4. ASSUME NEW r \in Registrations, CreateUser(r)
      PROVE  RegistrationInv'
  <2> DEFINE e == flight[r].email
  <2>1. flight[r] = [email |-> e, next |-> "create"] /\ e \in Emails
    BY <1>0, <1>4 DEF RegistrationTypeOK, CreateUser, Flights, Resting
  <2>2. /\ flight' \in [Registrations -> Flights]
        /\ flight'[r] # [email |-> e, next |-> "create"]
        /\ flight'[r].next # "create"
        /\ \A i \in Registrations \ {r} : flight'[i] = flight[i]
    BY <1>0, <1>4, <2>1 DEF RegistrationTypeOK, CreateUser, Flights, Resting
  <2>3. \A a \in Emails : Claimed(a)' => Claimed(a)
    BY <1>4, <2>2 DEF CreateUser, Claimed
  <2>4. CASE UNCHANGED <<accounts, made>>
    <3>1. RegistrationTypeOK'
      BY <1>0, <1>4, <2>2, <2>4 DEF RegistrationTypeOK, CreateUser
    <3> QED
      BY <1>4, <2>3, <2>4, <3>1, ClaimsOnlyEnd DEF CreateUser
  <2>5. CASE Insertable(e) /\ accounts' = [accounts EXCEPT ![e] = @ + 1] /\ made' = [made EXCEPT ![e] = @ + 1]
    <3>1. RegistrationTypeOK'
      BY <1>0, <1>4, <2>1, <2>2, <2>5 DEF RegistrationTypeOK, CreateUser
    <3>2. accounts[e] = 0 /\ accounts'[e] = 1 /\ \A a \in Emails \ {e} : accounts'[a] = accounts[a]
      BY <1>0, <2>1, <2>5 DEF RegistrationTypeOK, Insertable, IsFree
    <3>3. made'[e] = made[e] + 1 /\ \A a \in Emails \ {e} : made'[a] = made[a]
      BY <1>0, <2>1, <2>5 DEF RegistrationTypeOK
    <3>4. made[e] < typed[e] + freed[e]
      BY <2>1, <3>2 DEF RegistrationInv, OneLeft, IsFree, Claimed
    <3>5. UNCHANGED <<typed, freed>>
      BY <1>4 DEF CreateUser
    <3> QED
      BY <1>0, <2>1, <2>3, <3>1, <3>2, <3>3, <3>4, <3>5
         DEF RegistrationInv, RegistrationTypeOK, VerifiedOnce, OneLeft, IsFree
  <2> QED
    BY <1>4, <2>4, <2>5 DEF CreateUser
<1>5. ASSUME NEW r \in Registrations, ClearVerification(r)
      PROVE  RegistrationInv'
  <2>1. RegistrationTypeOK'
    BY <1>0, <1>5 DEF RegistrationTypeOK, ClearVerification, Flights
  <2>2. /\ flight'[r].next # "create"
        /\ \A i \in Registrations \ {r} : flight'[i] = flight[i]
    BY <1>0, <1>5 DEF RegistrationTypeOK, ClearVerification, Resting
  <2>3. \A a \in Emails : Claimed(a)' => Claimed(a)
    BY <1>5, <2>2 DEF ClearVerification, Claimed
  <2> QED
    BY <1>5, <2>1, <2>3, ClaimsOnlyEnd DEF ClearVerification
<1>6. ASSUME NEW e \in Emails, DeleteAccount(e)
      PROVE  RegistrationInv'
  <2>1. RegistrationTypeOK'
    BY <1>0, <1>6 DEF RegistrationTypeOK, DeleteAccount
  <2>2. accounts'[e] = accounts[e] - 1 /\ freed'[e] = freed[e] + 1
    BY <1>0, <1>6 DEF RegistrationTypeOK, DeleteAccount
  <2>3. \A a \in Emails \ {e} : accounts'[a] = accounts[a] /\ freed'[a] = freed[a]
    BY <1>0, <1>6 DEF RegistrationTypeOK, DeleteAccount
  <2>4. UNCHANGED <<verified, flight, typed, made>>
    BY <1>6 DEF DeleteAccount
  <2>5. \A a \in Emails : Claimed(a)' <=> Claimed(a)
    BY <2>4 DEF Claimed
  <2> QED
    BY <1>0, <2>1, <2>2, <2>3, <2>4, <2>5
       DEF RegistrationInv, RegistrationTypeOK, VerifiedOnce, OneLeft, IsFree
<1>7. ASSUME NEW e \in Emails, NEW f \in Emails, ChangeEmail(e, f)
      PROVE  RegistrationInv'
  <2>1. RegistrationTypeOK'
    BY <1>0, <1>7 DEF RegistrationTypeOK, ChangeEmail
  <2>2. /\ e # f /\ accounts'[e] = accounts[e] - 1 /\ freed'[e] = freed[e] + 1
        /\ accounts'[f] = 1 /\ freed'[f] = freed[f]
    BY <1>0, <1>7 DEF RegistrationTypeOK, ChangeEmail, IsFree
  <2>3. \A a \in Emails \ {e, f} : accounts'[a] = accounts[a] /\ freed'[a] = freed[a]
    BY <1>0, <1>7 DEF RegistrationTypeOK, ChangeEmail
  <2>4. UNCHANGED <<verified, flight, typed, made>>
    BY <1>7 DEF ChangeEmail
  <2>5. \A a \in Emails : Claimed(a)' <=> Claimed(a)
    BY <2>4 DEF Claimed
  <2> QED
    BY <1>0, <2>1, <2>2, <2>3, <2>4, <2>5
       DEF RegistrationInv, RegistrationTypeOK, VerifiedOnce, OneLeft, IsFree
<1>8. CASE UNCHANGED registrationVars
  BY <1>8, ClaimsOnlyEnd DEF registrationVars, RegistrationInv, RegistrationTypeOK, Claimed
<1> QED
  BY <1>1, <1>2, <1>3, <1>4, <1>5, <1>6, <1>7, <1>8 DEF RegistrationNext

(* However registrations of one address overlap with each other, with the   *)
(* clean-up and with a moderator: one account at an address, and no more    *)
(* accounts than codes were typed or accounts given up (http.rs register,   *)
(* db/users.rs).                                                            *)
THEOREM VerifiedOnlyOnce == RegistrationSpec => []VerifiedOnce
<1>1. RegistrationInv => VerifiedOnce
  BY DEF RegistrationInv
<1> QED
  BY RegistrationStarts, RegistrationStep, <1>1, PTL DEF RegistrationSpec

-----------------------------------------------------------------------------
(* A ban is carried out for any number of accounts, connections and         *)
(* moderators.                                                              *)

PresenceTypeOK ==
    /\ standing \in [Accounts -> {"live", "banned", "anonymised", "gone"}]
    /\ identity \in [Sockets -> Accounts \cup {None}]
    /\ online \in [Accounts -> SUBSET Sockets]
    /\ kickOf \in [Moderators -> Accounts \cup {None}]

(* The kick closes the connections that are online under the account, so    *)
(* that those which have its identity must be among them.                   *)
IdentifiedOnline == \A u \in Accounts, c \in Sockets : identity[c] = u => c \in online[u]

PresenceInv == PresenceTypeOK /\ IdentifiedOnline /\ BanIsCarriedOut

LEMMA PresenceStarts == PresenceInit => PresenceInv
<1> SUFFICES ASSUME PresenceInit
             PROVE  PresenceInv
  OBVIOUS
<1>1. PresenceTypeOK
  BY DEF PresenceInit, PresenceTypeOK
<1>2. \A u \in Accounts : standing[u] = "live"
  BY DEF PresenceInit
<1>3. \A c \in Sockets : identity[c] \notin Accounts
  BY PresenceAssumption DEF PresenceInit
<1> QED
  BY <1>1, <1>2, <1>3 DEF PresenceInv, IdentifiedOnline, BanIsCarriedOut

(* Another identity, or none, is one that is online.                        *)
LEMMA RegisteredIsOnline ==
  ASSUME PresenceInv, NEW c \in Sockets, NEW u \in Accounts \cup {None}, RegisterPlayer(c, u)
  PROVE  /\ identity' \in [Sockets -> Accounts \cup {None}]
         /\ online' \in [Accounts -> SUBSET Sockets]
         /\ IdentifiedOnline'
         /\ identity'[c] = u /\ \A d \in Sockets \ {c} : identity'[d] = identity[d]
<1> USE PresenceAssumption DEF PresenceInv, PresenceTypeOK
<1>1. identity' \in [Sockets -> Accounts \cup {None}] /\ identity'[c] = u
  BY DEF RegisterPlayer
<1>2. \A d \in Sockets \ {c} : identity'[d] = identity[d]
  BY DEF RegisterPlayer
<1>3. WithoutSocket(c) \in [Accounts -> SUBSET Sockets]
  BY DEF WithoutSocket
<1>4. online' \in [Accounts -> SUBSET Sockets]
  BY <1>3 DEF RegisterPlayer
<1>5. \A v \in Accounts : online[v] \ {c} \subseteq online'[v] /\ (v = u => c \in online'[v])
  BY <1>3 DEF RegisterPlayer, WithoutSocket
<1> QED
  BY <1>1, <1>2, <1>4, <1>5 DEF IdentifiedOnline

(* Nobody who gets a new identity is banned.                                *)
LEMMA RegisteredIsNotBanned ==
  ASSUME PresenceInv, NEW c \in Sockets, NEW u \in Accounts \cup {None}, RegisterPlayer(c, u),
         u \in Accounts => standing[u] # "banned", closing \ {c} \subseteq closing',
         UNCHANGED <<standing, kickOf>>
  PROVE  PresenceInv'
BY RegisteredIsOnline, PresenceAssumption DEF PresenceInv, PresenceTypeOK, BanIsCarriedOut

LEMMA PresenceStep == PresenceInv /\ [PresenceNext]_presenceVars => PresenceInv'
<1> SUFFICES ASSUME PresenceInv, [PresenceNext]_presenceVars
             PROVE  PresenceInv'
  OBVIOUS
<1> USE PresenceAssumption
<1>1. ASSUME UNCHANGED <<standing, identity, online, kickOf>>, closing \subseteq closing'
      PROVE  PresenceInv'
  BY <1>1 DEF PresenceInv, PresenceTypeOK, IdentifiedOnline, BanIsCarriedOut
<1>2. ASSUME NEW l \in Logins, OpenSession(l) \/ \E u \in Accounts : CheckPassword(l, u)
      PROVE  PresenceInv'
  BY <1>1, <1>2 DEF OpenSession, CheckPassword
<1>3. ASSUME NEW u \in Accounts, EndSession(u) \/ IssueToken(u) \/ TokenRunsOut(u) \/ GraceRunsOut(u)
      PROVE  PresenceInv'
  BY <1>1, <1>3 DEF EndSession, IssueToken, TokenRunsOut, GraceRunsOut
<1>4. ASSUME NEW u \in Accounts, Unban(u)
      PROVE  PresenceInv'
  BY <1>4 DEF Unban, PresenceInv, PresenceTypeOK, IdentifiedOnline, BanIsCarriedOut
<1>5. ASSUME NEW c \in Sockets, TakeSeat(c) \/ LeaveSeat(c)
      PROVE  PresenceInv'
  BY <1>1, <1>5 DEF TakeSeat, LeaveSeat
<1>6. ASSUME NEW c \in Sockets, SetGuestName(c) \/ LogoutSocket(c) \/ Disconnect(c)
      PROVE  PresenceInv'
  BY <1>6, RegisteredIsNotBanned DEF SetGuestName, LogoutSocket, Disconnect
<1>7. ASSUME NEW c \in Sockets, NEW u \in Accounts, SetName(c, u)
      PROVE  PresenceInv'
  BY <1>7, RegisteredIsNotBanned DEF SetName, MayBe
<1>8. ASSUME NEW c \in Sockets, NEW u \in Accounts, Rejoin(c, u)
      PROVE  PresenceInv'
  <2>1. CASE UNCHANGED <<identity, online, closing>>
    BY <1>1, <1>8, <2>1 DEF Rejoin
  <2>2. CASE /\ MayReturn(u)
             /\ identity' = [identity EXCEPT ![c] = u]
             /\ online' = [online EXCEPT ![u] = @ \cup {c}]
             /\ closing \subseteq closing'
    BY <1>8, <2>2
       DEF Rejoin, MayReturn, PresenceInv, PresenceTypeOK, IdentifiedOnline, BanIsCarriedOut
  <2> QED
    BY <1>8, <2>1, <2>2 DEF Rejoin
<1>9. ASSUME NEW m \in Moderators, Kick(m)
      PROVE  PresenceInv'
  <2>1. /\ kickOf[m] \in Accounts /\ kickOf' = [kickOf EXCEPT ![m] = None]
        /\ closing' = closing \cup online[kickOf[m]]
        /\ UNCHANGED <<standing, identity, online>>
    BY <1>9 DEF Kick, Kicked, PresenceInv, PresenceTypeOK
  <2>2. PresenceTypeOK' /\ IdentifiedOnline'
    BY <2>1 DEF PresenceInv, PresenceTypeOK, IdentifiedOnline
  <2>3. ASSUME NEW v \in Accounts, standing[v] = "banned", \A n \in Moderators : kickOf'[n] # v,
               NEW c \in Sockets, identity[c] = v
        PROVE  c \in closing'
    <3>1. CASE v = kickOf[m]
      BY <2>1, <2>3, <3>1 DEF PresenceInv, IdentifiedOnline
    <3>2. CASE v # kickOf[m]
      <4>1. \A n \in Moderators : kickOf[n] # v
        BY <2>1, <2>3, <3>2 DEF PresenceInv, PresenceTypeOK
      <4> QED
        BY <2>1, <2>3, <4>1 DEF PresenceInv, BanIsCarriedOut
    <3> QED
      BY <3>1, <3>2
  <2> QED
    BY <2>1, <2>2, <2>3 DEF PresenceInv, BanIsCarriedOut
<1>10. ASSUME NEW m \in Moderators, NEW u \in Accounts,
              NEW becomes \in {"live", "banned", "anonymised", "gone"}, Transact(m, u, becomes)
       PROVE  PresenceInv'
  <2>1. /\ kickOf[m] = None /\ kickOf' = [kickOf EXCEPT ![m] = u]
        /\ standing' = [standing EXCEPT ![u] = becomes]
        /\ UNCHANGED <<identity, online, closing>>
    BY <1>10 DEF Transact
  <2>2. PresenceTypeOK' /\ IdentifiedOnline'
    BY <2>1 DEF PresenceInv, PresenceTypeOK, IdentifiedOnline
  <2>3. \A v \in Accounts \ {u} : standing'[v] = standing[v]
    BY <2>1 DEF PresenceInv, PresenceTypeOK
  <2>4. kickOf'[m] = u /\ \A n \in Moderators : \A v \in Accounts : kickOf'[n] # v => kickOf[n] # v
    BY <2>1 DEF PresenceInv, PresenceTypeOK
  <2> QED
    BY <2>1, <2>2, <2>3, <2>4 DEF PresenceInv, BanIsCarriedOut
<1>11. ASSUME NEW m \in Moderators, NEW u \in Accounts,
              Ban(m, u) \/ DeleteUser(m, u) \/ LogoutEverywhere(m, u)
       PROVE  PresenceInv'
  BY <1>10, <1>11 DEF Ban, DeleteUser, LogoutEverywhere, PresenceInv, PresenceTypeOK
<1>12. CASE UNCHANGED presenceVars
  BY <1>1, <1>12 DEF presenceVars
<1> QED
  BY <1>2, <1>3, <1>4, <1>5, <1>6, <1>7, <1>8, <1>9, <1>11, <1>12 DEF PresenceNext

(* Neither an old socket token, nor a kept seat, nor a takeover, nor        *)
(* another moderator brings back an account whose ban has been carried out  *)
(* (admin/live.rs kick_user, events.rs set_name and rejoin_room).           *)
THEOREM BanIsAlwaysCarriedOut == PresenceSpec => []BanIsCarriedOut
<1>1. PresenceInv => BanIsCarriedOut
  BY DEF PresenceInv
<1> QED
  BY PresenceStarts, PresenceStep, <1>1, PTL DEF PresenceSpec

-----------------------------------------------------------------------------
(* The session of an administrator, for any number of requests at the same  *)
(* time and any limits.                                                     *)

AdminTypeOK ==
    /\ clock \in Nat /\ seenAt \in Nat /\ activeAt \in Nat
    /\ sudoUntil \in Nat \cup {None} /\ sudoAt \in Nat \cup {None}
    /\ guarded \in [AdminRequests -> {Outside} \cup [at: {"touch"}, seen: Nat]
                                              \cup [at: {"run"}, seen: {None}]]
    /\ lapsed \in BOOLEAN

(* The time written last is at most TouchInterval behind the time of the    *)
(* last request, and a request has read no later one.                       *)
SeenIsRecent ==
    /\ seenAt <= activeAt /\ activeAt <= clock /\ activeAt - seenAt < TouchInterval
    /\ \A r \in AdminRequests : guarded[r].at = "touch" => guarded[r].seen <= seenAt

(* A lapsed session has nobody inside and lets nobody in.                   *)
LapsedIsClosed == lapsed => AtTheDoor /\ IdleExpired

SudoIsOfPassword ==
    sudoUntil # None => sudoAt # None /\ sudoUntil = sudoAt + SudoLimit

AdminInv == /\ AdminTypeOK /\ SeenIsRecent /\ LapsedIsClosed /\ SudoIsOfPassword
            /\ PasswordIsFresh

LEMMA AdminStarts == AdminInit => AdminInv
<1> SUFFICES ASSUME AdminInit
             PROVE  AdminInv
  OBVIOUS
<1>1. AdminTypeOK
  BY DEF AdminInit, AdminTypeOK
<1>2. SeenIsRecent
  BY AdminAssumption DEF AdminInit, SeenIsRecent, Outside
<1>3. LapsedIsClosed /\ SudoIsOfPassword /\ PasswordIsFresh
  BY DEF AdminInit, LapsedIsClosed, SudoIsOfPassword, PasswordIsFresh
<1> QED
  BY <1>1, <1>2, <1>3 DEF AdminInv

LEMMA SessionRests ==
  ASSUME AdminTypeOK, SeenIsRecent, LapsedIsClosed, SudoIsOfPassword,
         UNCHANGED <<clock, seenAt, sudoUntil, guarded, activeAt, lapsed, sudoAt>>
  PROVE  AdminTypeOK' /\ SeenIsRecent' /\ LapsedIsClosed' /\ SudoIsOfPassword'
<1>1. AdminTypeOK'
  BY DEF AdminTypeOK
<1>2. SeenIsRecent' /\ SudoIsOfPassword'
  BY DEF SeenIsRecent, SudoIsOfPassword
<1>3. AtTheDoor' = AtTheDoor /\ IdleExpired' = IdleExpired
  BY DEF AtTheDoor, IdleExpired
<1>4. LapsedIsClosed'
  BY <1>3 DEF LapsedIsClosed
<1> QED
  BY <1>1, <1>2, <1>4

LEMMA NothingLetHappen ==
  ASSUME outcome' = "none"
  PROVE  PasswordIsFresh'
BY DEF PasswordIsFresh

(* What a request that has come in may do to the session: its time becomes  *)
(* that of now, or stays if it is recent, and sudo mode is granted or ends. *)
LEMMA InsideAdvances ==
  ASSUME AdminInv, NEW r \in AdminRequests, guarded[r] # Outside,
         Touch(r) \/ Leave(r) \/ RunSudo(r) \/ GrantSudo(r) \/ EndSudo(r)
  PROVE  AdminInv'
<1>0. /\ AdminTypeOK /\ SeenIsRecent /\ SudoIsOfPassword /\ ~lapsed /\ ~lapsed'
  BY DEF AdminInv, LapsedIsClosed, AtTheDoor, Touch, Leave, RunSudo, GrantSudo, EndSudo
<1>1. CASE Touch(r)
  <2>1. guarded[r].seen \in Nat /\ guarded[r].seen <= seenAt
    BY <1>0, <1>1 DEF Touch, AdminTypeOK, SeenIsRecent, Outside
  <2>2. /\ seenAt' \in Nat /\ seenAt <= seenAt' /\ seenAt' <= clock
        /\ clock - seenAt' < TouchInterval
    BY <1>0, <1>1, <2>1, AdminAssumption DEF Touch, Touched, AdminTypeOK, SeenIsRecent
  <2>3. guarded' = [guarded EXCEPT ![r] = [at |-> "run", seen |-> None]]
    BY <1>1 DEF Touch
  <2>4. activeAt' = clock /\ outcome' = "none" /\ UNCHANGED <<clock, sudoUntil, lapsed, sudoAt>>
    BY <1>1 DEF Touch
  <2>5. AdminTypeOK'
    BY <1>0, <2>2, <2>3, <2>4 DEF AdminTypeOK
  <2>6. SeenIsRecent'
    <3>1. ASSUME NEW q \in AdminRequests, guarded'[q].at = "touch"
          PROVE  guarded'[q].seen <= seenAt'
      <4>1. q # r /\ guarded'[q] = guarded[q]
        BY <1>0, <2>3, <3>1 DEF AdminTypeOK
      <4>2. guarded[q].seen \in Nat /\ guarded[q].seen <= seenAt
        BY <1>0, <3>1, <4>1 DEF AdminTypeOK, SeenIsRecent, Outside
      <4> QED
        BY <1>0, <2>2, <4>1, <4>2 DEF AdminTypeOK
    <3> QED
      BY <1>0, <2>2, <2>4, <3>1 DEF SeenIsRecent, AdminTypeOK
  <2>7. SudoIsOfPassword' /\ PasswordIsFresh' /\ LapsedIsClosed'
    BY <1>0, <2>4, NothingLetHappen DEF SudoIsOfPassword, LapsedIsClosed
  <2> QED
    BY <2>5, <2>6, <2>7 DEF AdminInv
<1>2. CASE Leave(r) \/ RunSudo(r)
  <2>1. UNCHANGED <<clock, seenAt, sudoUntil, activeAt, lapsed, sudoAt>>
    BY <1>2 DEF Leave, RunSudo
  <2>2. guarded' = [guarded EXCEPT ![r] = Outside]
    BY <1>2 DEF Leave, RunSudo
  <2>3. AdminTypeOK'
    BY <1>0, <2>1, <2>2 DEF AdminTypeOK
  <2>4. SeenIsRecent'
    BY <1>0, <2>1, <2>2 DEF SeenIsRecent, AdminTypeOK, Outside
  <2>5. PasswordIsFresh'
    <3>1. CASE Leave(r)
      BY <3>1 DEF Leave, PasswordIsFresh
    <3>2. CASE RunSudo(r)
      <4>1. sudoUntil # None /\ sudoUntil > clock /\ outcome' = "sudo"
        BY <3>2 DEF RunSudo, SudoActive
      <4>2. sudoAt # None /\ sudoUntil = sudoAt + SudoLimit
        BY <1>0, <4>1 DEF SudoIsOfPassword
      <4> QED
        BY <1>0, <2>1, <4>1, <4>2, AdminAssumption DEF PasswordIsFresh, AdminTypeOK
    <3> QED
      BY <1>2, <3>1, <3>2
  <2> QED
    BY <1>0, <2>1, <2>3, <2>4, <2>5 DEF AdminInv, SudoIsOfPassword, LapsedIsClosed
<1>3. CASE GrantSudo(r) \/ EndSudo(r)
  <2>1. seenAt' = clock /\ activeAt' = clock /\ clock' = clock /\ outcome' = "none"
    BY <1>3 DEF GrantSudo, EndSudo
  <2>2. guarded' = [guarded EXCEPT ![r] = Outside]
    BY <1>3 DEF GrantSudo, EndSudo
  <2>3. \/ sudoUntil' = clock + SudoLimit /\ sudoAt' = clock
        \/ sudoUntil' = None /\ sudoAt' = None
    BY <1>3 DEF GrantSudo, EndSudo
  <2>4. AdminTypeOK'
    <3>1. sudoUntil' \in Nat \cup {None} /\ sudoAt' \in Nat \cup {None}
      BY <1>0, <2>3, AdminAssumption DEF AdminTypeOK
    <3>2. lapsed' \in BOOLEAN
      BY <1>0, <1>3 DEF GrantSudo, EndSudo, AdminTypeOK
    <3> QED
      BY <1>0, <2>1, <2>2, <3>1, <3>2 DEF AdminTypeOK
  <2>5. SeenIsRecent'
    <3>1. ASSUME NEW q \in AdminRequests, guarded'[q].at = "touch"
          PROVE  guarded'[q].seen <= clock
      <4>1. guarded'[q] = guarded[q] /\ guarded[q].at = "touch"
        BY <1>0, <2>2, <3>1 DEF AdminTypeOK, Outside
      <4>2. guarded[q].seen \in Nat /\ guarded[q].seen <= seenAt
        BY <1>0, <4>1 DEF AdminTypeOK, SeenIsRecent, Outside
      <4> QED
        BY <1>0, <4>1, <4>2 DEF AdminTypeOK, SeenIsRecent
    <3> QED
      BY <1>0, <2>1, <3>1, AdminAssumption DEF SeenIsRecent, AdminTypeOK
  <2>6. SudoIsOfPassword' /\ PasswordIsFresh' /\ LapsedIsClosed'
    BY <1>0, <2>1, <2>3, AdminAssumption, NothingLetHappen
       DEF SudoIsOfPassword, LapsedIsClosed, AdminTypeOK
  <2> QED
    BY <2>4, <2>5, <2>6 DEF AdminInv
<1> QED
  BY <1>1, <1>2, <1>3

LEMMA AdminStep == AdminInv /\ [AdminNext]_adminVars => AdminInv'
<1> SUFFICES ASSUME AdminInv, [AdminNext]_adminVars
             PROVE  AdminInv'
  OBVIOUS
<1>0. AdminTypeOK /\ SeenIsRecent /\ LapsedIsClosed /\ SudoIsOfPassword /\ PasswordIsFresh
  BY DEF AdminInv
<1>1. CASE Tick
  <2>1. /\ clock' = clock + 1 /\ outcome' = "none"
        /\ UNCHANGED <<seenAt, sudoUntil, guarded, activeAt, sudoAt>>
        /\ lapsed' = (lapsed \/ (AtTheDoor /\ clock' - activeAt >= IdleLimit))
    BY <1>1 DEF Tick
  <2>2. lapsed' \in BOOLEAN
    BY <2>1
  <2>3. AdminTypeOK'
    BY <1>0, <2>1, <2>2 DEF AdminTypeOK
  <2>4. SeenIsRecent'
    BY <1>0, <2>1 DEF SeenIsRecent, AdminTypeOK
  <2>5. AtTheDoor' = AtTheDoor
    BY <2>1 DEF AtTheDoor
  <2>6. LapsedIsClosed'
    <3>1. CASE lapsed
      BY <1>0, <2>1, <2>5, <3>1, AdminAssumption DEF LapsedIsClosed, IdleExpired, AdminTypeOK
    <3>2. CASE AtTheDoor /\ clock' - activeAt >= IdleLimit
      BY <1>0, <2>1, <2>5, <3>2, AdminAssumption
         DEF LapsedIsClosed, IdleExpired, AdminTypeOK, SeenIsRecent
    <3>3. CASE ~lapsed'
      BY <3>3 DEF LapsedIsClosed
    <3> QED
      BY <2>1, <3>1, <3>2, <3>3
  <2>7. SudoIsOfPassword'
    BY <1>0, <2>1 DEF SudoIsOfPassword
  <2> QED
    BY <2>1, <2>3, <2>4, <2>6, <2>7, NothingLetHappen DEF AdminInv
<1>2. CASE Reauth
  <2>1. /\ seenAt' = clock /\ activeAt' = clock /\ UNCHANGED <<clock, guarded>>
        /\ sudoUntil' = None /\ sudoAt' = None /\ lapsed' = FALSE /\ outcome' = "none"
    BY <1>2 DEF Reauth, SudoAfterReauth
  <2>2. AdminTypeOK'
    BY <1>0, <2>1 DEF AdminTypeOK
  <2>3. ASSUME NEW q \in AdminRequests, guarded[q].at = "touch"
        PROVE  guarded[q].seen <= clock
    <3>1. guarded[q].seen \in Nat /\ guarded[q].seen <= seenAt
      BY <1>0, <2>3 DEF AdminTypeOK, SeenIsRecent, Outside
    <3> QED
      BY <1>0, <3>1 DEF AdminTypeOK, SeenIsRecent
  <2>4. SeenIsRecent'
    BY <1>0, <2>1, <2>3, AdminAssumption DEF SeenIsRecent, AdminTypeOK
  <2>5. LapsedIsClosed' /\ SudoIsOfPassword'
    BY <2>1 DEF LapsedIsClosed, SudoIsOfPassword
  <2> QED
    BY <2>1, <2>2, <2>4, <2>5, NothingLetHappen DEF AdminInv
<1>3. ASSUME NEW r \in AdminRequests, LetIn(r) PROVE AdminInv'
  <2>1. /\ ~IdleExpired /\ outcome' = "admitted"
        /\ UNCHANGED <<clock, seenAt, sudoUntil, activeAt, lapsed, sudoAt>>
        /\ guarded' = [guarded EXCEPT ![r] = [at |-> "touch", seen |-> seenAt]]
    BY <1>3 DEF LetIn
  <2>2. ~lapsed /\ ~lapsed'
    BY <1>0, <2>1 DEF LapsedIsClosed
  <2>3. AdminTypeOK'
    BY <1>0, <2>1 DEF AdminTypeOK
  <2>4. SeenIsRecent'
    BY <1>0, <2>1 DEF SeenIsRecent, AdminTypeOK
  <2>5. SudoIsOfPassword'
    BY <1>0, <2>1 DEF SudoIsOfPassword
  <2>6. LapsedIsClosed' /\ PasswordIsFresh'
    BY <2>1, <2>2 DEF LapsedIsClosed, PasswordIsFresh
  <2> QED
    BY <2>3, <2>4, <2>5, <2>6 DEF AdminInv
<1>4. ASSUME NEW r \in AdminRequests, TurnAway(r) PROVE AdminInv'
  <2>1. /\ IdleExpired /\ outcome' = "refused"
        /\ UNCHANGED <<clock, seenAt, sudoUntil, guarded, activeAt, lapsed, sudoAt>>
    BY <1>4 DEF TurnAway
  <2>2. clock - activeAt > IdleLimit - TouchInterval
    BY <1>0, <2>1, AdminAssumption DEF IdleExpired, SeenIsRecent, AdminTypeOK
  <2>3. AdminTypeOK' /\ SeenIsRecent' /\ LapsedIsClosed' /\ SudoIsOfPassword'
    BY <1>0, <2>1, SessionRests
  <2>4. PasswordIsFresh'
    BY <2>1, <2>2 DEF PasswordIsFresh
  <2> QED
    BY <2>3, <2>4 DEF AdminInv
<1>5. ASSUME NEW r \in AdminRequests,
             Touch(r) \/ Leave(r) \/ RunSudo(r) \/ GrantSudo(r) \/ EndSudo(r)
      PROVE  AdminInv'
  <2>1. guarded[r] # Outside
    BY <1>5 DEF Outside, Touch, Leave, RunSudo, GrantSudo, EndSudo
  <2> QED
    BY <1>5, <2>1, InsideAdvances
<1>6. CASE UNCHANGED adminVars
  <2>1. UNCHANGED <<clock, seenAt, sudoUntil, guarded, activeAt, lapsed, sudoAt, outcome>>
    BY <1>6 DEF adminVars
  <2>2. PasswordIsFresh'
    BY <1>0, <2>1 DEF PasswordIsFresh
  <2> QED
    BY <1>0, <2>1, <2>2, SessionRests DEF AdminInv
<1> QED
  BY <1>1, <1>2, <1>3, <1>4, <1>5, <1>6 DEF AdminNext

(* However the guard's reads, its rare writes and the handlers of several   *)
(* requests cross: nobody is let in after an idle limit, nobody is turned   *)
(* away who was active, and sudo mode is that of a password given lately    *)
(* (admin/session.rs), for any limits.                                      *)
THEOREM AdminPasswordIsFresh == AdminSpec => []PasswordIsFresh
<1>1. AdminInv => PasswordIsFresh
  BY DEF AdminInv
<1> QED
  BY AdminStarts, AdminStep, <1>1, PTL DEF AdminSpec

-----------------------------------------------------------------------------
(* Friendships, spectators and invitations agree for any number of people   *)
(* and rooms, whatever the limits.                                          *)

CommunityTypeOK ==
    /\ friendships \subseteq [from: People, to: People, accepted: BOOLEAN]
    /\ phase \in [Rooms -> {"none", "waiting", "playing", "finished"}]
    /\ roomOf \in [People -> Rooms \cup {None}]
    /\ spectators \in [Rooms -> SUBSET People]
    /\ watching \in [People -> Rooms \cup {None}]
    /\ invites \subseteq [from: People, to: People, room: Rooms]

CommunityInv == CommunityTypeOK /\ CommunityAgrees

LEMMA CommunityStarts == CommunityInit => CommunityInv
BY CommunityAssumption
   DEF CommunityInit, CommunityInv, CommunityTypeOK, CommunityAgrees, OneRowPerPair,
       SpectatorsAgree, RoomsAreThere

(* A row for a pair without one, or one row in the place of another of the  *)
(* same pair, leaves one row per pair.                                      *)
LEMMA FriendsStayUnique ==
  ASSUME CommunityInv, NEW u \in People, NEW v \in People,
         SendRequest(u, v) \/ AnswerRequest(u, v) \/ RemoveFriend(u, v) \/ ForgetUser(u)
  PROVE  CommunityInv'
<1> USE DEF CommunityInv, CommunityTypeOK, CommunityAgrees, OneRowPerPair
<1>1. UNCHANGED <<phase, roomOf, spectators, watching, invites>>
  BY DEF SendRequest, AnswerRequest, RemoveFriend, ForgetUser
<1>2. SpectatorsAgree' /\ RoomsAreThere'
  BY <1>1 DEF SpectatorsAgree, RoomsAreThere
<1>3. \A yes \in BOOLEAN :
        /\ Row(u, v, yes) \in [from: People, to: People, accepted: BOOLEAN]
        /\ Row(v, u, yes) \in [from: People, to: People, accepted: BOOLEAN]
        /\ Row(u, v, yes).from = u /\ Row(u, v, yes).to = v
        /\ Row(v, u, yes).from = v /\ Row(v, u, yes).to = u
  BY DEF Row
<1>4. friendships' \subseteq [from: People, to: People, accepted: BOOLEAN] /\ OneRowPerPair'
  <2>1. CASE SendRequest(u, v)
    <3>1. \A f \in friendships : {f.from, f.to} # {u, v}
      BY <2>1 DEF SendRequest, RowsBetween
    <3>2. friendships' = friendships \cup {Row(u, v, FALSE)}
      BY <2>1 DEF SendRequest
    <3>3. \A f \in friendships' : f \in friendships \/ f = Row(u, v, FALSE)
      BY <3>2
    <3>4. OneRowPerPair'
      BY <3>1, <3>3, <1>3
    <3> QED
      BY <3>2, <3>4, <1>3
  <2>2. CASE AnswerRequest(u, v)
    <3>1. Row(v, u, FALSE) \in friendships
      BY <2>2 DEF AnswerRequest
    <3>2. \A f \in friendships \ {Row(v, u, FALSE)} : {f.from, f.to} # {v, u}
      BY <3>1, <1>3
    <3>3. \/ friendships' = (friendships \ {Row(v, u, FALSE)}) \cup {Row(v, u, TRUE)}
          \/ friendships' = friendships \ {Row(v, u, FALSE)}
      BY <2>2 DEF AnswerRequest
    <3>4. ASSUME NEW f \in friendships', NEW g \in friendships', {f.from, f.to} = {g.from, g.to}
          PROVE  f = g
      <4>1. f \in friendships \ {Row(v, u, FALSE)} \/ f = Row(v, u, TRUE)
        BY <3>3
      <4>2. g \in friendships \ {Row(v, u, FALSE)} \/ g = Row(v, u, TRUE)
        BY <3>3
      <4>3. Row(v, u, TRUE).from = v /\ Row(v, u, TRUE).to = u
        BY <1>3
      <4>4. CASE f = Row(v, u, TRUE)
        BY <3>4, <4>2, <4>3, <4>4, <3>2
      <4>5. CASE f # Row(v, u, TRUE) /\ g = Row(v, u, TRUE)
        BY <3>4, <4>1, <4>3, <4>5, <3>2
      <4>6. CASE f # Row(v, u, TRUE) /\ g # Row(v, u, TRUE)
        BY <3>4, <4>1, <4>2, <4>6
      <4> QED
        BY <4>4, <4>5, <4>6
    <3> QED
      BY <3>3, <3>4, <1>3
  <2>3. CASE RemoveFriend(u, v) \/ ForgetUser(u)
    <3>1. friendships' \subseteq friendships
      BY <2>3 DEF RemoveFriend, ForgetUser
    <3> QED
      BY <3>1
  <2> QED
    BY <2>1, <2>2, <2>3
<1> QED
  BY <1>1, <1>2, <1>4

(* cleanup_room takes everything along that points to the room.             *)
LEMMA CleanUpAgrees ==
  ASSUME CommunityInv, NEW r \in Rooms, CleanUp(r), UNCHANGED friendships,
         roomOf' \in [People -> Rooms \cup {None}]
  PROVE  CommunityInv'
<1> USE CommunityAssumption DEF CommunityInv, CommunityTypeOK, CommunityAgrees
<1>1. CommunityTypeOK'
  BY DEF CleanUp, WatchingWithout, InvitesWithout
<1>2. OneRowPerPair'
  BY DEF OneRowPerPair
<1>3. SpectatorsAgree'
  BY DEF CleanUp, WatchingWithout, SpectatorsAgree
<1>4. RoomsAreThere'
  BY DEF CleanUp, WatchingWithout, InvitesWithout, RoomsAreThere
<1> QED
  BY <1>1, <1>2, <1>3, <1>4

(* What leaves the friendships alone need only keep the other two parts.    *)
LEMMA FriendsUntouched ==
  ASSUME CommunityInv, UNCHANGED friendships
  PROVE  /\ friendships' \subseteq [from: People, to: People, accepted: BOOLEAN]
         /\ OneRowPerPair'
BY DEF CommunityInv, CommunityTypeOK, CommunityAgrees, OneRowPerPair

LEMMA InviteAgrees ==
  ASSUME CommunityInv, NEW u \in People, NEW v \in People, Invite(u, v)
  PROVE  CommunityInv'
<1> DEFINE new == [from |-> u, to |-> v, room |-> roomOf[u]]
<1>1. roomOf[u] \in Rooms /\ phase[roomOf[u]] = "waiting" /\ invites' = invites \cup {new}
  BY CommunityAssumption DEF Invite, CommunityInv, CommunityTypeOK
<1>2. UNCHANGED <<friendships, phase, roomOf, spectators, watching>>
  BY DEF Invite
<1>3. new \in [from: People, to: People, room: Rooms] /\ new.room = roomOf[u]
  BY <1>1
<1> HIDE DEF new
<1>4. CommunityTypeOK'
  BY <1>1, <1>2, <1>3 DEF CommunityInv, CommunityTypeOK
<1>5. SpectatorsAgree'
  BY <1>2 DEF CommunityInv, CommunityAgrees, SpectatorsAgree
<1>6. RoomsAreThere'
  BY <1>1, <1>2, <1>3 DEF CommunityInv, CommunityAgrees, RoomsAreThere
<1> QED
  BY <1>2, <1>4, <1>5, <1>6, FriendsUntouched DEF CommunityInv, CommunityAgrees

(* A room that stays what it was to those who point to it.                  *)
LEMMA RoomsStay ==
  ASSUME CommunityInv, UNCHANGED <<friendships, spectators, watching, invites>>,
         phase' \in [Rooms -> {"none", "waiting", "playing", "finished"}],
         roomOf' \in [People -> Rooms \cup {None}],
         \A r \in Rooms : phase[r] # "none" => phase'[r] # "none"
  PROVE  CommunityInv'
<1>1. CommunityTypeOK'
  BY DEF CommunityInv, CommunityTypeOK
<1>2. SpectatorsAgree'
  BY DEF CommunityInv, CommunityAgrees, SpectatorsAgree
<1>3. \A i \in invites' : phase'[i.room] # "none"
  BY DEF CommunityInv, CommunityTypeOK, CommunityAgrees, RoomsAreThere
<1>4. \A u \in People : watching'[u] # None => phase'[watching'[u]] # "none"
  BY DEF CommunityInv, CommunityTypeOK, CommunityAgrees, RoomsAreThere
<1> QED
  BY <1>1, <1>2, <1>3, <1>4, FriendsUntouched
     DEF CommunityInv, CommunityAgrees, RoomsAreThere

(* A spectator comes or goes: one of the room's, and his own room.          *)
LEMMA WatchingAgrees ==
  ASSUME CommunityInv, NEW u \in People, NEW r \in Rooms, Spectate(u, r) \/ StopWatching(u)
  PROVE  CommunityInv'
<1>1. UNCHANGED <<friendships, phase, roomOf, invites>>
  BY DEF Spectate, StopWatching
<1>2. PICK w \in Rooms \cup {None} : watching' = [watching EXCEPT ![u] = w]
  BY DEF Spectate, StopWatching
<1>3. spectators' \in [Rooms -> SUBSET People] /\ watching' \in [People -> Rooms \cup {None}]
  <2>1. CASE Spectate(u, r)
    BY <2>1 DEF Spectate, CommunityInv, CommunityTypeOK
  <2>2. CASE StopWatching(u)
    BY <2>2 DEF StopWatching, CommunityInv, CommunityTypeOK
  <2> QED
    BY <2>1, <2>2
<1>4. CommunityTypeOK'
  BY <1>1, <1>3 DEF CommunityInv, CommunityTypeOK
<1>5. SpectatorsAgree'
  <2> SUFFICES ASSUME NEW v \in People, NEW q \in Rooms
               PROVE  v \in spectators'[q] <=> watching'[v] = q
    BY DEF SpectatorsAgree
  <2>1. v \in spectators[q] <=> watching[v] = q
    BY DEF CommunityInv, CommunityAgrees, SpectatorsAgree
  <2>2. watching \in [People -> Rooms \cup {None}] /\ spectators \in [Rooms -> SUBSET People]
    BY DEF CommunityInv, CommunityTypeOK
  <2>3. CASE Spectate(u, r)
    <3>1. watching[u] = None /\ watching'[v] = (IF v = u THEN r ELSE watching[v])
      BY <2>2, <2>3 DEF Spectate
    <3>2. spectators'[q] = (IF q = r THEN spectators[q] \cup {u} ELSE spectators[q])
      BY <2>2, <2>3 DEF Spectate
    <3> QED
      BY <2>1, <3>1, <3>2, CommunityAssumption
  <2>4. CASE StopWatching(u)
    <3>1. watching'[v] = (IF v = u THEN None ELSE watching[v])
      BY <2>2, <2>4 DEF StopWatching
    <3>2. spectators'[q] = (IF q = watching[u] THEN spectators[q] \ {u} ELSE spectators[q])
      BY <2>2, <2>4 DEF StopWatching
    <3> QED
      BY <2>1, <3>1, <3>2, CommunityAssumption
  <2> QED
    BY <2>3, <2>4
<1>6. RoomsAreThere'
  <2>1. \A i \in invites' : phase'[i.room] # "none"
    BY <1>1 DEF CommunityInv, CommunityAgrees, RoomsAreThere
  <2>2. ASSUME NEW v \in People, watching'[v] # None
        PROVE  phase[watching'[v]] # "none"
    <3>1. watching[v] # None => phase[watching[v]] # "none"
      BY DEF CommunityInv, CommunityAgrees, RoomsAreThere
    <3>2. CASE Spectate(u, r)
      BY <2>2, <3>1, <3>2 DEF Spectate, CommunityInv, CommunityTypeOK
    <3>3. CASE StopWatching(u)
      BY <2>2, <3>1, <3>3 DEF StopWatching, CommunityInv, CommunityTypeOK
    <3> QED
      BY <3>2, <3>3
  <2> QED
    BY <1>1, <2>1, <2>2 DEF RoomsAreThere
<1> QED
  BY <1>1, <1>4, <1>5, <1>6, FriendsUntouched DEF CommunityInv, CommunityAgrees

LEMMA CommunityStep == CommunityInv /\ [CommunityNext]_communityVars => CommunityInv'
<1> SUFFICES ASSUME CommunityInv, [CommunityNext]_communityVars
             PROVE  CommunityInv'
  OBVIOUS
<1>0. /\ phase \in [Rooms -> {"none", "waiting", "playing", "finished"}]
      /\ roomOf \in [People -> Rooms \cup {None}]
      /\ watching \in [People -> Rooms \cup {None}]
  BY DEF CommunityInv, CommunityTypeOK
<1>1. CASE \E u, v \in People : SendRequest(u, v) \/ AnswerRequest(u, v) \/ RemoveFriend(u, v)
  BY <1>1, FriendsStayUnique
<1>2. CASE \E u \in People : ForgetUser(u)
  BY <1>2, FriendsStayUnique
<1>3. CASE \E u, v \in People : Invite(u, v)
  BY <1>3, InviteAgrees
<1>4. ASSUME NEW u \in People, LeavePlace(u)
      PROVE  CommunityInv'
  <2>1. roomOf[u] \in Rooms /\ roomOf' \in [People -> Rooms \cup {None}] /\ UNCHANGED friendships
    BY <1>0, <1>4 DEF LeavePlace
  <2>2. CASE CleanUp(roomOf[u])
    BY <2>1, <2>2, CleanUpAgrees
  <2>3. CASE UNCHANGED <<phase, spectators, watching, invites>>
    BY <1>0, <2>1, <2>3, RoomsStay
  <2> QED
    BY <1>4, <2>2, <2>3 DEF LeavePlace
<1>5. ASSUME NEW u \in People, StopWatching(u)
      PROVE  CommunityInv'
  <2>1. watching[u] \in Rooms
    BY <1>0, <1>5 DEF StopWatching
  <2> QED
    BY <1>5, <2>1, WatchingAgrees
<1>6. ASSUME NEW u \in People, NEW r \in Rooms, TakePlace(u, r)
      PROVE  CommunityInv'
  <2>1. /\ phase' \in [Rooms -> {"none", "waiting", "playing", "finished"}]
        /\ \A q \in Rooms : phase[q] # "none" => phase'[q] # "none"
    BY <1>0, <1>6 DEF TakePlace
  <2>2. roomOf' \in [People -> Rooms \cup {None}]
    BY <1>0, <1>6 DEF TakePlace
  <2>3. UNCHANGED <<friendships, spectators, watching, invites>>
    BY <1>6 DEF TakePlace
  <2> QED
    BY <2>1, <2>2, <2>3, RoomsStay
<1>7. CASE \E u \in People, r \in Rooms : Spectate(u, r)
  BY <1>7, WatchingAgrees
<1>8. ASSUME NEW r \in Rooms, Play(r)
      PROVE  CommunityInv'
  <2>1. /\ phase' \in [Rooms -> {"none", "waiting", "playing", "finished"}]
        /\ \A q \in Rooms : phase[q] # "none" => phase'[q] # "none"
    BY <1>0, <1>8 DEF Play
  <2>2. UNCHANGED <<friendships, roomOf, spectators, watching, invites>>
    BY <1>8 DEF Play
  <2> QED
    BY <1>0, <2>1, <2>2, RoomsStay
<1>9. ASSUME NEW r \in Rooms, Disband(r)
      PROVE  CommunityInv'
  <2>1. roomOf' \in [People -> Rooms \cup {None}] /\ UNCHANGED friendships /\ CleanUp(r)
    BY <1>0, <1>9 DEF Disband
  <2> QED
    BY <2>1, CleanUpAgrees
<1>10. ASSUME NEW i \in invites, RespondInvite(i)
       PROVE  CommunityInv'
  <2>1. invites' \subseteq invites /\ UNCHANGED <<friendships, phase, roomOf, spectators, watching>>
    BY <1>10 DEF RespondInvite
  <2>2. CommunityTypeOK'
    BY <2>1 DEF CommunityInv, CommunityTypeOK
  <2>3. SpectatorsAgree' /\ RoomsAreThere'
    BY <2>1 DEF CommunityInv, CommunityAgrees, SpectatorsAgree, RoomsAreThere
  <2> QED
    BY <2>1, <2>2, <2>3, FriendsUntouched DEF CommunityInv, CommunityAgrees
<1>11. CASE UNCHANGED communityVars
  BY <1>0, <1>11, RoomsStay DEF communityVars
<1> QED
  BY <1>1, <1>2, <1>3, <1>4, <1>5, <1>6, <1>7, <1>8, <1>9, <1>10, <1>11 DEF CommunityNext

(* Whichever events of several users, the end of a room and the deletion of *)
(* an account follow each other: one row for a pair, spectators that agree, *)
(* no reference to a room that is gone (state.rs cleanup_room, misc.rs      *)
(* send_friend_request).                                                    *)
THEOREM CommunityAlwaysAgrees == CommunitySpec => []CommunityAgrees
<1>1. CommunityInv => CommunityAgrees
  BY DEF CommunityInv
<1> QED
  BY CommunityStarts, CommunityStep, <1>1, PTL DEF CommunitySpec

-----------------------------------------------------------------------------
(* The limiter keeps its limits, for any limits and overrides and any       *)
(* number of checks at the same time.                                       *)

(* The least and the greatest of a set of numbers.                          *)
LEMMA LeastIsMin ==
  ASSUME NEW S \in SUBSET Nat, S # {}
  PROVE  Min(S) \in S /\ \A y \in S : Min(S) <= y
<1> PICK n \in S : TRUE
  OBVIOUS
<1> DEFINE I == {i \in S : i <= n}
           R == StrictSubsetOrdering(0 .. n)
           F == FiniteSubsetsOf(0 .. n)
           T == {0 .. i : i \in I}
<1>1. T \in SUBSET F /\ T # {}
  <2>1. n \in I /\ \A i \in I : 0 .. i \subseteq 0 .. n /\ IsFiniteSet(0 .. i)
    BY FS_Interval
  <2>2. \A i \in I : 0 .. i \in F
    BY <2>1 DEF FiniteSubsetsOf
  <2> HIDE DEF F, I
  <2> QED
    BY <2>1, <2>2
<1>2. PICK X \in T : \A Y \in T : <<Y, X>> \notin R
  <2>1. IsWellFoundedOn(R, F)
    BY FS_StrictSubsetOrderingWellFounded
  <2> HIDE DEF R, F, T
  <2> QED
    BY <1>1, <2>1, WFMin
<1>3. PICK m \in I : X = 0 .. m
  OBVIOUS
<1>4. ASSUME NEW j \in S
      PROVE  m <= j
  <2>1. CASE j > n
    BY <2>1
  <2>2. CASE j <= n
    <3>1. 0 .. j \in T /\ <<0 .. j, 0 .. m>> \notin R
      BY <1>2, <1>3, <2>2
    <3>2. ~(j < m)
      <4> SUFFICES ASSUME j < m
                   PROVE  FALSE
        OBVIOUS
      <4>1. 0 .. j \subseteq 0 .. m /\ 0 .. j # 0 .. m /\ 0 .. m \subseteq 0 .. n
        BY <1>3
      <4> QED
        BY <3>1, <4>1 DEF StrictSubsetOrdering
    <3> QED
      BY <3>2
  <2> QED
    BY <2>1, <2>2
<1> QED
  BY <1>4, <1>3 DEF Min

LEMMA GreatestIsMax ==
  ASSUME NEW S \in SUBSET Nat, IsFiniteSet(S), S # {}
  PROVE  Max(S) \in S /\ \A y \in S : y <= Max(S)
<1> DEFINE R == StrictSubsetOrdering(S)
           F == FiniteSubsetsOf(S)
           From(i) == {j \in S : i <= j}
           T == {From(i) : i \in S}
<1>1. T \in SUBSET F /\ T # {}
  <2>1. \A i \in S : From(i) \subseteq S /\ IsFiniteSet(From(i))
    BY FS_Subset
  <2> QED
    BY <2>1 DEF FiniteSubsetsOf
<1>2. PICK X \in T : \A Y \in T : <<Y, X>> \notin R
  <2>1. IsWellFoundedOn(R, F)
    BY FS_StrictSubsetOrderingWellFounded
  <2> HIDE DEF R, F, T
  <2> QED
    BY <1>1, <2>1, WFMin
<1>3. PICK m \in S : X = From(m)
  OBVIOUS
<1>4. ASSUME NEW j \in S
      PROVE  j <= m
  <2> SUFFICES ASSUME m < j
               PROVE  FALSE
    OBVIOUS
  <2>1. From(j) \in T /\ <<From(j), From(m)>> \notin R
    BY <1>2, <1>3
  <2>2. From(j) \subseteq From(m) /\ From(j) # From(m) /\ From(m) \subseteq S
    <3>1. m \in From(m) /\ m \notin From(j)
      OBVIOUS
    <3>2. From(j) \subseteq From(m)
      <4>1. \A a, b, c \in Nat : a < b /\ b <= c => a <= c
        OBVIOUS
      <4>2. m \in Nat /\ j \in Nat
        OBVIOUS
      <4> SUFFICES ASSUME NEW y \in S, j <= y
                   PROVE  m <= y
        OBVIOUS
      <4>3. y \in Nat
        OBVIOUS
      <4> QED
        BY <4>1, <4>2, <4>3
    <3>3. From(m) \subseteq S
      OBVIOUS
    <3> HIDE DEF From
    <3> QED
      BY <3>1, <3>2, <3>3
  <2> HIDE DEF From
  <2> QED
    BY <2>1, <2>2 DEF StrictSubsetOrdering
<1> QED
  BY <1>4 DEF Max

-----------------------------------------------------------------------------
(* The calls remembered are the end of those accepted: what went from the   *)
(* front was out of every window this action may have.                      *)
InOrder(calls, t) ==
  /\ \A i \in 1 .. Len(calls) : calls[i] <= t
  /\ \A i, j \in 1 .. Len(calls) : i <= j => calls[i] <= calls[j]

Follows(kept, calls, window, t) ==
  LET n == Len(calls) - Len(kept) IN
  /\ n >= 0
  /\ \A i \in 1 .. Len(kept) : kept[i] = calls[n + i]
  /\ \A i \in 1 .. n : t - calls[i] >= window

LimiterTypeOK ==
  /\ instant \in Nat
  /\ limitOverrides \in OverrideTables \cup {<<>>}
  /\ stamps \in [Keys -> [Limited -> Seq(Nat)]]
  /\ accepted \in [Keys -> [Limited -> Seq(Nat)]]
  /\ checking \in [Callers -> CallRecord \cup {None}]

LimiterInv ==
  /\ LimiterTypeOK
  /\ \A c \in Callers : checking[c] # None => NarrowestWindow(checking[c].action) <= checking[c].limit.window
  /\ \A k \in Keys, a \in Limited :
       InOrder(accepted[k][a], instant) /\ Follows(stamps[k][a], accepted[k][a], NarrowestWindow(a), instant)
  /\ RateIsKept

(* The windows of an action.                                                *)
LEMMA NarrowestIs ==
  ASSUME NEW a \in Limited
  PROVE  /\ NarrowestWindow(a) \in Nat /\ NarrowestWindow(a) <= DefaultLimit[a].window
         /\ \A table \in OverrideTables : a \in DOMAIN table => NarrowestWindow(a) <= table[a].window
<1> DEFINE S == {DefaultLimit[a].window} \cup {t[a].window : t \in {u \in OverrideTables : a \in DOMAIN u}}
<1>1. S \in SUBSET Nat /\ S # {} /\ DefaultLimit[a].window \in S
  BY LimiterAssumption DEF LimitRecord
<1>2. \A table \in OverrideTables : a \in DOMAIN table => table[a].window \in S
  OBVIOUS
<1>3. NarrowestWindow(a) = Min(S)
  BY DEF NarrowestWindow
<1> HIDE DEF S
<1>4. Min(S) \in S /\ \A y \in S : Min(S) <= y
  BY <1>1, LeastIsMin
<1> QED
  BY <1>1, <1>2, <1>3, <1>4

LEMMA LimitIsWide ==
  ASSUME LimiterTypeOK, NEW a \in Limited
  PROVE  LimitOf(a) \in LimitRecord /\ NarrowestWindow(a) <= LimitOf(a).window
<1>1. CASE a \in DOMAIN limitOverrides
  <2>1. limitOverrides \in OverrideTables
    BY <1>1 DEF LimiterTypeOK
  <2> QED
    BY <1>1, <2>1, NarrowestIs, LimiterAssumption DEF LimitOf
<1>2. CASE a \notin DOMAIN limitOverrides
  BY <1>2, NarrowestIs, LimiterAssumption DEF LimitOf
<1> QED
  BY <1>1, <1>2

(* The windows of a table of limits are finitely many. *)
LEMMA WindowsAreFew ==
  ASSUME NEW S, IsFiniteSet(S), NEW f
  PROVE  IsFiniteSet({f[c].window : c \in S})
<1> DEFINE W == {f[c].window : c \in S}
           g == [c \in S |-> f[c].window]
<1>1. g \in Surjection(S, W)
  BY DEF Surjection
<1> QED
  BY <1>1, FS_Surjection

LEMMA PruningIsWide ==
  ASSUME LimiterTypeOK, NEW a \in Limited, NEW b \in Limited
  PROVE  KeepWindow(b) \in Nat /\ NarrowestWindow(a) <= KeepWindow(b)
<1> DEFINE D == {DefaultLimit[c].window : c \in Limited}
           O == {limitOverrides[c].window : c \in DOMAIN limitOverrides}
<1>1. IsFiniteSet(D) /\ D \in SUBSET Nat /\ DefaultLimit[a].window \in D
  <2>1. IsFiniteSet(D)
    BY LimiterAssumption, WindowsAreFew
  <2> QED
    BY <2>1, LimiterAssumption DEF LimitRecord
<1>2. IsFiniteSet(O) /\ O \in SUBSET Nat
  <2>1. \/ limitOverrides \in OverrideTables
        \/ DOMAIN limitOverrides = {}
    BY DEF LimiterTypeOK
  <2>2. IsFiniteSet(DOMAIN limitOverrides)
    BY <2>1, LimiterAssumption, FS_EmptySet
  <2>3. IsFiniteSet(O)
    BY <2>2, WindowsAreFew
  <2> QED
    BY <2>1, <2>3, LimiterAssumption DEF LimitRecord
<1>3. KeepWindow(b) = Max(D \cup O)
  BY DEF KeepWindow
<1> HIDE DEF D, O
<1>4. IsFiniteSet(D \cup O) /\ D \cup O \in SUBSET Nat /\ DefaultLimit[a].window \in D \cup O
  BY <1>1, <1>2, FS_Union
<1>5. Max(D \cup O) \in Nat /\ DefaultLimit[a].window <= Max(D \cup O)
  BY <1>4, GreatestIsMax
<1> QED
  BY <1>3, <1>4, <1>5, NarrowestIs

-----------------------------------------------------------------------------
(* What trimming, pruning, a further call and the passing of time keep.     *)

LEMMA AgeGrows ==
  ASSUME NEW t \in Nat, NEW u \in Nat, NEW x \in Nat, NEW y \in Nat, NEW w \in Nat, NEW window \in Nat,
         t <= u, x <= y, w <= window
  PROVE  /\ t - x >= window => u - x >= w
         /\ t - x < w => t - y < w
OBVIOUS

LEMMA AreNumbers ==
  ASSUME NEW calls \in Seq(Nat)
  PROVE  Len(calls) \in Nat /\ DOMAIN calls = 1 .. Len(calls) /\ \A i \in 1 .. Len(calls) : calls[i] \in Nat
OBVIOUS

LEMMA TrimmedIs ==
  ASSUME instant \in Nat, NEW kept \in Seq(Nat), NEW window \in Nat
  PROVE  LET t == Trimmed(kept, window)
             n == Len(kept) - Len(t)
         IN /\ t \in Seq(Nat) /\ n \in 0 .. Len(kept)
            /\ \A i \in 1 .. Len(t) : t[i] = kept[n + i]
            /\ \A i \in 1 .. n : instant - kept[i] >= window
            /\ Len(t) > 0 => instant - t[1] < window
<1> DEFINE R == Recent(kept, window)
           t == Trimmed(kept, window)
<1>1. R \in SUBSET (1 .. Len(kept)) /\ \A i \in 1 .. Len(kept) : i \in R <=> instant - kept[i] < window
  BY SMTT(20) DEF Recent
<1>2. \A i \in 1 .. Len(kept) : kept[i] \in Nat
  OBVIOUS
<1>3. CASE R = {}
  <2>1. t = <<>>
    BY <1>3 DEF Trimmed
  <2> HIDE DEF R, t
  <2> QED
    BY <1>1, <1>2, <1>3, <2>1 DEF t
<1>4. CASE R # {}
  <2>1. R \in SUBSET Nat
    BY <1>1
  <2>2. t = SubSeq(kept, Min(R), Len(kept))
    BY <1>4 DEF Trimmed
  <2> HIDE DEF R
  <2>3. PICK m \in R : m = Min(R) /\ \A y \in R : m <= y
    BY <1>4, <2>1, LeastIsMin
  <2>4. m \in 1 .. Len(kept) /\ t = SubSeq(kept, m, Len(kept))
    BY <1>1, <2>2, <2>3
  <2>5. t \in Seq(Nat) /\ Len(t) = Len(kept) - m + 1 /\ \A i \in 1 .. Len(t) : t[i] = kept[m - 1 + i]
    <3>1. m \in 1 .. Len(kept) + 1 /\ Len(kept) \in m - 1 .. Len(kept)
      BY <2>4
    <3>2. \A i \in m .. Len(kept) : kept[i] \in Nat
      BY <3>1, AreNumbers
    <3>3. /\ SubSeq(kept, m, Len(kept)) \in Seq(Nat)
          /\ Len(SubSeq(kept, m, Len(kept))) = IF m <= Len(kept) THEN Len(kept) - m + 1 ELSE 0
          /\ \A i \in 1 .. Len(kept) - m + 1 : SubSeq(kept, m, Len(kept))[i] = kept[m + i - 1]
      BY <3>1, <3>2, SubSeqProperties
    <3>4. Len(t) = Len(kept) - m + 1
      BY <2>4, <3>3
    <3>5. ASSUME NEW i \in 1 .. Len(t)
          PROVE  t[i] = kept[m - 1 + i]
      <4>1. m + i - 1 = m - 1 + i /\ i \in 1 .. Len(kept) - m + 1
        BY <3>1, <3>4
      <4> QED
        BY <2>4, <3>3, <4>1
    <3> QED
      BY <2>4, <3>3, <3>4, <3>5
  <2>6. \A i \in 1 .. m - 1 : instant - kept[i] >= window
    <3> SUFFICES ASSUME NEW i \in 1 .. m - 1
                 PROVE  instant - kept[i] >= window
      OBVIOUS
    <3>1. i \in 1 .. Len(kept) /\ i < m /\ i \in Nat /\ m \in Nat
      BY <2>4
    <3>2. i \notin R
      BY <2>3, <3>1
    <3> QED
      BY <1>1, <1>2, <3>1, <3>2
  <2>7. instant - t[1] < window
    BY <1>1, <2>3, <2>4, <2>5
  <2> HIDE DEF t
  <2> QED
    BY <2>4, <2>5, <2>6, <2>7 DEF t
<1> QED
  BY <1>3, <1>4

(* After a trim all that is left is in the window. *)
LEMMA TrimFollows ==
  ASSUME instant \in Nat, NEW calls \in Seq(Nat), NEW kept \in Seq(Nat), NEW w \in Nat, NEW window \in Nat, w <= window,
         InOrder(calls, instant), Follows(kept, calls, w, instant)
  PROVE  /\ Trimmed(kept, window) \in Seq(Nat)
         /\ Follows(Trimmed(kept, window), calls, w, instant)
         /\ \A i \in 1 .. Len(Trimmed(kept, window)) : instant - Trimmed(kept, window)[i] < window
<1>1. PICK t : t = Trimmed(kept, window)
  OBVIOUS
<1> DEFINE n == Len(kept) - Len(t)
           d == Len(calls) - Len(kept)
<1>2. /\ t \in Seq(Nat) /\ n \in 0 .. Len(kept)
      /\ \A i \in 1 .. Len(t) : t[i] = kept[n + i]
      /\ \A i \in 1 .. n : instant - kept[i] >= window
      /\ Len(t) > 0 => instant - t[1] < window
  BY <1>1, TrimmedIs
<1>3. d \in Nat /\ (\A i \in 1 .. Len(kept) : kept[i] = calls[d + i]) /\ \A i \in 1 .. d : instant - calls[i] >= w
  BY DEF Follows
<1>4. Len(calls) \in Nat /\ Len(kept) \in Nat /\ Len(t) \in Nat /\ Len(calls) - Len(t) = d + n /\ Len(t) = Len(kept) - n /\ Len(kept) = Len(calls) - d
  BY <1>2
<1> HIDE DEF n, d
<1>5. \A i \in 1 .. Len(t) : t[i] = calls[d + n + i] /\ d + n + i \in 1 .. Len(calls) /\ calls[d + n + i] \in Nat
  <2> SUFFICES ASSUME NEW i \in 1 .. Len(t)
               PROVE  t[i] = calls[d + n + i] /\ d + n + i \in 1 .. Len(calls) /\ calls[d + n + i] \in Nat
    OBVIOUS
  <2>1. n + i \in 1 .. Len(kept) /\ d + (n + i) = d + n + i
    BY <1>2, <1>3, <1>4
  <2>2. d + n + i \in 1 .. Len(calls)
    BY <1>2, <1>3, <1>4, <2>1
  <2>3. kept[n + i] = calls[d + (n + i)]
    BY <1>3, <2>1
  <2>4. t[i] = kept[n + i]
    BY <1>2
  <2>5. calls[d + n + i] \in Nat
    BY <2>2, AreNumbers
  <2> QED
    BY <2>1, <2>2, <2>3, <2>4, <2>5
<1>6. \A i \in 1 .. d + n : instant - calls[i] >= w
  <2> SUFFICES ASSUME NEW i \in 1 .. d + n, i \notin 1 .. d
               PROVE  instant - calls[i] >= w
    BY <1>3
  <2>1. i - d \in 1 .. n /\ i - d \in 1 .. Len(kept) /\ d + (i - d) = i
    BY <1>2, <1>3, <1>4
  <2>2. instant - kept[i - d] >= window /\ kept[i - d] = calls[i]
    BY <1>2, <1>3, <2>1
  <2>3. kept[i - d] \in Nat
    BY <2>1, AreNumbers
  <2>4. instant - kept[i - d] >= w
    BY <2>2, <2>3, AgeGrows
  <2> QED
    BY <2>2, <2>4
<1>7. ASSUME NEW i \in 1 .. Len(t)
      PROVE  instant - t[i] < window
  <2>1. 1 \in 1 .. Len(t) /\ Len(t) > 0
    BY <1>4
  <2>2. calls[d + n + 1] <= calls[d + n + i] /\ t[1] = calls[d + n + 1] /\ t[i] = calls[d + n + i]
    <3>1. d + n + 1 <= d + n + i /\ d + n + 1 \in 1 .. Len(calls) /\ d + n + i \in 1 .. Len(calls)
      BY <1>5, <2>1, <1>2, <1>3
    <3> QED
      BY <1>5, <2>1, <3>1 DEF InOrder
  <2>3. t[1] \in Nat /\ t[i] \in Nat
    BY <1>2, <2>1, AreNumbers
  <2>4. t[1] <= t[i] /\ instant - t[1] < window
    BY <1>2, <2>1, <2>2
  <2> QED
    BY <2>3, <2>4, AgeGrows
<1>8. Follows(t, calls, w, instant)
  <2>1. Len(calls) - Len(t) = d + n /\ d + n \in Nat /\ d + n >= 0
    BY <1>2, <1>3, <1>4
  <2> QED
    BY <1>5, <1>6, <2>1 DEF Follows
<1> QED
  BY <1>1, <1>2, <1>7, <1>8

(* So the calls in the window and those remembered can be compared. *)
LEMMA WindowCounts ==
  ASSUME instant \in Nat, NEW calls \in Seq(Nat), NEW kept \in Seq(Nat), NEW w \in Nat, NEW window \in Nat,
         InOrder(calls, instant), Follows(kept, calls, w, instant),
         \A i \in 1 .. Len(kept) : instant - kept[i] < window
  PROVE  /\ CallsWithin(calls, w) \in Nat /\ CallsWithin(calls, w) <= Len(kept)
         /\ CallsWithin(calls, window) \in Nat /\ CallsWithin(calls, window) >= Len(kept)
<1> DEFINE n == Len(calls) - Len(kept)
           I(v) == {i \in DOMAIN calls : instant - calls[i] < v}
<1>1. n \in Nat /\ n + Len(kept) = Len(calls) /\ Len(kept) \in Nat /\ Len(calls) \in Nat /\ DOMAIN calls = 1 .. Len(calls)
  BY DEF Follows
<1>2. \A v : IsFiniteSet(I(v)) /\ Cardinality(I(v)) \in Nat
  <2> SUFFICES ASSUME NEW v
               PROVE  IsFiniteSet(I(v)) /\ Cardinality(I(v)) \in Nat
    OBVIOUS
  <2>1. I(v) \in SUBSET (1 .. Len(calls)) /\ IsFiniteSet(1 .. Len(calls))
    BY <1>1, FS_Interval
  <2> HIDE DEF I
  <2> QED
    BY <2>1, FS_Subset, FS_CardinalityType
<1>3. IsFiniteSet(n + 1 .. Len(calls)) /\ Cardinality(n + 1 .. Len(calls)) = Len(kept)
  <2>1. n + 1 \in Int /\ Len(calls) \in Int /\ (IF n + 1 > Len(calls) THEN 0 ELSE Len(calls) - (n + 1) + 1) = Len(kept)
    BY <1>1
  <2> HIDE DEF n
  <2> QED
    BY <2>1, FS_Interval
<1>4. I(w) \in SUBSET (n + 1 .. Len(calls))
  <2> SUFFICES ASSUME NEW i \in 1 .. Len(calls), instant - calls[i] < w
               PROVE  i \in n + 1 .. Len(calls)
    BY <1>1
  <2>0. calls[i] \in Nat
    BY AreNumbers
  <2>1. ~(instant - calls[i] >= w)
    BY <2>0
  <2>2. i \notin 1 .. n
    BY <2>1 DEF Follows
  <2> QED
    BY <1>1, <2>2
<1>5. (n + 1 .. Len(calls)) \in SUBSET I(window)
  <2> SUFFICES ASSUME NEW i \in n + 1 .. Len(calls)
               PROVE  i \in 1 .. Len(calls) /\ instant - calls[i] < window
    BY <1>1
  <2>1. i - n \in 1 .. Len(kept) /\ n + (i - n) = i
    BY <1>1
  <2>2. kept[i - n] = calls[i]
    BY <2>1 DEF Follows
  <2>3. i \in 1 .. Len(calls) /\ instant - kept[i - n] < window
    BY <1>1, <2>1
  <2> QED
    BY <2>2, <2>3
<1> HIDE DEF I
<1>6. Cardinality(I(w)) <= Len(kept)
  BY <1>3, <1>4, FS_Subset
<1>7. Len(kept) <= Cardinality(I(window))
  BY <1>2, <1>3, <1>5, FS_Subset
<1>8. CallsWithin(calls, w) = Cardinality(I(w)) /\ CallsWithin(calls, window) = Cardinality(I(window))
  BY DEF CallsWithin, I
<1> QED
  BY <1>1, <1>2, <1>6, <1>7, <1>8

(* A history that is pruned had nothing in the widest window. *)
LEMMA PruneFollows ==
  ASSUME instant \in Nat, NEW calls \in Seq(Nat), NEW kept \in Seq(Nat), NEW w \in Nat, NEW window \in Nat, w <= window,
         Follows(kept, calls, w, instant), Recent(kept, window) = {}
  PROVE  Follows(<<>>, calls, w, instant)
<1> DEFINE d == Len(calls) - Len(kept)
<1>1. \A i \in 1 .. Len(kept) : kept[i] \in Nat /\ instant - kept[i] >= window
  BY DEF Recent
<1>2. d \in Nat /\ Len(kept) \in Nat /\ Len(calls) = d + Len(kept)
      /\ (\A i \in 1 .. Len(kept) : kept[i] = calls[d + i]) /\ \A i \in 1 .. d : instant - calls[i] >= w
  BY DEF Follows
<1> HIDE DEF d
<1>3. ASSUME NEW i \in 1 .. Len(calls), i \notin 1 .. d
      PROVE  instant - calls[i] >= w
  <2>1. i - d \in 1 .. Len(kept) /\ d + (i - d) = i
    BY <1>2, <1>3
  <2>2. kept[i - d] = calls[i] /\ kept[i - d] \in Nat /\ instant - kept[i - d] >= window
    BY <1>1, <1>2, <2>1
  <2>3. calls[i] \in Nat /\ instant - calls[i] >= window
    BY <2>2
  <2> QED
    BY <2>3, SMTT(20)
<1> QED
  BY <1>2, <1>3 DEF Follows

LEMMA CallFollows ==
  ASSUME instant \in Nat, NEW calls \in Seq(Nat), NEW kept \in Seq(Nat), NEW w \in Nat,
         InOrder(calls, instant), Follows(kept, calls, w, instant)
  PROVE  /\ InOrder(Append(calls, instant), instant)
         /\ Follows(Append(kept, instant), Append(calls, instant), w, instant)
<1> DEFINE more == Append(calls, instant)
           left == Append(kept, instant)
<1>1. more \in Seq(Nat) /\ Len(more) = Len(calls) + 1 /\ more[Len(calls) + 1] = instant /\ \A i \in 1 .. Len(calls) : more[i] = calls[i]
  BY AppendProperties
<1>2. left \in Seq(Nat) /\ Len(left) = Len(kept) + 1 /\ left[Len(kept) + 1] = instant /\ \A i \in 1 .. Len(kept) : left[i] = kept[i]
  BY AppendProperties
<1>3. Len(calls) \in Nat /\ Len(kept) \in Nat /\ \A i \in 1 .. Len(calls) : calls[i] \in Nat
  BY AreNumbers
<1> HIDE DEF more, left
<1>4. \A i \in 1 .. Len(more) : i \in 1 .. Len(calls) \/ i = Len(calls) + 1
  BY <1>1, <1>3
<1>5. InOrder(more, instant)
  <2>1. \A i \in 1 .. Len(more) : more[i] \in Nat /\ more[i] <= instant
    <3> SUFFICES ASSUME NEW i \in 1 .. Len(more)
                 PROVE  more[i] \in Nat /\ more[i] <= instant
      OBVIOUS
    <3>1. CASE i = Len(calls) + 1
      BY <1>1, <3>1
    <3>2. CASE i \in 1 .. Len(calls)
      BY <1>1, <1>3, <3>2 DEF InOrder
    <3> QED
      BY <1>4, <3>1, <3>2
  <2>2. ASSUME NEW i \in 1 .. Len(more), NEW j \in 1 .. Len(more), i <= j
        PROVE  more[i] <= more[j]
    <3>1. CASE j = Len(calls) + 1
      BY <1>1, <2>1, <3>1
    <3>2. CASE j \in 1 .. Len(calls)
      <4>1. i \in 1 .. Len(calls)
        BY <1>3, <2>2, <3>2
      <4> QED
        BY <1>1, <2>2, <3>2, <4>1 DEF InOrder
    <3> QED
      BY <1>4, <3>1, <3>2
  <2> QED
    BY <2>1, <2>2 DEF InOrder
<1>6. Follows(left, more, w, instant)
  <2> DEFINE n == Len(calls) - Len(kept)
  <2>1. n \in Nat /\ Len(more) - Len(left) = n /\ Len(calls) = n + Len(kept)
    BY <1>1, <1>2, <1>3 DEF Follows
  <2>2. (\A i \in 1 .. Len(kept) : kept[i] = calls[n + i]) /\ \A i \in 1 .. n : instant - calls[i] >= w
    BY DEF Follows
  <2> HIDE DEF n
  <2>3. ASSUME NEW i \in 1 .. Len(left)
        PROVE  left[i] = more[n + i]
    <3>1. CASE i = Len(kept) + 1
      BY <1>1, <1>2, <2>1, <3>1
    <3>2. CASE i \in 1 .. Len(kept)
      <4>1. n + i \in 1 .. Len(calls)
        BY <1>3, <2>1, <3>2
      <4> QED
        BY <1>1, <1>2, <2>2, <3>2, <4>1
    <3> QED
      BY <1>2, <1>3, <3>1, <3>2
  <2>4. \A i \in 1 .. n : i \in 1 .. Len(calls)
    BY <1>3, <2>1
  <2>5. \A i \in 1 .. n : instant - more[i] >= w
    BY <1>1, <2>2, <2>4
  <2>6. Len(more) - Len(left) >= 0
    BY <2>1
  <2> QED
    BY <2>1, <2>3, <2>5, <2>6 DEF Follows
<1> QED
  BY <1>5, <1>6 DEF more, left

LEMMA TimeFollows ==
  ASSUME NEW t \in Nat, NEW u \in Nat, t <= u, NEW calls \in Seq(Nat), NEW kept \in Seq(Nat), NEW w \in Nat,
         InOrder(calls, t), Follows(kept, calls, w, t)
  PROVE  InOrder(calls, u) /\ Follows(kept, calls, w, u)
<1>1. Len(calls) \in Nat /\ Len(kept) \in Nat /\ \A i \in 1 .. Len(calls) : calls[i] \in Nat
  BY AreNumbers
<1>2. InOrder(calls, u)
  BY <1>1 DEF InOrder
<1> DEFINE n == Len(calls) - Len(kept)
<1>3. n \in Nat /\ (\A i \in 1 .. Len(kept) : kept[i] = calls[n + i]) /\ \A i \in 1 .. n : t - calls[i] >= w
  BY <1>1 DEF Follows
<1>4. \A i \in 1 .. n : i \in 1 .. Len(calls)
  BY <1>1
<1> HIDE DEF n
<1>5. ASSUME NEW i \in 1 .. n
      PROVE  u - calls[i] >= w
  <2>1. calls[i] \in Nat /\ t - calls[i] >= w
    BY <1>1, <1>3, <1>4
  <2> QED
    BY <2>1, AgeGrows
<1> QED
  BY <1>2, <1>3, <1>5 DEF Follows, n

-----------------------------------------------------------------------------
(* The steps.                                                               *)

LEMMA LimiterStarts == LimiterInit => LimiterInv
<1> SUFFICES ASSUME LimiterInit
             PROVE  LimiterInv
  OBVIOUS
<1>1. LimiterTypeOK
  BY DEF LimiterInit, LimiterTypeOK, NoStamps
<1>2. \A k \in Keys, a \in Limited : stamps[k][a] = <<>> /\ accepted[k][a] = <<>>
  BY DEF LimiterInit, NoStamps
<1>3. \A w : InOrder(<<>>, instant) /\ Follows(<<>>, <<>>, w, instant)
  BY DEF InOrder, Follows
<1> QED
  BY <1>1, <1>2, <1>3 DEF LimiterInit, LimiterInv, RateIsKept

(* What is remembered and what was accepted of one action change together. *)
LEMMA OneHistory ==
  ASSUME NEW H, H \in [Keys -> [Limited -> Seq(Nat)]], NEW k \in Keys, NEW a \in Limited, NEW calls \in Seq(Nat),
         NEW new, new = [H EXCEPT ![k][a] = calls]
  PROVE  /\ new \in [Keys -> [Limited -> Seq(Nat)]] /\ new[k][a] = calls
         /\ \A l \in Keys, b \in Limited : l # k \/ b # a => new[l][b] = H[l][b]
OBVIOUS

LEMMA LimiterKeeps ==
  ASSUME LimiterInv, instant' \in Nat, instant <= instant', answer' = None,
         UNCHANGED <<limitOverrides, stamps, checking, accepted>>
  PROVE  LimiterInv'
<1>1. LimiterTypeOK'
  BY DEF LimiterInv, LimiterTypeOK
<1>2. ASSUME NEW k \in Keys, NEW a \in Limited
      PROVE  (InOrder(accepted[k][a], instant) /\ Follows(stamps[k][a], accepted[k][a], NarrowestWindow(a), instant))'
  <2>1. accepted[k][a] \in Seq(Nat) /\ stamps[k][a] \in Seq(Nat) /\ instant \in Nat /\ NarrowestWindow(a) \in Nat
    BY NarrowestIs DEF LimiterInv, LimiterTypeOK
  <2>2. InOrder(accepted[k][a], instant) /\ Follows(stamps[k][a], accepted[k][a], NarrowestWindow(a), instant)
    BY DEF LimiterInv
  <2>3. InOrder(accepted[k][a], instant') /\ Follows(stamps[k][a], accepted[k][a], NarrowestWindow(a), instant')
    BY <2>1, <2>2, TimeFollows
  <2> QED
    BY <2>3
<1>3. \A c \in Callers : (checking[c] # None => NarrowestWindow(checking[c].action) <= checking[c].limit.window)'
  BY DEF LimiterInv
<1>4. RateIsKept'
  BY DEF RateIsKept
<1> QED
  BY <1>1, <1>2, <1>3, <1>4 DEF LimiterInv

LEMMA ReadLimitKeeps ==
  ASSUME LimiterInv, NEW c \in Callers, NEW k \in Keys, NEW a \in Limited, ReadLimit(c, k, a)
  PROVE  LimiterInv'
<1> DEFINE call == [key |-> k, action |-> a, limit |-> LimitOf(a)]
<1>1. LimiterTypeOK /\ call \in CallRecord /\ NarrowestWindow(a) <= call.limit.window /\ call.action = a
  BY LimitIsWide DEF LimiterInv, CallRecord
<1> HIDE DEF call
<1>2. /\ checking' = [checking EXCEPT ![c] = call] /\ answer' = None
      /\ UNCHANGED <<instant, limitOverrides, stamps, accepted>>
  BY DEF ReadLimit, call
<1>3. LimiterTypeOK'
  BY <1>1, <1>2 DEF LimiterTypeOK
<1>4. \A d \in Callers : (checking[d] # None => NarrowestWindow(checking[d].action) <= checking[d].limit.window)'
  BY <1>1, <1>2 DEF LimiterInv, LimiterTypeOK
<1>5. \A l \in Keys, b \in Limited :
        (InOrder(accepted[l][b], instant) /\ Follows(stamps[l][b], accepted[l][b], NarrowestWindow(b), instant))'
  BY <1>2 DEF LimiterInv
<1>6. RateIsKept'
  BY <1>2 DEF RateIsKept
<1> QED
  BY <1>3, <1>4, <1>5, <1>6 DEF LimiterInv

(* Pruning costs no action a call in a window it may have. *)
LEMMA PrunedFollows ==
  ASSUME LimiterInv, NEW b \in Limited
  PROVE  /\ Pruned(b) \in [Keys -> [Limited -> Seq(Nat)]]
         /\ \A k \in Keys, a \in Limited : Follows(Pruned(b)[k][a], accepted[k][a], NarrowestWindow(a), instant)
<1>1. LimiterTypeOK
  BY DEF LimiterInv
<1>2. NoStamps \in [Keys -> [Limited -> Seq(Nat)]] /\ \A k \in Keys, a \in Limited : NoStamps[k][a] = <<>>
  BY DEF NoStamps
<1> DEFINE Keeps(k) == \E a \in Limited : Recent(stamps[k][a], KeepWindow(b)) # {}
<1>3. \/ Pruned(b) = stamps
      \/ Pruned(b) = [k \in Keys |-> IF Keeps(k) THEN stamps[k] ELSE NoStamps[k]]
  BY DEF Pruned
<1>4. ASSUME NEW k \in Keys, NEW a \in Limited, ~Keeps(k)
      PROVE  Follows(NoStamps[k][a], accepted[k][a], NarrowestWindow(a), instant)
  <2>1. /\ accepted[k][a] \in Seq(Nat) /\ stamps[k][a] \in Seq(Nat) /\ instant \in Nat
        /\ NarrowestWindow(a) \in Nat /\ KeepWindow(b) \in Nat /\ NarrowestWindow(a) <= KeepWindow(b)
    BY <1>1, NarrowestIs, PruningIsWide DEF LimiterTypeOK
  <2>2. Follows(stamps[k][a], accepted[k][a], NarrowestWindow(a), instant)
    BY DEF LimiterInv
  <2>3. Recent(stamps[k][a], KeepWindow(b)) = {}
    BY <1>4
  <2>4. Follows(<<>>, accepted[k][a], NarrowestWindow(a), instant)
    BY <2>1, <2>2, <2>3, PruneFollows
  <2> QED
    BY <1>2, <2>4
<1> HIDE DEF Keeps
<1>5. \A k \in Keys : Pruned(b)[k] = stamps[k] \/ (~Keeps(k) /\ Pruned(b)[k] = NoStamps[k])
  BY <1>3
<1>6. Pruned(b) \in [Keys -> [Limited -> Seq(Nat)]]
  BY <1>1, <1>2, <1>3 DEF LimiterTypeOK
<1>7. ASSUME NEW k \in Keys, NEW a \in Limited
      PROVE  Follows(Pruned(b)[k][a], accepted[k][a], NarrowestWindow(a), instant)
  <2>1. CASE Pruned(b)[k] = stamps[k]
    BY <2>1 DEF LimiterInv
  <2>2. CASE ~Keeps(k) /\ Pruned(b)[k] = NoStamps[k]
    BY <1>4, <2>2
  <2> QED
    BY <1>5, <2>1, <2>2
<1> QED
  BY <1>6, <1>7

LEMMA CountCallKeeps ==
  ASSUME LimiterInv, NEW c \in Callers, CountCall(c)
  PROVE  LimiterInv'
<1>1. PICK call \in CallRecord : call = checking[c]
  BY DEF LimiterInv, LimiterTypeOK, CountCall
<1>2. PICK k \in Keys, a \in Limited, limit \in LimitRecord : k = call.key /\ a = call.action /\ limit = call.limit
  BY DEF CallRecord
<1>3. limit.max \in Nat /\ limit.window \in Nat /\ NarrowestWindow(a) \in Nat /\ NarrowestWindow(a) <= limit.window
  BY <1>1, <1>2, NarrowestIs, LimiterAssumption DEF LimiterInv, LimitRecord
<1>4. PICK kept : kept = Pruned(a)
  OBVIOUS
<1>5. PICK recent : recent = Trimmed(kept[k][a], limit.window)
  OBVIOUS
<1>6. PICK calls : calls = accepted[k][a]
  OBVIOUS
<1> DEFINE allowed == Len(recent) < limit.max
<1>7. /\ stamps' = [kept EXCEPT ![k][a] = IF allowed THEN Append(recent, instant) ELSE recent]
      /\ accepted' = IF allowed THEN [accepted EXCEPT ![k][a] = Append(@, instant)] ELSE accepted
      /\ answer' = [call |-> call, allowed |-> allowed, before |-> calls]
      /\ checking' = [checking EXCEPT ![c] = None]
      /\ UNCHANGED <<instant, limitOverrides>>
  BY <1>1, <1>2, <1>4, <1>5, <1>6, SMTT(20) DEF CountCall
<1>8. LimiterTypeOK /\ instant \in Nat /\ calls \in Seq(Nat) /\ InOrder(calls, instant)
  BY <1>6 DEF LimiterInv, LimiterTypeOK
<1>9. /\ kept \in [Keys -> [Limited -> Seq(Nat)]]
      /\ \A l \in Keys, b \in Limited : Follows(kept[l][b], accepted[l][b], NarrowestWindow(b), instant)
  BY <1>4, PrunedFollows
<1>10. /\ recent \in Seq(Nat) /\ Follows(recent, calls, NarrowestWindow(a), instant)
       /\ \A i \in 1 .. Len(recent) : instant - recent[i] < limit.window
  <2>1. PICK q \in Seq(Nat) : q = kept[k][a]
    BY <1>9
  <2>2. Follows(q, calls, NarrowestWindow(a), instant)
    BY <1>6, <1>9, <2>1
  <2>3. PICK w \in Nat : w = NarrowestWindow(a)
    BY <1>3
  <2>4. PICK window \in Nat : window = limit.window
    BY <1>3
  <2> QED
    BY <1>3, <1>5, <1>8, <2>1, <2>2, <2>3, <2>4, TrimFollows
<1>11. PICK left : left = IF allowed THEN Append(recent, instant) ELSE recent
  OBVIOUS
<1>12. PICK more : more = IF allowed THEN Append(calls, instant) ELSE calls
  OBVIOUS
<1>13. /\ left \in Seq(Nat) /\ more \in Seq(Nat) /\ InOrder(more, instant) /\ Follows(left, more, NarrowestWindow(a), instant)
  <2>1. CASE allowed
    <3>1. left = Append(recent, instant) /\ more = Append(calls, instant)
      BY <1>11, <1>12, <2>1
    <3>2. left \in Seq(Nat) /\ more \in Seq(Nat)
      BY <1>8, <1>10, <3>1, AppendProperties
    <3> QED
      BY <1>3, <1>8, <1>10, <3>1, <3>2, CallFollows
  <2>2. CASE ~allowed
    BY <1>8, <1>10, <1>11, <1>12, <2>2
  <2> QED
    BY <2>1, <2>2
<1>14. /\ stamps' \in [Keys -> [Limited -> Seq(Nat)]] /\ stamps'[k][a] = left
       /\ \A l \in Keys, b \in Limited : l # k \/ b # a => stamps'[l][b] = kept[l][b]
  <2>1. stamps' = [kept EXCEPT ![k][a] = left]
    BY <1>7, <1>11
  <2> QED
    BY <1>9, <1>13, <2>1, OneHistory
<1>15. /\ accepted' \in [Keys -> [Limited -> Seq(Nat)]] /\ accepted'[k][a] = more
       /\ \A l \in Keys, b \in Limited : l # k \/ b # a => accepted'[l][b] = accepted[l][b]
  <2>1. accepted \in [Keys -> [Limited -> Seq(Nat)]]
    BY <1>8 DEF LimiterTypeOK
  <2>2. CASE allowed
    <3>1. accepted' = [accepted EXCEPT ![k][a] = more]
      BY <1>6, <1>7, <1>12, <2>2
    <3> QED
      BY <1>13, <2>1, <3>1, OneHistory
  <2>3. CASE ~allowed
    BY <1>6, <1>7, <1>12, <2>1, <2>3
  <2> QED
    BY <2>2, <2>3
<1>16. LimiterTypeOK'
  <2>1. checking' \in [Callers -> CallRecord \cup {None}]
    BY <1>7, <1>8 DEF LimiterTypeOK
  <2> QED
    BY <1>7, <1>8, <1>14, <1>15, <2>1 DEF LimiterTypeOK
<1>17. \A d \in Callers : (checking[d] # None => NarrowestWindow(checking[d].action) <= checking[d].limit.window)'
  BY <1>7, <1>8 DEF LimiterInv, LimiterTypeOK
<1>18. ASSUME NEW l \in Keys, NEW b \in Limited
       PROVE  (InOrder(accepted[l][b], instant) /\ Follows(stamps[l][b], accepted[l][b], NarrowestWindow(b), instant))'
  <2>1. CASE l = k /\ b = a
    BY <1>7, <1>13, <1>14, <1>15, <2>1
  <2>2. CASE l # k \/ b # a
    BY <1>7, <1>9, <1>14, <1>15, <2>2 DEF LimiterInv
  <2> QED
    BY <2>1, <2>2
<1>19. RateIsKept'
  <2>1. /\ CallsWithin(calls, NarrowestWindow(a)) \in Nat /\ CallsWithin(calls, NarrowestWindow(a)) <= Len(recent)
        /\ CallsWithin(calls, limit.window) \in Nat /\ CallsWithin(calls, limit.window) >= Len(recent)
    <3>1. PICK w \in Nat : w = NarrowestWindow(a)
      BY <1>3
    <3>2. PICK window \in Nat : window = limit.window
      BY <1>3
    <3> QED
      BY <1>8, <1>10, <3>1, <3>2, WindowCounts
  <2>2. Len(recent) \in Nat
    BY <1>10
  <2>3. CASE allowed
    <3>1. CallsWithin(calls, NarrowestWindow(a)) < limit.max
      BY <1>3, <2>1, <2>2, <2>3
    <3>2. answer'.allowed /\ answer'.call = call /\ answer'.before = calls
      BY <1>7, <2>3
    <3>3. CallsWithin(calls, NarrowestWindow(a))' = CallsWithin(calls, NarrowestWindow(a))
      BY <1>7 DEF CallsWithin
    <3> QED
      BY <1>2, <3>1, <3>2, <3>3 DEF RateIsKept
  <2>4. CASE ~allowed
    <3>1. CallsWithin(calls, limit.window) >= limit.max
      BY <1>3, <2>1, <2>2, <2>4
    <3>2. ~answer'.allowed /\ answer'.call = call /\ answer'.before = calls
      BY <1>7, <2>4
    <3>3. CallsWithin(calls, limit.window)' = CallsWithin(calls, limit.window)
      BY <1>7 DEF CallsWithin
    <3> QED
      BY <1>2, <3>1, <3>2, <3>3 DEF RateIsKept
  <2> QED
    BY <2>3, <2>4
<1> QED
  BY <1>16, <1>17, <1>18, <1>19 DEF LimiterInv

LEMMA OverridesKeep ==
  ASSUME LimiterInv, NEW table \in OverrideTables, SetOverrides(table)
  PROVE  LimiterInv'
<1>1. limitOverrides' = table /\ answer' = None /\ UNCHANGED <<instant, stamps, checking, accepted>>
  BY DEF SetOverrides
<1>2. LimiterTypeOK'
  BY <1>1 DEF LimiterInv, LimiterTypeOK
<1>3. /\ \A k \in Keys, a \in Limited :
           (InOrder(accepted[k][a], instant) /\ Follows(stamps[k][a], accepted[k][a], NarrowestWindow(a), instant))'
      /\ \A c \in Callers : (checking[c] # None => NarrowestWindow(checking[c].action) <= checking[c].limit.window)'
  BY <1>1 DEF LimiterInv
<1>4. RateIsKept'
  BY <1>1 DEF RateIsKept
<1> QED
  BY <1>2, <1>3, <1>4 DEF LimiterInv

LEMMA ClearingKeeps ==
  ASSUME LimiterInv, NEW k \in Keys, Clear(k)
  PROVE  LimiterInv'
<1>1. /\ stamps' = [stamps EXCEPT ![k] = NoStamps[k]] /\ accepted' = [accepted EXCEPT ![k] = NoStamps[k]]
      /\ answer' = None /\ UNCHANGED <<instant, limitOverrides, checking>>
  BY DEF Clear
<1>2. NoStamps[k] \in [Limited -> Seq(Nat)] /\ \A a \in Limited : NoStamps[k][a] = <<>>
  BY DEF NoStamps
<1>3. LimiterTypeOK'
  BY <1>1, <1>2 DEF LimiterInv, LimiterTypeOK
<1>4. ASSUME NEW l \in Keys, NEW a \in Limited
      PROVE  (InOrder(accepted[l][a], instant) /\ Follows(stamps[l][a], accepted[l][a], NarrowestWindow(a), instant))'
  <2>1. CASE l = k
    <3>1. stamps'[l][a] = <<>> /\ accepted'[l][a] = <<>>
      BY <1>1, <1>2, <2>1 DEF LimiterInv, LimiterTypeOK
    <3>2. InOrder(<<>>, instant) /\ Follows(<<>>, <<>>, NarrowestWindow(a), instant)
      BY DEF InOrder, Follows
    <3> QED
      BY <1>1, <3>1, <3>2
  <2>2. CASE l # k
    <3>1. stamps'[l][a] = stamps[l][a] /\ accepted'[l][a] = accepted[l][a]
      BY <1>1, <2>2 DEF LimiterInv, LimiterTypeOK
    <3> QED
      BY <1>1, <3>1 DEF LimiterInv
  <2> QED
    BY <2>1, <2>2
<1>5. \A c \in Callers : (checking[c] # None => NarrowestWindow(checking[c].action) <= checking[c].limit.window)'
  BY <1>1 DEF LimiterInv
<1>6. RateIsKept'
  BY <1>1 DEF RateIsKept
<1> QED
  BY <1>3, <1>4, <1>5, <1>6 DEF LimiterInv

LEMMA LimiterStep == LimiterInv /\ [LimiterNext]_limiterVars => LimiterInv'
<1> SUFFICES ASSUME LimiterInv, [LimiterNext]_limiterVars
             PROVE  LimiterInv'
  OBVIOUS
<1>1. CASE Pass
  <2>1. instant' = instant + 1 /\ answer' = None /\ UNCHANGED <<limitOverrides, stamps, checking, accepted>>
    BY <1>1 DEF Pass
  <2>2. instant \in Nat
    BY DEF LimiterInv, LimiterTypeOK
  <2> QED
    BY <2>1, <2>2, LimiterKeeps
<1>2. ASSUME NEW c \in Callers, NEW k \in Keys, NEW a \in Limited, ReadLimit(c, k, a)
      PROVE  LimiterInv'
  BY <1>2, ReadLimitKeeps
<1>3. ASSUME NEW c \in Callers, CountCall(c)
      PROVE  LimiterInv'
  BY <1>3, CountCallKeeps
<1>4. ASSUME NEW table \in OverrideTables, SetOverrides(table)
      PROVE  LimiterInv'
  BY <1>4, OverridesKeep
<1>5. ASSUME NEW k \in Keys, Clear(k)
      PROVE  LimiterInv'
  BY <1>5, ClearingKeeps
<1>6. CASE UNCHANGED limiterVars
  BY <1>6 DEF limiterVars, LimiterInv, LimiterTypeOK, RateIsKept, CallsWithin
<1> QED
  BY <1>1, <1>2, <1>3, <1>4, <1>5, <1>6 DEF LimiterNext

(* However checks, overrides, releases and prunings cross, for any limits:  *)
(* a call is refused only when its window is full, and accepted only when   *)
(* the narrowest window its action may have is not (ratelimit.rs).          *)
THEOREM RateIsAlwaysKept == LimiterSpec => []RateIsKept
<1>1. LimiterInv => RateIsKept
  BY DEF LimiterInv
<1> QED
  BY LimiterStarts, LimiterStep, <1>1, PTL DEF LimiterSpec
=============================================================================
