---------------------------- MODULE Registration ----------------------------
(***************************************************************************)
(* From an e-mail address to an account (server/http.rs, db/users.rs):     *)
(* codes are mailed and typed, a typed code makes the address verified for *)
(* a while, and a verified address that no account holds may register.     *)
(* Every database call is a transaction of its own and the handlers take   *)
(* no lock, so that two registrations of one address, a moderator who      *)
(* changes or deletes accounts, and the clean-up of what has expired fall  *)
(* between the steps of a registration.                                    *)
(*                                                                         *)
(* A code is not spelt out: what matters of a typed code is whether it is  *)
(* the one mailed last.                                                    *)
(***************************************************************************)
EXTENDS Nothing, Integers, FiniteSets

CONSTANTS
    Emails,         \* addresses
    Registrations,  \* requests that may run at the same time
    MaxTries,       \* VERIFICATION_MAX_ATTEMPTS
    MaxTyped,       \* bound: codes typed rightly for one address
    MaxFreed        \* bound: times an address is taken from its account

VARIABLES
    code,        \* address -> wrong tries of its unused code, or None
    verified,    \* verified_emails
    accounts,    \* address -> how many rows of users hold it
    flight,      \* request -> the address it registers and its next step
    typed,       \* history: address -> codes typed rightly
    made,        \* history: address -> accounts registered under it
    freed        \* history: address -> times an account gave it up

registrationVars == <<code, verified, accounts, flight, typed, made, freed>>

Resting == [email |-> None, next |-> "rest"]

RegistrationInit ==
    /\ code = [e \in Emails |-> None]
    /\ verified = {}
    /\ accounts = [e \in Emails |-> 0]
    /\ flight = [r \in Registrations |-> Resting]
    /\ typed = [e \in Emails |-> 0]
    /\ made = [e \in Emails |-> 0]
    /\ freed = [e \in Emails |-> 0]

IsFree(e) == accounts[e] = 0

-----------------------------------------------------------------------------
(* request_code: the codes sent before are used up, the new one is the     *)
(* only unused one of the address.                                         *)
RequestCode(e) ==
    /\ IsFree(e)
    /\ code' = [code EXCEPT ![e] = 0]
    /\ UNCHANGED <<verified, accounts, flight, typed, made, freed>>

(* verify_code with the code mailed last.  A code tried too often is used  *)
(* up instead.                                                             *)
TypeCode(e) ==
    /\ code[e] # None /\ typed[e] < MaxTyped
    /\ code' = [code EXCEPT ![e] = None]
    /\ IF code[e] < MaxTries
         THEN /\ verified' = verified \cup {e}
              /\ typed' = [typed EXCEPT ![e] = @ + 1]
         ELSE UNCHANGED <<verified, typed>>
    /\ UNCHANGED <<accounts, flight, made, freed>>

(* verify_code with another code.                                          *)
MistypeCode(e) ==
    /\ code[e] # None
    /\ code' = [code EXCEPT ![e] = IF @ < MaxTries THEN @ + 1 ELSE None]
    /\ UNCHANGED <<verified, accounts, flight, typed, made, freed>>

(* What has expired is used up when it is looked at, or cleaned up.        *)
Expire(e) ==
    /\ \/ code[e] # None /\ code' = [code EXCEPT ![e] = None] /\ UNCHANGED verified
       \/ e \in verified /\ verified' = verified \ {e} /\ UNCHANGED code
    /\ UNCHANGED <<accounts, flight, typed, made, freed>>

-----------------------------------------------------------------------------
(* register: the address is free and verified.                             *)
MayRegister(e) == IsFree(e) /\ e \in verified

StartRegistration(r, e) ==
    /\ flight[r] = Resting
    /\ MayRegister(e)
    /\ flight' = [flight EXCEPT ![r] = [email |-> e, next |-> "create"]]
    /\ UNCHANGED <<code, verified, accounts, typed, made, freed>>

(* create_user: the password is hashed between the second look at the      *)
(* address and the insertion, which the unique index decides.              *)
FaultInsertable(e) == e \in Emails
Insertable(e) == IsFree(e)

CreateUser(r) ==
    LET e == flight[r].email IN
    /\ flight[r].next = "create"
    /\ \/ /\ Insertable(e)
          /\ accounts' = [accounts EXCEPT ![e] = @ + 1]
          /\ made' = [made EXCEPT ![e] = @ + 1]
          /\ flight' = [flight EXCEPT ![r].next = "clear"]
       \/ /\ ~Insertable(e)
          /\ flight' = [flight EXCEPT ![r] = Resting]
          /\ UNCHANGED <<accounts, made>>
    /\ UNCHANGED <<code, verified, typed, freed>>

(* clear_email_verification; the session that follows is Presence's.       *)
ClearVerification(r) ==
    /\ flight[r].next = "clear"
    /\ verified' = verified \ {flight[r].email}
    /\ flight' = [flight EXCEPT ![r] = Resting]
    /\ UNCHANGED <<code, accounts, typed, made, freed>>

-----------------------------------------------------------------------------
(* delete_user frees the address of the account, change_email moves the    *)
(* account to another free one.                                            *)
DeleteAccount(e) ==
    /\ accounts[e] > 0 /\ freed[e] < MaxFreed
    /\ accounts' = [accounts EXCEPT ![e] = @ - 1]
    /\ freed' = [freed EXCEPT ![e] = @ + 1]
    /\ UNCHANGED <<code, verified, flight, typed, made>>

ChangeEmail(e, f) ==
    /\ e # f /\ accounts[e] > 0 /\ IsFree(f) /\ freed[e] < MaxFreed
    /\ accounts' = [accounts EXCEPT ![e] = @ - 1, ![f] = @ + 1]
    /\ freed' = [freed EXCEPT ![e] = @ + 1]
    /\ UNCHANGED <<code, verified, flight, typed, made>>

RegistrationNext ==
    \/ \E e \in Emails : RequestCode(e) \/ TypeCode(e) \/ MistypeCode(e) \/ Expire(e)
    \/ \E r \in Registrations :
          \/ \E e \in Emails : StartRegistration(r, e)
          \/ CreateUser(r)
          \/ ClearVerification(r)
    \/ \E e \in Emails : DeleteAccount(e) \/ \E f \in Emails : ChangeEmail(e, f)

RegistrationSpec == RegistrationInit /\ [][RegistrationNext]_registrationVars

-----------------------------------------------------------------------------
(* One account holds an address at a time, and an address yields no more   *)
(* accounts than codes were typed for it, except for those a moderator     *)
(* freed it from: whichever registrations of one address overlap, and      *)
(* although the verification is cleared only after the account exists      *)
(* (http.rs register).                                                     *)
VerifiedOnce ==
    \A e \in Emails : accounts[e] <= 1 /\ made[e] <= typed[e] + freed[e]
=============================================================================
