------------------------------ MODULE Membership ------------------------------
(***************************************************************************)
(* The API's users and members: sign-in and the listings that make users   *)
(* on the fly, joining an organization, the member list that takes in the  *)
(* contributors of the chain, and the rows that creating an organization   *)
(* and proposing a contributor leave.  Every use case looks a row up and   *)
(* makes it in a later step, nothing but the primary keys and an           *)
(* organization's address is unique, and requests run concurrently.        *)
(*                                                                         *)
(* Client c carries one request at a time.  Rows are never deleted.        *)
(***************************************************************************)
EXTENDS Naturals, FiniteSets

CONSTANTS
    Clients,        \* requests that may run at the same time
    Wallets,        \* wallets of users
    Orgs,           \* organizations
    Usernames,      \* usernames of Clerk
    Username,       \* the username made from a wallet (its first six characters)
    MaxFaults       \* bound: requests cut off by a failure

ASSUME UsernameAssumption == Username \in [Wallets -> Usernames]
ASSUME MembershipAssumption ==
    IsFiniteSet(Clients) /\ Wallets # {} /\ Orgs # {} /\ MaxFaults \in Nat

VARIABLES
    users,          \* for each wallet, the number of its rows in users
    accounts,       \* usernames taken in Clerk
    organizations,  \* organizations with a row
    members,        \* for each organization and user, the number of rows in organization_members
    contributors,   \* contributors on the chain; none before the organization exists
    requests,       \* what each client is doing
    faults

vars == <<users, accounts, organizations, members, contributors, requests, faults>>

(* The i-th row of a wallet. *)
User == Wallets \X (1..Cardinality(Clients))

ExistingUsers == {u \in User : u[2] <= users[u[1]]}

AnyWallet == CHOOSE w \in Wallets : TRUE

NoUser == <<AnyWallet, 0>>

(* What a request is for, where it is, and what it has read: the wallet    *)
(* and organization it is about, the user it found, and the contributors a *)
(* member listing has yet to look at.                                      *)
Request == [kind : {"signin", "list_projects", "join", "list_members",
                    "propose", "create"},
            step : {"idle", "find_user", "find_account", "create_account", "create_user",
                    "find_organization", "save_organization", "find_member", "create_member",
                    "read_organization", "next_contributor"},
            wallet : Wallets, organization : Orgs, user : User \cup {NoUser},
            todo : SUBSET Wallets]

Idle == [kind |-> "signin", step |-> "idle", wallet |-> AnyWallet,
         organization |-> CHOOSE o \in Orgs : TRUE, user |-> NoUser, todo |-> {}]

At(c, step) == requests[c].step = step

(* A request that is over is forgotten. *)
Goto(c, step) ==
    requests' = [requests EXCEPT ![c] = IF step = "idle" THEN Idle ELSE [@ EXCEPT !.step = step]]

Wallet(c) == requests[c].wallet
Organization(c) == requests[c].organization

Start(c, kind, step, w, o, u) ==
    /\ At(c, "idle")
    /\ requests' = [requests EXCEPT ![c] = [kind |-> kind, step |-> step, wallet |-> w,
                      organization |-> o, user |-> u, todo |-> {}]]

-----------------------------------------------------------------------------
(* Requests. *)

(* Sign-in, and the listing of tasks with each wallet on the chain, run    *)
(* the same lookups; the listing of projects makes no account.             *)
StartSignIn(c, w) ==
    /\ Start(c, "signin", "find_user", w, Idle.organization, NoUser)
    /\ UNCHANGED <<users, accounts, organizations, members, contributors, faults>>

StartListProjects(c, w) ==
    /\ Start(c, "list_projects", "find_user", w, Idle.organization, NoUser)
    /\ UNCHANGED <<users, accounts, organizations, members, contributors, faults>>

(* join-organization reads the organization from the chain first. *)
StartJoin(c, u, o) ==
    /\ u \in ExistingUsers /\ contributors[o] # {}
    /\ Start(c, "join", "find_organization", u[1], o, u)
    /\ UNCHANGED <<users, accounts, organizations, members, contributors, faults>>

StartListMembers(c, o) ==
    /\ contributors[o] # {}
    /\ Start(c, "list_members", "read_organization", AnyWallet, o, NoUser)
    /\ UNCHANGED <<users, accounts, organizations, members, contributors, faults>>

(* The rows of a contributor proposal whose transaction was confirmed.     *)
StartPropose(c, w, o) ==
    /\ o \in organizations
    /\ Start(c, "propose", "find_user", w, o, NoUser)
    /\ UNCHANGED <<users, accounts, organizations, members, contributors, faults>>

(* A user's transaction made an organization, and its row is to be saved.  *)
StartCreate(c, u, o) ==
    /\ u \in ExistingUsers /\ contributors[o] = {}
    /\ Start(c, "create", "save_organization", u[1], o, u)
    /\ contributors' = [contributors EXCEPT ![o] = {u[1]}]
    /\ UNCHANGED <<users, accounts, organizations, members, faults>>

(* Elections are decided on the chain. *)
Elect(o, w) ==
    /\ contributors[o] # {}
    /\ contributors' = [contributors EXCEPT ![o] = @ \cup {w}]
    /\ UNCHANGED <<users, accounts, organizations, members, requests, faults>>

-----------------------------------------------------------------------------
(* The user of a wallet: its row, or else a row for the account of its     *)
(* username, or else a new account and then a row.                         *)
UserFound(c, u) ==
    requests' = [requests EXCEPT ![c] = IF requests[c].kind = "propose"
                   THEN [@ EXCEPT !.user = u, !.step = "find_member"] ELSE Idle]

FaultyFindUser(c) ==                         \* fault: only Clerk is asked
    /\ At(c, "find_user")
    /\ Goto(c, "find_account")
    /\ UNCHANGED <<users, accounts, organizations, members, contributors, faults>>

FindUser(c) ==
    /\ At(c, "find_user")
    /\ IF users[Wallet(c)] > 0
       THEN \E i \in 1..users[Wallet(c)] : UserFound(c, <<Wallet(c), i>>)
       ELSE Goto(c, "find_account")
    /\ UNCHANGED <<users, accounts, organizations, members, contributors, faults>>

AccountMissing(c) == Goto(c, IF requests[c].kind = "list_projects" THEN "idle" ELSE "create_account")

FaultyFindAccount(c) ==                      \* fault: an account left behind is not looked for
    /\ At(c, "find_account")
    /\ AccountMissing(c)
    /\ UNCHANGED <<users, accounts, organizations, members, contributors, faults>>

(* An account that a failing call did not show is refused when it is made  *)
(* again, which ends the request as Interrupt does.                        *)
FindAccount(c) ==
    /\ At(c, "find_account")
    /\ \/ Username[Wallet(c)] \in accounts /\ Goto(c, "create_user")
       \/ Username[Wallet(c)] \notin accounts /\ AccountMissing(c)
    /\ UNCHANGED <<users, accounts, organizations, members, contributors, faults>>

(* Clerk refuses a username that is taken, and the request with it. *)
CreateAccount(c) ==
    /\ At(c, "create_account")
    /\ accounts' = accounts \cup {Username[Wallet(c)]}
    /\ Goto(c, IF Username[Wallet(c)] \in accounts THEN "idle" ELSE "create_user")
    /\ UNCHANGED <<users, organizations, members, contributors, faults>>

CreateUser(c) ==
    /\ At(c, "create_user")
    /\ users' = [users EXCEPT ![Wallet(c)] = @ + 1]
    /\ UserFound(c, <<Wallet(c), users'[Wallet(c)]>>)
    /\ UNCHANGED <<accounts, organizations, members, contributors, faults>>

-----------------------------------------------------------------------------
(* join-organization. *)
FindOrganization(c) ==
    /\ At(c, "find_organization")
    /\ Goto(c, IF Organization(c) \in organizations THEN "find_member" ELSE "save_organization")
    /\ UNCHANGED <<users, accounts, organizations, members, contributors, faults>>

HasMembers(o) == \E u \in User : members[o][u] > 0

FaultySaveOrganization(c) ==                 \* fault: a save replaces the members of the row
    /\ At(c, "save_organization")
    /\ organizations' = organizations \cup {Organization(c)}
    /\ members' = [members EXCEPT ![Organization(c)] = [u \in User |->
         IF u = requests[c].user /\ requests[c].kind = "create" THEN 1 ELSE 0]]
    /\ Goto(c, IF requests[c].kind = "create" THEN "idle" ELSE "find_member")
    /\ UNCHANGED <<users, accounts, contributors, faults>>

(* Saving with the organization's id inserts the row or, when another      *)
(* request was first, updates it.  The members given are to replace the    *)
(* members it has; a member cannot be without an organization, so the save *)
(* fails when it has any.  A creator enters as a member with its row.      *)
SaveOrganization(c) ==
    LET o == Organization(c)
    IN  /\ At(c, "save_organization")
        /\ IF HasMembers(o)
           THEN UNCHANGED <<organizations, members>> /\ Goto(c, "idle")
           ELSE /\ organizations' = organizations \cup {o}
                /\ IF requests[c].kind = "create"
                   THEN /\ members' = [members EXCEPT ![o][requests[c].user] = 1]
                        /\ Goto(c, "idle")
                   ELSE UNCHANGED members /\ Goto(c, "find_member")
        /\ UNCHANGED <<users, accounts, contributors, faults>>

FaultyFindMember(c) ==                       \* fault: a second request makes a second row
    /\ At(c, "find_member")
    /\ Goto(c, "create_member")
    /\ UNCHANGED <<users, accounts, organizations, members, contributors, faults>>

(* A join by a member is refused, a candidate that is one is left alone. *)
FindMember(c) ==
    /\ At(c, "find_member")
    /\ Goto(c, IF members[Organization(c)][requests[c].user] > 0 THEN "idle" ELSE "create_member")
    /\ UNCHANGED <<users, accounts, organizations, members, contributors, faults>>

CreateMember(c) ==
    /\ At(c, "create_member")
    /\ members' = [members EXCEPT ![Organization(c)][requests[c].user] = @ + 1]
    /\ Goto(c, IF requests[c].kind = "list_members" THEN "next_contributor" ELSE "idle")
    /\ UNCHANGED <<users, accounts, organizations, contributors, faults>>

-----------------------------------------------------------------------------
(* get-organization-members: contributors without a member row of any of   *)
(* their users are made members, one after the other, from one reading of  *)
(* the rows.  Without a row of the organization nothing is made.           *)
WalletsOfMembers(o) == {w \in Wallets : \E u \in User : u[1] = w /\ members[o][u] > 0}

FaultyReadOrganization(c) ==                 \* fault: contributors are listed, not stored
    /\ At(c, "read_organization")
    /\ Goto(c, "idle")
    /\ UNCHANGED <<users, accounts, organizations, members, contributors, faults>>

ReadOrganization(c) ==
    LET o == Organization(c)
    IN  /\ At(c, "read_organization")
        /\ IF o \in organizations
           THEN requests' = [requests EXCEPT ![c].step = "next_contributor",
                               ![c].todo = contributors[o] \ WalletsOfMembers(o)]
           ELSE Goto(c, "idle")
        /\ UNCHANGED <<users, accounts, organizations, members, contributors, faults>>

NextContributor(c) ==
    /\ At(c, "next_contributor")
    /\ \/ requests[c].todo = {} /\ Goto(c, "idle")
       \/ \E w \in requests[c].todo :
            \/ /\ users[w] = 0
               /\ requests' = [requests EXCEPT ![c].todo = @ \ {w}]
            \/ \E i \in 1..users[w] :
                 requests' = [requests EXCEPT ![c].todo = @ \ {w}, ![c].user = <<w, i>>,
                                              ![c].step = "create_member"]
    /\ UNCHANGED <<users, accounts, organizations, members, contributors, faults>>

-----------------------------------------------------------------------------
(* The process stops, or a call to the chain, Clerk or the database fails. *)
Interrupt(c) ==
    /\ ~At(c, "idle")
    /\ faults < MaxFaults
    /\ faults' = faults + 1
    /\ Goto(c, "idle")
    /\ UNCHANGED <<users, accounts, organizations, members, contributors>>

Init ==
    /\ users = [w \in Wallets |-> 0]
    /\ accounts = {}
    /\ organizations = {}
    /\ members = [o \in Orgs |-> [u \in User |-> 0]]
    /\ contributors = [o \in Orgs |-> {}]
    /\ requests = [c \in Clients |-> Idle]
    /\ faults = 0

Submit(c) ==
    \/ \E w \in Wallets : StartSignIn(c, w) \/ StartListProjects(c, w)
    \/ \E u \in User, o \in Orgs : StartJoin(c, u, o) \/ StartCreate(c, u, o)
    \/ \E o \in Orgs : StartListMembers(c, o)
    \/ \E w \in Wallets, o \in Orgs : StartPropose(c, w, o)

Process(c) ==
    \/ FindUser(c) \/ FindAccount(c) \/ CreateAccount(c) \/ CreateUser(c)
    \/ FindOrganization(c) \/ SaveOrganization(c)
    \/ FindMember(c) \/ CreateMember(c)
    \/ ReadOrganization(c) \/ NextContributor(c)

Next ==
    \/ \E c \in Clients : Submit(c) \/ Process(c) \/ Interrupt(c)
    \/ \E o \in Orgs, w \in Wallets : Elect(o, w)

Spec == Init /\ [][Next]_vars

(* A running request takes its next step, a wallet that fails to sign in   *)
(* tries again, and the member list of an organization is asked for again  *)
(* and again.                                                              *)
FairSpec ==
    /\ Spec
    /\ \A c \in Clients : WF_vars(Process(c))
    /\ \A w \in Wallets : SF_vars(\E c \in Clients : StartSignIn(c, w))
    /\ \A o \in Orgs : SF_vars(\E c \in Clients : StartListMembers(c, o))

-----------------------------------------------------------------------------
TypeOK ==
    /\ users \in [Wallets -> 0..Cardinality(Clients)]
    /\ accounts \subseteq Usernames
    /\ organizations \subseteq Orgs
    /\ members \in [Orgs -> [User -> Nat]]
    /\ contributors \in [Orgs -> SUBSET Wallets]
    /\ requests \in [Clients -> Request]
    /\ faults \in 0..MaxFaults

(* Lookup and insertion race, so a user or a member may get several rows;  *)
(* but only requests that looked before the first row was there add one,   *)
(* and there are never more rows, made or about to be made, than requests  *)
(* that can run at a time: retries and later requests add none.            *)
DuplicatesBounded ==
    /\ \A w \in Wallets :
         users[w] + Cardinality({c \in Clients : Wallet(c) = w /\
             requests[c].step \in {"find_account", "create_account", "create_user"}})
           <= Cardinality(Clients)
    /\ \A o \in Orgs, u \in User :
         members[o][u] + Cardinality({c \in Clients :
             At(c, "create_member") /\ Organization(c) = o /\ requests[c].user = u})
           <= Cardinality(Clients)

(* Nobody who is a member ceases to be one: the rows of an organization    *)
(* saved over those of a concurrent join or creation displace no member.   *)
MembersStay == [][\A o \in Orgs, u \in User : members'[o][u] >= members[o][u]]_vars

(* Under FairSpec a wallet that keeps signing in gets its row, also after  *)
(* a request that stopped between the account and the row.                 *)
SignInSettles == \A w \in Wallets : <>(users[w] > 0)

(* Under FairSpec a contributor of an organization that has a row, and     *)
(* who is a user, becomes a member without joining.                        *)
ContributorsBecomeMembers ==
    \A o \in Orgs, w \in Wallets :
        o \in organizations /\ w \in contributors[o] /\ users[w] > 0 ~> w \in WalletsOfMembers(o)
=============================================================================
