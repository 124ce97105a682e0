----------------------------- MODULE AuthAccounts -----------------------------
(***************************************************************************)
(* The accounts of one host as a client (gh, or pgh with a configuration   *)
(* directory and a keyring namespace of its own) keeps them: hosts.yml and *)
(* the operating system's keyring, and the commands that log in, switch,   *)
(* log out and migrate an old configuration.                               *)
(*                                                                         *)
(* A command is a process: it reads the file, works on its copy, changes   *)
(* the keyring on the way, and writes the whole copy at the end.  Nothing  *)
(* keeps two of them apart; each may be killed between two steps.  A call  *)
(* to the keyring fails, or is given up after 60 seconds while its         *)
(* goroutine goes on: its effect may come any time before the process      *)
(* ends, or never.                                                         *)
(*                                                                         *)
(*   login:    store -> clear -> fetch -> place -> write                   *)
(*   switch:   clear -> fetch -> place -> write, on an error restore       *)
(*   logout:   clear -> fetch -> place -> write for the active user,       *)
(*             erase -> eraseUser -> write for the last one                *)
(*   migrate:  migrate -> write                                            *)
(*                                                                         *)
(* Users of a file are listed with a token of their own, Listed without    *)
(* one (it is in the keyring), or Absent.                                  *)
(***************************************************************************)
EXTENDS Naturals, FiniteSets

CONSTANTS
  Users,
  Processes,   \* commands that may run at once
  MaxLogins,   \* bound: tokens that are made for a user
  MaxTogether, \* bound: tokens of a user once commands have run together
  Anonymous,   \* x-access-token, the user of old configurations without a name
  Active,      \* the entry of the keyring without a user
  None, Listed, Absent

Tokens == [of : Users, n : 1 .. MaxLogins]

ASSUME AccountsAssumption ==
  /\ MaxLogins \in Nat \ {0}
  /\ MaxTogether \in Nat
  /\ Users \cap {Anonymous, Active, None} = {}
  /\ Tokens \cap {None, Listed, Absent} = {} /\ Listed # Absent

VARIABLES
  file,     \* hosts.yml: the entry of the host, and the version of config.yml
  keyring,  \* the token in each entry of the host's service
  command,  \* the command each process runs, or None
  late,     \* what its goroutines that were given up may still do to the keyring
  alone,    \* history: no two commands have run together
  made,     \* history: tokens made for each user
  current   \* history: the token of the last login of each user that succeeded

vars == <<file, keyring, command, late, alone, made, current>>

Entries == Users \cup {Active}

\* oauth is the active token, when it is in the file.
Config ==
  [version : 0 .. 1, user : Users \cup {Anonymous, None}, oauth : Tokens \cup {None},
   users : [Users -> Tokens \cup {Listed, Absent}]]

Steps == {"store", "clear", "fetch", "place", "write", "erase", "eraseUser", "restore",
          "migrate", "end"}

\* A command works on its copy for a user.  token is the new one of a login, or the
\* one that was active before a switch; secure, whether it belongs in the keyring.
Command ==
  [does : {"login", "switch", "logout", "migrate"}, at : Steps, config : Config,
   user : Users, token : Tokens \cup {None}, secure : BOOLEAN, fetched : Tokens \cup {None}]

ASSUME NobodyAssumption == None \notin Command

TypeOK ==
  /\ file \in Config
  /\ keyring \in [Entries -> Tokens \cup {None}]
  /\ command \in [Processes -> Command \cup {None}]
  /\ late \in [Processes -> SUBSET [entry : Entries, token : Tokens \cup {None}]]
  /\ alone \in BOOLEAN
  /\ made \in [Users -> 0 .. MaxLogins]
  /\ current \in [Users -> Tokens \cup {None}]

Host(version, user, oauth, users) ==
  [version |-> version, user |-> user, oauth |-> oauth, users |-> users]

NoUsers == [u \in Users |-> Absent]
NoHost == Host(1, None, None, NoUsers)
EmptyKeyring == [e \in Entries |-> None]

\* Nothing yet, or a configuration of before version 1: one user, perhaps without a
\* name, with the only token in the file or in the keyring.
Init ==
  /\ \/ file = NoHost /\ keyring = EmptyKeyring /\ current = [u \in Users |-> None]
     \/ \E owner \in Users : LET token == [of |-> owner, n |-> 1] IN
          /\ current = [u \in Users |-> IF u = owner THEN token ELSE None]
          /\ \E user \in {owner, Anonymous} :
               \/ /\ file = Host(0, user, token, NoUsers)
                  /\ keyring = EmptyKeyring
               \/ /\ file = Host(0, user, None, NoUsers)
                  /\ keyring = [EmptyKeyring EXCEPT ![Active] = token]
  /\ command = [p \in Processes |-> None]
  /\ late = [p \in Processes |-> {}]
  /\ alone = TRUE
  /\ made = [u \in Users |-> IF current[u] = None THEN 0 ELSE 1]

-----------------------------------------------------------------------------
\* Mutant of ActiveToken: the entry without a user comes first.
ActiveTokenUnkeyed(config, entries) ==
  IF config.oauth # None THEN config.oauth
  ELSE IF entries[Active] # None THEN entries[Active]
  ELSE IF config.user \in Users THEN entries[config.user] ELSE None

\* What a client that is started now uses, from the file and a keyring that answers.
ActiveToken(config, entries) ==
  IF config.oauth # None THEN config.oauth
  ELSE IF config.user \in Users /\ entries[config.user] # None THEN entries[config.user]
  ELSE entries[Active]

UsersForHost(config) == {u \in Users : config.users[u] # Absent}

TokenForUser(config, entries, u) ==
  IF entries[u] # None THEN entries[u]
  ELSE IF config.users[u] \in Tokens THEN config.users[u] ELSE None

LoggedIn(config, entries) ==
  {u \in UsersForHost(config) : TokenForUser(config, entries, u) # None}

Begin(p, does, step, config, user, token, secure) ==
  LET beside == \E q \in Processes : command[q] # None
  IN  /\ command[p] = None
      /\ alone' = (alone /\ ~ beside)
      /\ ~ alone' => \A u \in Users : made'[u] <= MaxTogether
      /\ command' = [command EXCEPT ![p] =
           [does |-> does, at |-> step, config |-> config, user |-> user,
            token |-> token, secure |-> secure, fetched |-> None]]
      /\ UNCHANGED <<file, keyring, late, current>>

At(p, step) == command[p] # None /\ command[p].at = step

Continued(c, step, config, token, fetched) ==
  [does |-> c.does, at |-> step, config |-> config, user |-> c.user, token |-> token,
   secure |-> c.secure, fetched |-> fetched]

GoTo(p, step, config) ==
  /\ command' = [command EXCEPT ![p] = Continued(@, step, config, @.token, None)]
  /\ UNCHANGED <<file, alone, made, current>>

\* The command is over and its copy forgotten; its goroutines live until the exit.
Ended(p) == [command EXCEPT ![p] = Continued(@, "end", NoHost, None, None)]

End(p) == command' = Ended(p) /\ UNCHANGED <<file, alone, made, current>>

\* A call to the keyring that is answered, and one that fails or is given up.
KeyringSet(entry, token) == keyring' = [keyring EXCEPT ![entry] = token] /\ UNCHANGED late

KeyringFails(p, entry, token) ==
  /\ UNCHANGED keyring
  /\ late' = late \/ late' = [late EXCEPT ![p] = @ \cup {[entry |-> entry, token |-> token]}]

KeyringUnused == UNCHANGED <<keyring, late>>

\* An error: SwitchUser restores what it remembers, the others are done.
Fails(p) ==
  IF command[p].does = "switch" THEN GoTo(p, "restore", command[p].config) ELSE End(p)

-----------------------------------------------------------------------------
(* How the commands begin. *)

\* Login, with a new token.
BeginLogin(p, u, secure) ==
  /\ file.version = 1
  /\ made[u] < MaxLogins
  /\ made' = [made EXCEPT ![u] = @ + 1]
  /\ Begin(p, "login", "store", file, u, [of |-> u, n |-> made[u] + 1], secure)

\* SwitchUser, to a user gh auth switch finds in the list.  When the keyring does
\* not answer for the active user, the token without a user is taken.
BeginSwitch(p, u) ==
  /\ file.version = 1
  /\ u \in UsersForHost(file)
  /\ UNCHANGED made
  /\ \E token \in {ActiveToken(file, keyring)} \cup
                  (IF file.oauth = None THEN {keyring[Active]} ELSE {}) :
       token # None /\ Begin(p, "switch", "clear", file, u, token, file.oauth = None)

\* Logout: the last user goes with the host, an inactive one goes from the list, and
\* for the active one another user is activated.
BeginLogout(p, u) ==
  LET removed == [file EXCEPT !.users[u] = Absent]
  IN  /\ file.version = 1
      /\ u \in UsersForHost(file)
      /\ UNCHANGED made
      /\ IF Cardinality(UsersForHost(file)) < 2
           THEN Begin(p, "logout", "erase", NoHost, u, None, FALSE)
         ELSE IF file.user # u THEN Begin(p, "logout", "write", removed, u, None, FALSE)
         ELSE \E other \in UsersForHost(file) \ {u} :
                Begin(p, "logout", "clear", removed, other, None, FALSE)

\* MultiAccount.Do: GitHub is asked whose token it is when the file does not say; a
\* host without a token is removed.
BeginMigrate(p) ==
  LET token == IF file.oauth # None THEN file.oauth ELSE keyring[Active]
      owner == IF file.user \in Users THEN file.user ELSE token.of
  IN  /\ file.version = 0
      /\ UNCHANGED made
      /\ IF token = None
           THEN \E u \in Users : Begin(p, "migrate", "write", NoHost, u, None, FALSE)
           ELSE Begin(p, "migrate", IF file.oauth = None THEN "migrate" ELSE "write",
                      Host(1, owner, file.oauth,
                           [file.users EXCEPT ![owner] =
                              IF file.oauth = None THEN Listed ELSE token]),
                      owner, token, file.oauth = None)

-----------------------------------------------------------------------------
(* Their steps. *)

\* Mutant of Store: the token in the file is not cleaned up.
StoreBeside(p) ==
  LET u == command[p].user
      listed == IF command[p].config.users[u] = Absent THEN Listed ELSE command[p].config.users[u]
  IN  /\ At(p, "store")
      /\ \/ /\ command[p].secure
            /\ KeyringSet(u, command[p].token)
            /\ GoTo(p, "clear", [command[p].config EXCEPT !.users[u] = listed])
         \/ /\ IF command[p].secure THEN KeyringFails(p, u, command[p].token) ELSE KeyringUnused
            /\ GoTo(p, "clear", [command[p].config EXCEPT !.users[u] = command[p].token])

\* Mutant of Store: what the keyring has is deleted when the file takes the token.
StoreInstead(p) ==
  LET u == command[p].user
  IN  /\ At(p, "store")
      /\ \/ /\ command[p].secure
            /\ KeyringSet(u, command[p].token)
            /\ GoTo(p, "clear", [command[p].config EXCEPT !.users[u] = Listed])
         \/ /\ KeyringSet(u, None)
            /\ GoTo(p, "clear", [command[p].config EXCEPT !.users[u] = command[p].token])

\* Login stores the token for the user, in the file if the keyring does not take it.
Store(p) ==
  LET u == command[p].user
  IN  /\ At(p, "store")
      /\ \/ /\ command[p].secure
            /\ KeyringSet(u, command[p].token)
            /\ GoTo(p, "clear", [command[p].config EXCEPT !.users[u] = Listed])
         \/ /\ IF command[p].secure THEN KeyringFails(p, u, command[p].token) ELSE KeyringUnused
            /\ GoTo(p, "clear", [command[p].config EXCEPT !.users[u] = command[p].token])

\* activateUser, first step; an error of the keyring is ignored.
Clear(p) ==
  /\ At(p, "clear")
  /\ KeyringSet(Active, None) \/ KeyringFails(p, Active, None)
  /\ GoTo(p, "fetch", [command[p].config EXCEPT !.oauth = None])

\* Mutant of Activate: an empty entry of the list is taken for a token.
ActivateListed(p, placed) ==
  LET config == command[p].config
      own    == config.users[command[p].user]
  IN  /\ placed \/ own # Absent
      /\ GoTo(p, "write", Host(config.version, command[p].user, own, config.users))

\* Its last step: the user's token in the file, if there is one, becomes the active
\* one there; without that or a token placed in the keyring there is no switch.
Activate(p, placed) ==
  LET config == command[p].config
      own    == config.users[command[p].user]
  IN  IF own \in Tokens \/ placed
        THEN GoTo(p, "write", Host(config.version, command[p].user,
                                   IF own \in Tokens THEN own ELSE config.oauth, config.users))
        ELSE Fails(p)

\* The user's token in the keyring; when there is none, or no answer, the file is left.
Fetch(p) ==
  /\ At(p, "fetch")
  /\ KeyringUnused
  /\ \/ /\ keyring[command[p].user] # None
        /\ command' = [command EXCEPT ![p] =
             Continued(@, "place", @.config, @.token, keyring[@.user])]
        /\ UNCHANGED <<file, alone, made, current>>
     \/ Activate(p, FALSE)

Place(p) ==
  /\ At(p, "place")
  /\ \/ KeyringSet(Active, command[p].fetched) /\ Activate(p, TRUE)
     \/ KeyringFails(p, Active, command[p].fetched) /\ Fails(p)

Erase(p) ==
  /\ At(p, "erase")
  /\ KeyringSet(Active, None) \/ KeyringFails(p, Active, None)
  /\ GoTo(p, "eraseUser", command[p].config)

EraseUser(p) ==
  /\ At(p, "eraseUser")
  /\ KeyringSet(command[p].user, None) \/ KeyringFails(p, command[p].user, None)
  /\ GoTo(p, "write", command[p].config)

\* migrateToken: the token of the keyring is stored for its user as well.
MigrateToken(p) ==
  /\ At(p, "migrate")
  /\ \/ KeyringSet(command[p].user, command[p].token) /\ GoTo(p, "write", command[p].config)
     \/ KeyringFails(p, command[p].user, command[p].token) /\ Fails(p)

Write(p) ==
  /\ At(p, "write")
  /\ KeyringUnused
  /\ \/ /\ file' = command[p].config
        /\ current' = IF command[p].does = "login"
                        THEN [current EXCEPT ![command[p].user] = command[p].token] ELSE current
        /\ command' = Ended(p)
        /\ UNCHANGED <<alone, made>>
     \/ Fails(p)

\* The error path of SwitchUser, but for the copy, which nobody reads again.
Restore(p) ==
  /\ At(p, "restore")
  /\ IF command[p].secure
       THEN \/ KeyringSet(Active, command[p].token)
            \/ KeyringFails(p, Active, command[p].token)
       ELSE KeyringUnused
  /\ End(p)

LateEffect(p) ==
  \E effect \in late[p] :
    /\ keyring' = [keyring EXCEPT ![effect.entry] = effect.token]
    /\ late' = [late EXCEPT ![p] = @ \ {effect}]
    /\ UNCHANGED <<file, command, alone, made, current>>

\* The process ends, or is killed, and its goroutines with it.
Exit(p) ==
  /\ command[p] # None
  /\ command' = [command EXCEPT ![p] = None]
  /\ late' = [late EXCEPT ![p] = {}]
  /\ UNCHANGED <<file, keyring, alone, made, current>>

Next == \E p \in Processes :
  \/ \E u \in Users : \/ \E secure \in BOOLEAN : BeginLogin(p, u, secure)
                       \/ BeginSwitch(p, u)
                       \/ BeginLogout(p, u)
  \/ BeginMigrate(p)
  \/ Store(p) \/ Clear(p) \/ Fetch(p) \/ Place(p) \/ Erase(p) \/ EraseUser(p)
  \/ MigrateToken(p) \/ Write(p) \/ Restore(p) \/ LateEffect(p) \/ Exit(p)

Spec == Init /\ [][Next]_vars

-----------------------------------------------------------------------------
(* What a client that starts at any moment finds. *)

\* The active token is one of the active user, if that user has any: no two commands,
\* wherever they fail or are killed and whatever the keyring does late, make a user act
\* with the token of another.  (A user whose keyring entry an interrupted logout has
\* taken falls back on the entry without a user, which may be of another.)
ActiveTokenIsOfActiveUser ==
  file.user \in LoggedIn(file, keyring) => ActiveToken(file, keyring).of = file.user

\* Of commands that come one after another: it is the token of the last login of that
\* user, or of a later one that failed.  An older one, left in the file or in the
\* keyring, does not come back.
ActiveTokenIsCurrent ==
  alone /\ file.user \in LoggedIn(file, keyring) /\ current[file.user] # None =>
    ActiveToken(file, keyring).n >= current[file.user].n

LoggingOut == \E p \in Processes : command[p] # None /\ command[p].does = "logout"

\* Of these only a logout logs out: activateUser clears the active token before it
\* knows the next, and a login, a switch or a migration that ends there leaves every
\* user with its token, and the host with an active one if the active user has any.
OnlyLogoutLogsOut ==
  [][alone' /\ ~ LoggingOut =>
       /\ LoggedIn(file, keyring) \subseteq LoggedIn(file', keyring')
       /\ file'.user \in LoggedIn(file, keyring) => ActiveToken(file', keyring') # None]_vars
=============================================================================
