-------------------------- MODULE AuthAccountsProofs --------------------------
(***************************************************************************)
(* Any users, any number of commands at once: no user acts with the token  *)
(* of another.  The file is right because every copy that may be written   *)
(* is; a copy on the way need not be (a new token is listed before it is   *)
(* active), but it is right again where it can be written.                 *)
(* The second half is about commands that come one after another.          *)
(***************************************************************************)
EXTENDS AuthAccounts, TLAPS

OwnTokens(config) ==
  \A u \in Users : config.users[u] \in Tokens => config.users[u].of = u

Consistent(config) ==
  /\ OwnTokens(config)
  /\ config.user \in Users /\ config.oauth # None => config.oauth.of = config.user
  /\ config.user \in Users /\ config.users[config.user] \in Tokens => config.oauth # None

CommandOK(c) ==
  /\ c.config.version = 1
  /\ OwnTokens(c.config)
  /\ c.at \in {"write", "erase", "eraseUser", "migrate"} => Consistent(c.config)
  /\ c.at \in {"fetch", "place"} => c.config.oauth = None
  /\ c.does \in {"login", "migrate"} /\ c.token # None => c.token.of = c.user
  /\ c.at = "store" => c.does = "login" /\ c.token # None
  /\ c.at = "migrate" => c.does = "migrate"

CommandsOK == \A p \in Processes : command[p] # None => CommandOK(command[p])

KeyringOK == \A u \in Users : keyring[u] # None => keyring[u].of = u

LateOK ==
  \A p \in Processes : \A effect \in late[p] :
    effect.entry \in Users /\ effect.token # None => effect.token.of = effect.entry

\* Until a migration is written nothing else runs, and the entry without a user
\* is the one of the user in the file.
OldOK ==
  file.version = 0 =>
    /\ file.user \in Users /\ keyring[Active] # None => keyring[Active].of = file.user
    /\ \A p \in Processes : /\ command[p] # None => command[p].at \in {"migrate", "write", "end"}
                                                    /\ command[p].does = "migrate"
                            /\ \A effect \in late[p] : effect.entry # Active

AccountsInv ==
  TypeOK /\ Consistent(file) /\ CommandsOK /\ KeyringOK /\ LateOK /\ OldOK

-----------------------------------------------------------------------------
LEMMA CommandFields ==
  ASSUME NEW c \in Command
  PROVE  /\ c.does \in {"login", "switch", "logout", "migrate"} /\ c.at \in Steps
         /\ c.config \in Config /\ c.user \in Users /\ c.secure \in BOOLEAN
         /\ c.token \in Tokens \cup {None} /\ c.fetched \in Tokens \cup {None}
BY DEF Command

LEMMA ContinuedFields ==
  ASSUME NEW c \in Command, NEW step \in Steps, NEW config \in Config,
         NEW token \in Tokens \cup {None}, NEW fetched \in Tokens \cup {None}
  PROVE  Continued(c, step, config, token, fetched) \in Command
BY DEF Command, Continued

LEMMA ConfigFields ==
  ASSUME NEW config \in Config
  PROVE  /\ config.version \in 0 .. 1 /\ config.user \in Users \cup {Anonymous, None}
         /\ config.oauth \in Tokens \cup {None}
         /\ config.users \in [Users -> Tokens \cup {Listed, Absent}]
BY DEF Config

LEMMA TokenOwner == ASSUME NEW token \in Tokens PROVE token.of \in Users /\ token # None
BY AccountsAssumption DEF Tokens

LEMMA EmptyConfig ==
  NoHost \in Config /\ NoHost.version = 1 /\ Consistent(NoHost) /\ OwnTokens(NoHost)
BY AccountsAssumption DEF NoHost, NoUsers, Host, Config, Consistent, OwnTokens

-----------------------------------------------------------------------------
LEMMA AccountsInit == Init => AccountsInv
<1>1. SUFFICES ASSUME Init PROVE AccountsInv
  OBVIOUS
<1>2. /\ command = [p \in Processes |-> None] /\ late = [p \in Processes |-> {}]
      /\ alone = TRUE /\ made = [u \in Users |-> IF current[u] = None THEN 0 ELSE 1]
  BY <1>1 DEF Init
<1> DEFINE Goal ==
      /\ file \in Config /\ Consistent(file) /\ keyring \in [Entries -> Tokens \cup {None}]
      /\ KeyringOK
      /\ file.version = 0 /\ file.user \in Users /\ keyring[Active] # None
           => keyring[Active].of = file.user
      /\ current \in [Users -> Tokens \cup {None}]
<1>3. Goal
  <2>1. CASE /\ file = NoHost /\ keyring = EmptyKeyring /\ current = [u \in Users |-> None]
    BY <2>1, EmptyConfig DEF EmptyKeyring, KeyringOK, Entries
  <2>2. ASSUME NEW owner \in Users, NEW token,
               token = [of |-> owner, n |-> 1],
               current = [u \in Users |-> IF u = owner THEN token ELSE None],
               NEW user \in {owner, Anonymous},
               \/ /\ file = Host(0, user, token, NoUsers)
                  /\ keyring = EmptyKeyring
               \/ /\ file = Host(0, user, None, NoUsers)
                  /\ keyring = [EmptyKeyring EXCEPT ![Active] = token]
        PROVE  Goal
    <3>1. token \in Tokens /\ token.of = owner
      BY <2>2, AccountsAssumption DEF Tokens
    <3>2. file = [version |-> 0, user |-> user, oauth |-> file.oauth,
                  users |-> [u \in Users |-> Absent]]
          /\ file.oauth \in {token, None}
      BY <2>2 DEF Host, NoUsers
    <3>3. file \in Config /\ Consistent(file)
      BY <3>1, <3>2, AccountsAssumption DEF Config, Consistent, OwnTokens
    <3>4. keyring \in [Entries -> Tokens \cup {None}] /\ KeyringOK
          /\ (keyring[Active] # None => keyring[Active] = token)
      BY <2>2, <3>1, AccountsAssumption DEF EmptyKeyring, KeyringOK, Entries
    <3>5. file.user \in Users => file.user = owner
      BY <3>2, AccountsAssumption
    <3>6. current \in [Users -> Tokens \cup {None}]
      BY <2>2, <3>1
    <3>7. QED
      BY <3>1, <3>3, <3>4, <3>5, <3>6
  <2> HIDE DEF Goal
  <2>3. ASSUME NEW owner \in Users,
               current = [u \in Users |-> IF u = owner THEN [of |-> owner, n |-> 1] ELSE None],
               \E user \in {owner, Anonymous} :
                 \/ /\ file = Host(0, user, [of |-> owner, n |-> 1], NoUsers)
                    /\ keyring = EmptyKeyring
                 \/ /\ file = Host(0, user, None, NoUsers)
                    /\ keyring = [EmptyKeyring EXCEPT ![Active] = [of |-> owner, n |-> 1]]
        PROVE  Goal
    BY <2>2, <2>3
  <2>4. QED
    BY <1>1, <2>1, <2>3 DEF Init
<1>4. made \in [Users -> 0 .. MaxLogins]
  BY <1>2, AccountsAssumption
<1>5. TypeOK
  BY <1>2, <1>3, <1>4 DEF TypeOK
<1>6. CommandsOK /\ LateOK /\ OldOK
  BY <1>2, <1>3 DEF CommandsOK, LateOK, OldOK
<1>7. QED
  BY <1>3, <1>5, <1>6 DEF AccountsInv

-----------------------------------------------------------------------------
(* The parts of a step. *)

\* What a step of a command leaves: the other commands, and most of its own.
Moved(p, step, config) ==
  /\ command' \in [Processes -> Command \cup {None}]
  /\ \A q \in Processes \ {p} : command'[q] = command[q]
  /\ command'[p].at = step /\ command'[p].config = config
  /\ command'[p].does = command[p].does /\ command'[p].user = command[p].user
  /\ command'[p].token \in {command[p].token, None}

LEMMA ContinuedMoves ==
  ASSUME TypeOK, NEW p \in Processes, command[p] # None,
         NEW step \in Steps, NEW config \in Config,
         NEW token \in {command[p].token, None}, NEW fetched \in Tokens \cup {None},
         command' = [command EXCEPT ![p] = Continued(@, step, config, token, fetched)]
  PROVE  Moved(p, step, config)
<1>1. command \in [Processes -> Command \cup {None}] /\ command[p] \in Command
  BY DEF TypeOK
<1>2. Continued(command[p], step, config, token, fetched) \in Command
  BY <1>1, CommandFields, ContinuedFields
<1>3. /\ command'[p] = Continued(command[p], step, config, token, fetched)
      /\ \A q \in Processes \ {p} : command'[q] = command[q]
      /\ command' \in [Processes -> Command \cup {None}]
  BY <1>1, <1>2
<1>4. QED
  BY <1>3 DEF Moved, Continued

LEMMA GoToMoves ==
  ASSUME TypeOK, NEW p \in Processes, command[p] # None,
         NEW step \in Steps, NEW config \in Config, GoTo(p, step, config)
  PROVE  Moved(p, step, config)
BY ContinuedMoves DEF GoTo

LEMMA EndedMoves ==
  ASSUME TypeOK, NEW p \in Processes, command[p] # None, command' = Ended(p)
  PROVE  Moved(p, "end", NoHost)
BY ContinuedMoves, EmptyConfig DEF Ended, Steps

\* A call to the keyring, answered or not, with a token that fits its entry.
LEMMA KeyringCall ==
  ASSUME AccountsInv, NEW p \in Processes,
         NEW entry \in Entries, NEW token \in Tokens \cup {None},
         entry \in Users /\ token # None => token.of = entry,
         KeyringSet(entry, token) \/ KeyringFails(p, entry, token)
  PROVE  /\ keyring' \in [Entries -> Tokens \cup {None}] /\ KeyringOK'
         /\ late' \in [Processes -> SUBSET [entry : Entries, token : Tokens \cup {None}]]
         /\ LateOK'
         /\ entry # Active =>
              /\ keyring'[Active] = keyring[Active]
              /\ \A q \in Processes : \A e \in late'[q] : e \in late[q] \/ e.entry # Active
<1>1. /\ keyring \in [Entries -> Tokens \cup {None}] /\ Users \subseteq Entries
      /\ late \in [Processes -> SUBSET [entry : Entries, token : Tokens \cup {None}]]
  BY DEF AccountsInv, TypeOK, Entries
<1>2. CASE KeyringSet(entry, token)
  <2>1. keyring' = [keyring EXCEPT ![entry] = token] /\ late' = late
    BY <1>2 DEF KeyringSet
  <2>2. keyring' \in [Entries -> Tokens \cup {None}] /\ KeyringOK'
    BY <1>1, <2>1 DEF AccountsInv, KeyringOK
  <2>3. QED
    BY <1>1, <2>1, <2>2 DEF AccountsInv, LateOK, Entries
<1>3. CASE KeyringFails(p, entry, token)
  <2> DEFINE effect == [entry |-> entry, token |-> token]
  <2>1. keyring' = keyring /\ (late' = late \/ late' = [late EXCEPT ![p] = @ \cup {effect}])
    BY <1>3 DEF KeyringFails
  <2>2. effect \in [entry : Entries, token : Tokens \cup {None}]
    OBVIOUS
  <2>3. \A q \in Processes : late'[q] \subseteq late[q] \cup {effect}
    BY <1>1, <2>1
  <2>4. late' \in [Processes -> SUBSET [entry : Entries, token : Tokens \cup {None}]]
    BY <1>1, <2>1, <2>2
  <2>5. LateOK'
    BY <2>3 DEF AccountsInv, LateOK
  <2>6. KeyringOK'
    BY <2>1 DEF AccountsInv, KeyringOK
  <2>7. QED
    BY <1>1, <2>1, <2>3, <2>4, <2>5, <2>6
<1>4. QED
  BY <1>2, <1>3

LEMMA NoCall ==
  ASSUME AccountsInv, KeyringUnused
  PROVE  /\ keyring' \in [Entries -> Tokens \cup {None}] /\ KeyringOK'
         /\ late' \in [Processes -> SUBSET [entry : Entries, token : Tokens \cup {None}]]
         /\ LateOK'
BY DEF AccountsInv, TypeOK, KeyringOK, LateOK, KeyringUnused

\* Where only a migration can be, there is an old file.
LEMMA NotOld ==
  ASSUME AccountsInv, NEW p \in Processes, command[p] # None,
         command[p].at \notin {"migrate", "write", "end"} \/ command[p].does # "migrate"
  PROVE  file.version # 0
BY DEF AccountsInv, OldOK

\* A step of a command that does not write is right if its parts are.
LEMMA StepOK ==
  ASSUME AccountsInv, NEW p \in Processes,
         UNCHANGED <<file, alone, made, current>>,
         command' \in [Processes -> Command \cup {None}],
         \A q \in Processes \ {p} : command'[q] = command[q],
         command'[p] # None => CommandOK(command'[p]),
         keyring' \in [Entries -> Tokens \cup {None}], KeyringOK',
         late' \in [Processes -> SUBSET [entry : Entries, token : Tokens \cup {None}]],
         LateOK', OldOK'
  PROVE  AccountsInv'
<1>1. TypeOK'
  BY DEF AccountsInv, TypeOK
<1>2. CommandsOK'
  BY DEF AccountsInv, CommandsOK
<1>3. Consistent(file)'
  BY DEF AccountsInv, Consistent, OwnTokens
<1>4. QED
  BY <1>1, <1>2, <1>3 DEF AccountsInv

\* The error of a command that has begun to write, or that is past its reads.
LEMMA FailsOK ==
  ASSUME AccountsInv, NEW p \in Processes, command[p] # None, Fails(p)
  PROVE  /\ UNCHANGED <<file, alone, made, current>>
         /\ command' \in [Processes -> Command \cup {None}]
         /\ \A q \in Processes \ {p} : command'[q] = command[q]
         /\ CommandOK(command'[p])
         /\ command'[p].does = command[p].does
         /\ command[p].does # "switch" => command'[p].at = "end"
<1>1. CommandOK(command[p]) /\ command[p] \in Command /\ TypeOK
  BY DEF AccountsInv, CommandsOK, TypeOK
<1>2. CASE command[p].does = "switch"
  <2>1. GoTo(p, "restore", command[p].config)
    BY <1>2 DEF Fails
  <2>2. Moved(p, "restore", command[p].config)
    BY <1>1, <2>1, CommandFields, GoToMoves DEF Steps
  <2>3. QED
    BY <1>1, <1>2, <2>1, <2>2 DEF Moved, CommandOK, GoTo
<1>3. CASE command[p].does # "switch"
  <2>1. End(p)
    BY <1>3 DEF Fails
  <2>2. Moved(p, "end", NoHost)
    BY <1>1, <2>1, EndedMoves DEF End
  <2>3. QED
    BY <1>1, <1>3, <2>1, <2>2, EmptyConfig DEF Moved, CommandOK, End
<1>4. QED
  BY <1>2, <1>3

-----------------------------------------------------------------------------
(* How commands begin. *)

\* The record a command begins with.
Begun(does, step, config, user, token, secure) ==
  [does |-> does, at |-> step, config |-> config, user |-> user, token |-> token,
   secure |-> secure, fetched |-> None]

LEMMA BeginOK ==
  ASSUME AccountsInv, NEW p \in Processes,
         NEW does \in {"login", "switch", "logout", "migrate"}, NEW step \in Steps,
         NEW config \in Config, NEW user \in Users, NEW token \in Tokens \cup {None},
         NEW secure \in BOOLEAN, Begin(p, does, step, config, user, token, secure),
         made' \in [Users -> 0 .. MaxLogins],
         CommandOK(Begun(does, step, config, user, token, secure)),
         file.version # 0 \/ (does = "migrate" /\ step \in {"migrate", "write"})
  PROVE  AccountsInv'
<1> DEFINE c == Begun(does, step, config, user, token, secure)
<1>1. command \in [Processes -> Command \cup {None}]
  BY DEF AccountsInv, TypeOK
<1>2. c \in Command /\ c.at = step /\ c.does = does
  BY DEF Begun, Command
<1>3. command' = [command EXCEPT ![p] = c]
  BY DEF Begin, Begun
<1>4. /\ command'[p] = c /\ \A q \in Processes \ {p} : command'[q] = command[q]
      /\ command' \in [Processes -> Command \cup {None}]
  BY <1>1, <1>2, <1>3
<1>5. UNCHANGED <<file, keyring, late, current>> /\ alone' \in BOOLEAN
  BY DEF Begin, AccountsInv, TypeOK
<1>6. TypeOK'
  BY <1>4, <1>5 DEF AccountsInv, TypeOK
<1>7. CommandsOK'
  BY <1>4 DEF AccountsInv, CommandsOK
<1>8. OldOK'
  BY <1>2, <1>4, <1>5 DEF AccountsInv, OldOK
<1>9. (Consistent(file) /\ KeyringOK /\ LateOK)'
  BY <1>5 DEF AccountsInv, Consistent, OwnTokens, KeyringOK, LateOK
<1>10. QED
  BY <1>6, <1>7, <1>8, <1>9 DEF AccountsInv

LEMMA FileFacts ==
  ASSUME AccountsInv
  PROVE  /\ file \in Config /\ file.version \in 0 .. 1 /\ OwnTokens(file) /\ Consistent(file)
         /\ file.oauth \in Tokens \cup {None}
         /\ file.users \in [Users -> Tokens \cup {Listed, Absent}]
         /\ keyring \in [Entries -> Tokens \cup {None}]
BY ConfigFields DEF AccountsInv, TypeOK, Consistent

LEMMA LoginBegins ==
  ASSUME AccountsInv, NEW p \in Processes, NEW u \in Users, NEW secure \in BOOLEAN,
         BeginLogin(p, u, secure)
  PROVE  AccountsInv'
<1> DEFINE token == [of |-> u, n |-> made[u] + 1]
<1>1. made[u] \in 0 .. MaxLogins /\ made[u] < MaxLogins /\ MaxLogins \in Nat
  BY AccountsAssumption DEF BeginLogin, AccountsInv, TypeOK
<1>2. token \in Tokens /\ token.of = u
  BY <1>1 DEF Tokens
<1>3. made' \in [Users -> 0 .. MaxLogins]
  BY <1>1 DEF BeginLogin, AccountsInv, TypeOK
<1>4. CommandOK(Begun("login", "store", file, u, token, secure))
  BY <1>2, TokenOwner, FileFacts DEF CommandOK, Begun, BeginLogin
<1>5. QED
  BY <1>2, <1>3, <1>4, FileFacts, BeginOK DEF BeginLogin, Steps

LEMMA SwitchBegins ==
  ASSUME AccountsInv, NEW p \in Processes, NEW u \in Users, BeginSwitch(p, u)
  PROVE  AccountsInv'
<1>1. PICK token \in {ActiveToken(file, keyring)} \cup
                     (IF file.oauth = None THEN {keyring[Active]} ELSE {}) :
        token # None /\ Begin(p, "switch", "clear", file, u, token, file.oauth = None)
  BY DEF BeginSwitch
<1>2. token \in Tokens \cup {None}
  BY <1>1, FileFacts DEF ActiveToken, Entries
<1>3. CommandOK(Begun("switch", "clear", file, u, token, file.oauth = None))
  BY FileFacts DEF CommandOK, Begun, BeginSwitch
<1>4. made' \in [Users -> 0 .. MaxLogins] /\ file.version # 0 /\ (file.oauth = None) \in BOOLEAN
  BY DEF BeginSwitch, AccountsInv, TypeOK
<1>5. QED
  BY <1>1, <1>2, <1>3, <1>4, FileFacts, BeginOK DEF Steps

\* Without a user that is not active a file is as right as before.
LEMMA RemovedUser ==
  ASSUME AccountsInv, NEW u \in Users
  PROVE  LET removed == [file EXCEPT !.users[u] = Absent]
         IN  /\ removed \in Config /\ removed.version = file.version /\ OwnTokens(removed)
             /\ file.user # u => Consistent(removed)
<1> DEFINE removed == [file EXCEPT !.users[u] = Absent]
<1>1. file = Host(file.version, file.user, file.oauth, file.users)
  BY FileFacts DEF Config, Host
<1>2. removed = Host(file.version, file.user, file.oauth, [file.users EXCEPT ![u] = Absent])
  BY <1>1, FileFacts DEF Host, Config
<1>3. Absent \notin Tokens
  BY AccountsAssumption
<1>4. [file.users EXCEPT ![u] = Absent] \in [Users -> Tokens \cup {Listed, Absent}]
  BY FileFacts
<1>5. removed \in Config
  BY <1>2, <1>4, FileFacts, ConfigFields DEF Host, Config
<1>6. OwnTokens(removed)
  BY <1>2, <1>3, FileFacts DEF Host, OwnTokens
<1>7. file.user # u => Consistent(removed)
  BY <1>2, <1>6, FileFacts DEF Host, Consistent
<1>8. QED
  BY <1>2, <1>5, <1>6, <1>7 DEF Host

LEMMA LogoutBegins ==
  ASSUME AccountsInv, NEW p \in Processes, NEW u \in Users, BeginLogout(p, u)
  PROVE  AccountsInv'
<1> DEFINE removed == [file EXCEPT !.users[u] = Absent]
<1>1. file.version = 1 /\ made' \in [Users -> 0 .. MaxLogins] /\ file.version # 0
  BY DEF BeginLogout, AccountsInv, TypeOK
<1>2. /\ removed \in Config /\ removed.version = 1 /\ OwnTokens(removed)
      /\ file.user # u => Consistent(removed)
  BY <1>1, RemovedUser
<1>3. CASE Begin(p, "logout", "erase", NoHost, u, None, FALSE)
  <2>1. CommandOK(Begun("logout", "erase", NoHost, u, None, FALSE))
    BY EmptyConfig DEF CommandOK, Begun
  <2>2. QED
    BY <1>1, <1>3, <2>1, EmptyConfig, BeginOK DEF Steps
<1>4. CASE file.user # u /\ Begin(p, "logout", "write", removed, u, None, FALSE)
  <2>1. CommandOK(Begun("logout", "write", removed, u, None, FALSE))
    BY <1>2, <1>4 DEF CommandOK, Begun
  <2>2. QED
    BY <1>1, <1>2, <1>4, <2>1, BeginOK DEF Steps
<1>5. ASSUME NEW other \in Users, Begin(p, "logout", "clear", removed, other, None, FALSE)
      PROVE  AccountsInv'
  <2>1. CommandOK(Begun("logout", "clear", removed, other, None, FALSE))
    BY <1>2 DEF CommandOK, Begun
  <2>2. QED
    BY <1>1, <1>2, <1>5, <2>1, BeginOK DEF Steps
<1> HIDE DEF removed
<1>6. \/ Begin(p, "logout", "erase", NoHost, u, None, FALSE)
      \/ file.user # u /\ Begin(p, "logout", "write", removed, u, None, FALSE)
      \/ \E other \in Users : Begin(p, "logout", "clear", removed, other, None, FALSE)
  BY DEF BeginLogout, UsersForHost, removed
<1>7. QED
  BY <1>3, <1>4, <1>5, <1>6

LEMMA MigrateBegins ==
  ASSUME AccountsInv, NEW p \in Processes, BeginMigrate(p)
  PROVE  AccountsInv'
<1> DEFINE token == IF file.oauth # None THEN file.oauth ELSE keyring[Active]
           owner == IF file.user \in Users THEN file.user ELSE token.of
           users == [file.users EXCEPT ![owner] = IF file.oauth = None THEN Listed ELSE token]
           step  == IF file.oauth = None THEN "migrate" ELSE "write"
           config == Host(1, owner, file.oauth, users)
<1>1. file.version = 0 /\ made' \in [Users -> 0 .. MaxLogins] /\ token \in Tokens \cup {None}
  BY FileFacts DEF BeginMigrate, AccountsInv, TypeOK, Entries
<1>2. ASSUME NEW u \in Users, Begin(p, "migrate", "write", NoHost, u, None, FALSE)
      PROVE  AccountsInv'
  <2>1. CommandOK(Begun("migrate", "write", NoHost, u, None, FALSE))
    BY EmptyConfig DEF CommandOK, Begun
  <2>2. QED
    BY <1>1, <1>2, <2>1, EmptyConfig, BeginOK DEF Steps
<1>3. CASE token # None /\ Begin(p, "migrate", step, config, owner, token, file.oauth = None)
  <2>1. token \in Tokens /\ owner \in Users /\ Listed \notin Tokens
    BY <1>1, <1>3, TokenOwner, AccountsAssumption
  <2>2. token.of = owner
    BY <1>1, <1>3, FileFacts DEF AccountsInv, OldOK, Consistent
  <2>3. users \in [Users -> Tokens \cup {Listed, Absent}]
    BY <2>1, FileFacts
  <2>4. config \in Config
    BY <2>1, <2>3, FileFacts DEF Host, Config
  <2>5. OwnTokens(config)
    BY <2>1, <2>2, <2>3, FileFacts DEF Host, OwnTokens
  <2>6. Consistent(config)
    BY <2>1, <2>2, <2>3, <2>5, FileFacts DEF Host, Consistent
  <2>7. CommandOK(Begun("migrate", step, config, owner, token, file.oauth = None))
    BY <2>2, <2>5, <2>6 DEF CommandOK, Begun, Host
  <2>8. step \in Steps /\ step \in {"migrate", "write"} /\ (file.oauth = None) \in BOOLEAN
    BY DEF Steps
  <2> HIDE DEF token, owner, users, step, config
  <2>9. QED
    BY <1>1, <1>3, <2>1, <2>4, <2>7, <2>8, BeginOK
<1>4. \/ \E u \in Users : Begin(p, "migrate", "write", NoHost, u, None, FALSE)
      \/ token # None /\ Begin(p, "migrate", step, config, owner, token, file.oauth = None)
  BY DEF BeginMigrate
<1>5. QED
  BY <1>2, <1>3, <1>4

-----------------------------------------------------------------------------
(* The steps.  What most of them leave is right if the copy they go on with is. *)

\* The keyring and its late calls are right after the step.
KeyringStep ==
  /\ keyring' \in [Entries -> Tokens \cup {None}] /\ KeyringOK'
  /\ late' \in [Processes -> SUBSET [entry : Entries, token : Tokens \cup {None}]]
  /\ LateOK'

LEMMA GoesOn ==
  ASSUME AccountsInv, NEW p \in Processes, command[p] # None, file.version # 0, KeyringStep,
         NEW step \in Steps \ {"store", "migrate"}, NEW config \in Config,
         GoTo(p, step, config), config.version = 1, OwnTokens(config),
         step \in {"write", "erase", "eraseUser"} => Consistent(config),
         step \in {"fetch", "place"} => config.oauth = None
  PROVE  AccountsInv'
<1>1. CommandOK(command[p]) /\ TypeOK
  BY DEF AccountsInv, CommandsOK
<1>2. Moved(p, step, config)
  BY <1>1, GoToMoves
<1>3. CommandOK(command'[p])
  BY <1>1, <1>2 DEF CommandOK, Moved
<1>4. UNCHANGED <<file, alone, made, current>> /\ OldOK'
  BY DEF GoTo, OldOK
<1>5. QED
  BY <1>2, <1>3, <1>4, StepOK DEF Moved, KeyringStep

LEMMA FailsOn ==
  ASSUME AccountsInv, NEW p \in Processes, command[p] # None, file.version # 0, KeyringStep,
         Fails(p)
  PROVE  AccountsInv'
<1>1. OldOK'
  BY FailsOK DEF OldOK
<1>2. QED
  BY <1>1, FailsOK, StepOK DEF KeyringStep

\* What is known of a command that runs.
LEMMA RunningFacts ==
  ASSUME AccountsInv, NEW p \in Processes, command[p] # None
  PROVE  /\ CommandOK(command[p]) /\ command[p] \in Command
         /\ command[p].config \in Config /\ command[p].user \in Users
         /\ command[p].token \in Tokens \cup {None} /\ command[p].fetched \in Tokens \cup {None}
         /\ command[p].user \in Entries /\ Active \in Entries /\ Active \notin Users
BY CommandFields, AccountsAssumption DEF AccountsInv, CommandsOK, TypeOK, Entries

\* A copy in which a user is listed with a token of its own, or without one.
LEMMA ListedUser ==
  ASSUME NEW config \in Config, OwnTokens(config), NEW u \in Users,
         NEW entry \in Tokens \cup {Listed}, entry \in Tokens => entry.of = u
  PROVE  LET listed == [config EXCEPT !.users[u] = entry]
         IN  listed \in Config /\ listed.version = config.version /\ OwnTokens(listed)
<1> DEFINE users == [config.users EXCEPT ![u] = entry]
<1>1. config.users \in [Users -> Tokens \cup {Listed, Absent}]
  BY ConfigFields
<1>2. config = Host(config.version, config.user, config.oauth, config.users)
  BY DEF Config, Host
<1>3. [config EXCEPT !.users[u] = entry] = Host(config.version, config.user, config.oauth, users)
  BY <1>2 DEF Host, Config
<1>4. users \in [Users -> Tokens \cup {Listed, Absent}]
  BY <1>1
<1>5. Host(config.version, config.user, config.oauth, users) \in Config
  BY <1>4, ConfigFields DEF Host, Config
<1>6. OwnTokens(Host(config.version, config.user, config.oauth, users))
  BY <1>1 DEF Host, OwnTokens
<1>7. QED
  BY <1>3, <1>5, <1>6 DEF Host

LEMMA StoreKeeps ==
  ASSUME AccountsInv, NEW p \in Processes, Store(p)
  PROVE  AccountsInv'
<1> DEFINE u == command[p].user
           token == command[p].token
<1>1. command[p] # None /\ command[p].at = "store"
  BY DEF Store, At
<1>2. token \in Tokens /\ token.of = u /\ file.version # 0
      /\ command[p].config.version = 1 /\ OwnTokens(command[p].config)
  BY <1>1, RunningFacts, NotOld DEF CommandOK
<1>3. CASE KeyringSet(u, token) /\ GoTo(p, "clear", [command[p].config EXCEPT !.users[u] = Listed])
  <2>1. KeyringStep
    BY <1>1, <1>2, <1>3, RunningFacts, KeyringCall DEF KeyringStep
  <2>2. Listed \notin Tokens
    BY AccountsAssumption
  <2> DEFINE listed == [command[p].config EXCEPT !.users[u] = Listed]
  <2>3. listed \in Config /\ listed.version = 1 /\ OwnTokens(listed)
    BY <1>1, <1>2, <2>2, RunningFacts, ListedUser
  <2>4. QED
    BY <1>1, <1>2, <1>3, <2>1, <2>3, GoesOn DEF Steps
<1>4. CASE /\ KeyringFails(p, u, token) \/ KeyringUnused
           /\ GoTo(p, "clear", [command[p].config EXCEPT !.users[u] = token])
  <2>1. KeyringStep
    BY <1>1, <1>2, <1>4, RunningFacts, KeyringCall, NoCall DEF KeyringStep
  <2> DEFINE listed == [command[p].config EXCEPT !.users[u] = token]
  <2>2. listed \in Config /\ listed.version = 1 /\ OwnTokens(listed)
    BY <1>1, <1>2, RunningFacts, ListedUser
  <2>3. QED
    BY <1>1, <1>2, <1>4, <2>1, <2>2, GoesOn DEF Steps
<1>5. QED
  BY <1>3, <1>4 DEF Store

LEMMA ClearKeeps ==
  ASSUME AccountsInv, NEW p \in Processes, Clear(p)
  PROVE  AccountsInv'
<1> DEFINE config == command[p].config
           cleared == [config EXCEPT !.oauth = None]
<1>1. command[p] # None /\ command[p].at = "clear"
  BY DEF Clear, At
<1>2. file.version # 0 /\ config \in Config /\ config.version = 1 /\ OwnTokens(config)
  BY <1>1, RunningFacts, NotOld DEF CommandOK
<1>3. KeyringStep
  BY <1>1, RunningFacts, KeyringCall DEF KeyringStep, Clear
<1>4. cleared \in Config /\ cleared.version = 1 /\ OwnTokens(cleared) /\ cleared.oauth = None
  BY <1>2 DEF Config, OwnTokens
<1>5. GoTo(p, "fetch", cleared)
  BY DEF Clear
<1> HIDE DEF cleared
<1>6. QED
  BY <1>1, <1>2, <1>3, <1>4, <1>5, GoesOn DEF Steps

\* With no active token in the copy, the one of its user makes it consistent.
LEMMA ActivateKeeps ==
  ASSUME AccountsInv, NEW p \in Processes, command[p] # None,
         command[p].at \in {"fetch", "place"}, KeyringStep,
         NEW placed \in BOOLEAN, Activate(p, placed)
  PROVE  AccountsInv'
<1> DEFINE config == command[p].config
           u == command[p].user
           own == config.users[u]
           active == Host(config.version, u, IF own \in Tokens THEN own ELSE config.oauth,
                          config.users)
<1>1. /\ file.version # 0 /\ config \in Config /\ config.version = 1 /\ OwnTokens(config)
      /\ config.oauth = None /\ u \in Users
  BY RunningFacts, NotOld DEF CommandOK
<1>2. CASE GoTo(p, "write", active)
  <2>1. config.users \in [Users -> Tokens \cup {Listed, Absent}]
    BY <1>1, ConfigFields
  <2>2. active \in Config /\ active.version = 1
    BY <1>1, <2>1 DEF Host, Config
  <2>3. OwnTokens(active)
    BY <1>1 DEF Host, OwnTokens
  <2>4. own \in Tokens => own.of = u /\ own # None
    BY <1>1, TokenOwner DEF OwnTokens
  <2>5. Consistent(active)
    BY <1>1, <2>3, <2>4 DEF Host, Consistent
  <2> HIDE DEF active
  <2>6. QED
    BY <1>1, <1>2, <2>2, <2>3, <2>5, GoesOn DEF Steps
<1>3. CASE Fails(p)
  BY <1>1, <1>3, FailsOn
<1>4. QED
  BY <1>2, <1>3 DEF Activate

LEMMA FetchKeeps ==
  ASSUME AccountsInv, NEW p \in Processes, Fetch(p)
  PROVE  AccountsInv'
<1>1. command[p] # None /\ command[p].at = "fetch" /\ KeyringUnused
  BY DEF Fetch, At
<1>2. KeyringStep
  BY <1>1, NoCall DEF KeyringStep
<1>3. CASE Activate(p, FALSE)
  BY <1>1, <1>2, <1>3, ActivateKeeps
<1>4. CASE /\ command' = [command EXCEPT ![p] =
                Continued(@, "place", @.config, @.token, keyring[@.user])]
           /\ UNCHANGED <<file, alone, made, current>>
  <2> DEFINE c == command[p]
  <2>1. /\ CommandOK(c) /\ c \in Command /\ c.config \in Config /\ TypeOK
        /\ keyring[c.user] \in Tokens \cup {None}
    BY <1>1, RunningFacts, FileFacts DEF AccountsInv
  <2>2. command' = [command EXCEPT ![p] = Continued(@, "place", c.config, c.token, keyring[c.user])]
    BY <1>4
  <2>3. Moved(p, "place", c.config)
    BY <1>1, <2>1, <2>2, ContinuedMoves DEF Steps
  <2>4. CommandOK(command'[p])
    BY <1>1, <2>1, <2>3 DEF CommandOK, Moved
  <2>5. OldOK'
    BY <1>1, <1>4, NotOld DEF OldOK
  <2>6. QED
    BY <1>2, <1>4, <2>3, <2>4, <2>5, StepOK DEF Moved, KeyringStep
<1>5. QED
  BY <1>3, <1>4 DEF Fetch

LEMMA PlaceKeeps ==
  ASSUME AccountsInv, NEW p \in Processes, Place(p)
  PROVE  AccountsInv'
<1>1. command[p] # None /\ command[p].at = "place" /\ file.version # 0
  BY NotOld DEF Place, At
<1>2. KeyringStep
  BY <1>1, RunningFacts, KeyringCall DEF KeyringStep, Place
<1>3. CASE Activate(p, TRUE)
  BY <1>1, <1>2, <1>3, ActivateKeeps
<1>4. CASE Fails(p)
  BY <1>1, <1>2, <1>4, FailsOn
<1>5. QED
  BY <1>3, <1>4 DEF Place

LEMMA EraseKeeps ==
  ASSUME AccountsInv, NEW p \in Processes, Erase(p) \/ EraseUser(p)
  PROVE  AccountsInv'
<1>1. command[p] # None /\ command[p].at \in {"erase", "eraseUser"} /\ file.version # 0
  BY NotOld DEF Erase, EraseUser, At
<1>2. KeyringStep
  BY <1>1, RunningFacts, KeyringCall DEF KeyringStep, Erase, EraseUser
<1>3. /\ command[p].config \in Config /\ command[p].config.version = 1
      /\ OwnTokens(command[p].config) /\ Consistent(command[p].config)
  BY <1>1, RunningFacts DEF CommandOK
<1>4. \E step \in {"eraseUser", "write"} : GoTo(p, step, command[p].config)
  BY DEF Erase, EraseUser
<1>5. QED
  BY <1>1, <1>2, <1>3, <1>4, GoesOn DEF Steps

\* The one step that calls the keyring with an old file: it does not touch the entry
\* without a user.
LEMMA MigrateTokenKeeps ==
  ASSUME AccountsInv, NEW p \in Processes, MigrateToken(p)
  PROVE  AccountsInv'
<1> DEFINE u == command[p].user
           token == command[p].token
<1>1. command[p] # None /\ command[p].at = "migrate"
  BY DEF MigrateToken, At
<1>2. /\ command[p].does = "migrate" /\ (token # None => token.of = u)
      /\ command[p].config \in Config /\ Consistent(command[p].config) /\ TypeOK
      /\ CommandOK(command[p])
  BY <1>1, RunningFacts DEF CommandOK, AccountsInv
<1>3. /\ KeyringStep /\ keyring'[Active] = keyring[Active]
      /\ \A q \in Processes : \A e \in late'[q] : e \in late[q] \/ e.entry # Active
  BY <1>1, <1>2, RunningFacts, KeyringCall DEF KeyringStep, MigrateToken
<1>4. /\ UNCHANGED <<file, alone, made, current>>
      /\ command' \in [Processes -> Command \cup {None}]
      /\ \A q \in Processes \ {p} : command'[q] = command[q]
      /\ CommandOK(command'[p]) /\ command'[p].does = "migrate"
      /\ command'[p].at \in {"write", "end"}
  <2>1. CASE GoTo(p, "write", command[p].config)
    <3>1. Moved(p, "write", command[p].config)
      BY <1>1, <1>2, <2>1, GoToMoves DEF Steps
    <3>2. QED
      BY <1>2, <2>1, <3>1 DEF Moved, CommandOK, GoTo
  <2>2. CASE Fails(p)
    BY <1>1, <1>2, <2>2, FailsOK
  <2>3. QED
    BY <2>1, <2>2 DEF MigrateToken
<1>5. OldOK'
  BY <1>3, <1>4 DEF AccountsInv, OldOK
<1>6. QED
  BY <1>3, <1>4, <1>5, StepOK DEF KeyringStep

LEMMA WriteKeeps ==
  ASSUME AccountsInv, NEW p \in Processes, Write(p)
  PROVE  AccountsInv'
<1> DEFINE c == command[p]
<1>1. c # None /\ c.at = "write" /\ KeyringUnused
  BY DEF Write, At
<1>2. /\ KeyringStep /\ c.config \in Config /\ Consistent(c.config) /\ c.config.version = 1
      /\ c.token \in Tokens \cup {None} /\ TypeOK
  BY <1>1, NoCall, RunningFacts DEF KeyringStep, CommandOK, AccountsInv
<1>3. CASE /\ file' = c.config
           /\ current' = IF c.does = "login" THEN [current EXCEPT ![c.user] = c.token] ELSE current
           /\ command' = Ended(p)
           /\ UNCHANGED <<alone, made>>
  <2>1. Moved(p, "end", NoHost)
    BY <1>1, <1>2, <1>3, EndedMoves
  <2>2. CommandOK(command'[p])
    BY <1>1, <2>1, RunningFacts, EmptyConfig DEF Moved, CommandOK
  <2>3. current' \in [Users -> Tokens \cup {None}]
    BY <1>2, <1>3 DEF TypeOK
  <2>4. TypeOK'
    BY <1>2, <1>3, <2>1, <2>3 DEF TypeOK, Moved, KeyringStep
  <2>5. CommandsOK'
    BY <2>1, <2>2 DEF AccountsInv, CommandsOK, Moved
  <2>6. OldOK'
    BY <1>2, <1>3 DEF OldOK
  <2>7. Consistent(file)'
    BY <1>2, <1>3 DEF Consistent, OwnTokens
  <2>8. QED
    BY <1>2, <2>4, <2>5, <2>6, <2>7 DEF AccountsInv, KeyringStep
<1>4. CASE Fails(p)
  <2>1. CASE file.version # 0
    BY <1>1, <1>2, <1>4, <2>1, FailsOn
  <2>2. CASE file.version = 0
    <3>1. c.does = "migrate"
      BY <1>1, <2>2 DEF AccountsInv, OldOK
    <3>2. OldOK'
      BY <1>1, <1>4, <3>1, FailsOK DEF AccountsInv, OldOK, KeyringUnused
    <3>3. QED
      BY <1>1, <1>2, <1>4, <3>2, FailsOK, StepOK DEF KeyringStep
  <2>3. QED
    BY <2>1, <2>2
<1>5. QED
  BY <1>3, <1>4 DEF Write

LEMMA RestoreKeeps ==
  ASSUME AccountsInv, NEW p \in Processes, Restore(p)
  PROVE  AccountsInv'
<1>1. command[p] # None /\ command[p].at = "restore" /\ file.version # 0 /\ TypeOK
  BY NotOld DEF Restore, At, AccountsInv
<1>2. KeyringStep
  BY <1>1, RunningFacts, KeyringCall, NoCall DEF KeyringStep, Restore
<1>3. Moved(p, "end", NoHost) /\ UNCHANGED <<file, alone, made, current>>
  BY <1>1, EndedMoves DEF Restore, End
<1>4. CommandOK(command'[p])
  BY <1>1, <1>3, RunningFacts, EmptyConfig DEF Moved, CommandOK
<1>5. OldOK'
  BY <1>1, <1>3 DEF OldOK
<1>6. QED
  BY <1>2, <1>3, <1>4, <1>5, StepOK DEF Moved, KeyringStep

LEMMA LateEffectKeeps ==
  ASSUME AccountsInv, NEW p \in Processes, LateEffect(p)
  PROVE  AccountsInv'
<1>1. PICK effect \in late[p] :
        /\ keyring' = [keyring EXCEPT ![effect.entry] = effect.token]
        /\ late' = [late EXCEPT ![p] = @ \ {effect}]
        /\ UNCHANGED <<file, command, alone, made, current>>
  BY DEF LateEffect
<1>2. /\ keyring \in [Entries -> Tokens \cup {None}] /\ Users \subseteq Entries
      /\ late \in [Processes -> SUBSET [entry : Entries, token : Tokens \cup {None}]]
      /\ effect.entry \in Entries /\ effect.token \in Tokens \cup {None}
  BY DEF AccountsInv, TypeOK, Entries
<1>3. keyring' \in [Entries -> Tokens \cup {None}]
  BY <1>1, <1>2
<1>4. effect.entry \in Users /\ effect.token # None => effect.token.of = effect.entry
  BY DEF AccountsInv, LateOK
<1>5. KeyringOK'
  BY <1>1, <1>2, <1>4 DEF AccountsInv, KeyringOK
<1>6. \A q \in Processes : late'[q] \subseteq late[q]
  BY <1>1, <1>2
<1>7. late' \in [Processes -> SUBSET [entry : Entries, token : Tokens \cup {None}]] /\ LateOK'
  BY <1>1, <1>2, <1>6 DEF AccountsInv, LateOK
<1>8. OldOK'
  <2>1. file.version = 0 => keyring'[Active] = keyring[Active]
    BY <1>1, <1>2 DEF AccountsInv, OldOK, Entries
  <2>2. QED
    BY <1>1, <1>6, <2>1 DEF AccountsInv, OldOK
<1>9. command' = command /\ (command[p] # None => CommandOK(command[p]))
  BY <1>1 DEF AccountsInv, CommandsOK
<1>10. command \in [Processes -> Command \cup {None}]
  BY DEF AccountsInv, TypeOK
<1>11. QED
  BY <1>1, <1>3, <1>5, <1>7, <1>8, <1>9, <1>10, StepOK

LEMMA ExitKeeps ==
  ASSUME AccountsInv, NEW p \in Processes, Exit(p)
  PROVE  AccountsInv'
<1>1. /\ command' = [command EXCEPT ![p] = None] /\ late' = [late EXCEPT ![p] = {}]
      /\ UNCHANGED <<file, keyring, alone, made, current>>
  BY DEF Exit
<1>2. /\ command \in [Processes -> Command \cup {None}]
      /\ late \in [Processes -> SUBSET [entry : Entries, token : Tokens \cup {None}]]
      /\ keyring \in [Entries -> Tokens \cup {None}]
  BY DEF AccountsInv, TypeOK
<1>3. /\ command' \in [Processes -> Command \cup {None}] /\ command'[p] = None
      /\ \A q \in Processes \ {p} : command'[q] = command[q]
  BY <1>1, <1>2
<1>4. /\ late' \in [Processes -> SUBSET [entry : Entries, token : Tokens \cup {None}]]
      /\ \A q \in Processes : late'[q] \subseteq late[q]
  BY <1>1, <1>2
<1>5. LateOK' /\ KeyringOK'
  BY <1>1, <1>4 DEF AccountsInv, LateOK, KeyringOK
<1>6. OldOK'
  BY <1>1, <1>3, <1>4 DEF AccountsInv, OldOK
<1>7. QED
  BY <1>1, <1>2, <1>3, <1>4, <1>5, <1>6, StepOK

-----------------------------------------------------------------------------
LEMMA AccountsStep == AccountsInv /\ [Next]_vars => AccountsInv'
<1> SUFFICES ASSUME AccountsInv, [Next]_vars PROVE AccountsInv'
  OBVIOUS
<1>1. ASSUME NEW p \in Processes, NEW u \in Users,
             \/ \E secure \in BOOLEAN : BeginLogin(p, u, secure)
             \/ BeginSwitch(p, u) \/ BeginLogout(p, u)
      PROVE  AccountsInv'
  BY <1>1, LoginBegins, SwitchBegins, LogoutBegins
<1>2. ASSUME NEW p \in Processes,
             \/ BeginMigrate(p) \/ Store(p) \/ Clear(p) \/ Fetch(p) \/ Place(p) \/ Erase(p)
             \/ EraseUser(p) \/ MigrateToken(p) \/ Write(p) \/ Restore(p) \/ LateEffect(p)
             \/ Exit(p)
      PROVE  AccountsInv'
  BY <1>2, MigrateBegins, StoreKeeps, ClearKeeps, FetchKeeps, PlaceKeeps, EraseKeeps,
     MigrateTokenKeeps, WriteKeeps, RestoreKeeps, LateEffectKeeps, ExitKeeps
<1>3. CASE UNCHANGED vars
  BY <1>3 DEF AccountsInv, TypeOK, Consistent, OwnTokens, CommandsOK, KeyringOK, LateOK, OldOK,
              vars
<1>4. QED
  BY <1>1, <1>2, <1>3 DEF Next

\* Whatever commands run at once, fail or are killed, in every reachable state: the file
\* and every copy that may be written over it hold, as the active token, one of the active
\* user, every entry of the keyring that is of a user holds a token of that user, and so
\* does everything a call that was given up may still store there.
THEOREM AccountsInvariant == Spec => []AccountsInv
<1>1. Init => AccountsInv
  BY AccountsInit
<1>2. AccountsInv /\ [Next]_vars => AccountsInv'
  BY AccountsStep
<1>3. QED
  BY <1>1, <1>2, PTL DEF Spec

\* A client that starts at any moment, beside whatever commands, does not act for its
\* active user with the token of another one while that user has a token.
THEOREM ActsForItself == Spec => []ActiveTokenIsOfActiveUser
<1>1. AccountsInv => ActiveTokenIsOfActiveUser
  <2> SUFFICES ASSUME AccountsInv, file.user \in LoggedIn(file, keyring)
               PROVE  ActiveToken(file, keyring).of = file.user
    BY DEF ActiveTokenIsOfActiveUser
  <2>1. file.user \in Users /\ TokenForUser(file, keyring, file.user) # None
    BY DEF LoggedIn, UsersForHost
  <2>2. CASE file.oauth # None
    BY <2>1, <2>2 DEF ActiveToken, AccountsInv, Consistent
  <2>3. CASE file.oauth = None /\ keyring[file.user] # None
    BY <2>1, <2>3 DEF ActiveToken, AccountsInv, KeyringOK
  <2>4. CASE file.oauth = None /\ keyring[file.user] = None
    BY <2>1, <2>4 DEF TokenForUser, AccountsInv, Consistent
  <2>5. QED
    BY <2>2, <2>3, <2>4
<1>2. QED
  BY <1>1, AccountsInvariant, PTL

\* What commands, and calls to the keyring that were given up, leave in the file and in
\* the keyring (config.go, keyring.go) always has the shape a later one reads.
THEOREM AccountsAreTyped == Spec => []TypeOK
<1>1. AccountsInv => TypeOK
  BY DEF AccountsInv
<1>2. QED
  BY <1>1, AccountsInvariant, PTL

-----------------------------------------------------------------------------
(***************************************************************************)
(* Commands one after another.  That the active token is no older than the *)
(* last login needs two invariants more: what the file, and a copy that    *)
(* may be written, have as the active token is their user's own, whoever   *)
(* runs; and, while no two commands have run together, neither the file,   *)
(* the keyring, a copy on the way nor a call that was given up holds a     *)
(* token that would bring an older login back.                             *)
(***************************************************************************)

\* The active token of a file, or of a copy that may be written, is the one that its
\* user is listed with, and else it is in the keyring.
Owned(config) ==
  config.oauth = IF config.user \in Users /\ config.users[config.user] \in Tokens
                   THEN config.users[config.user] ELSE None

OwnedInv ==
  /\ file.version = 1 => Owned(file)
  /\ \A p \in Processes :
       command[p] # None /\ command[p].at \in {"write", "erase", "eraseUser", "migrate"} =>
         Owned(command[p].config)

\* No user's token is older than the last login: neither the one in the file nor,
\* for who is listed without one, the one in the keyring.
Fresh(config, entries, logins) ==
  \A u \in Users : logins[u] # None =>
    /\ config.users[u] \in Tokens => config.users[u].n >= logins[u].n
    /\ config.users[u] = Listed /\ entries[u] # None => entries[u].n >= logins[u].n

\* A copy has every user of the file, with a token if the file has one.
Keeps(from, config, entries) ==
  \A u \in Users : from.users[u] # Absent =>
    /\ config.users[u] # Absent
    /\ from.users[u] \in Tokens => config.users[u] \in Tokens \/ entries[u] # None

\* What a command may do to the entry of a user: only a logout erases it, and a login
\* stores there its own token.
Fits(c, entry, token, logins) ==
  entry \in Users =>
    IF token = None THEN c.does = "logout"
    ELSE /\ logins[entry] # None => token.n >= logins[entry].n
         /\ c.does = "login" /\ c.at # "end" => entry = c.user /\ token = c.token

\* The new token is in the copy, or in the keyring and not in the copy.
Stored(c, config, entries) ==
  \/ config.users[c.user] = c.token
  \/ config.users[c.user] = Listed /\ entries[c.user] = c.token

\* The command p, when no other has run beside it.
Running(p) ==
  LET c == command[p]
  IN  /\ Fresh(c.config, keyring, current)
      /\ \A effect \in late[p] : Fits(c, effect.entry, effect.token, current)
      /\ c.at \in {"erase", "eraseUser"} => c.does = "logout"
      /\ c.does = "migrate" => c.at \in {"migrate", "write", "end"}
      /\ c.at = "migrate" => c.token # None
      /\ c.does = "migrate" /\ c.at # "end" => file.version = 0
      /\ c.does # "logout" /\ c.at # "end" => Keeps(file, c.config, keyring)
      /\ c.does = "login" /\ c.at # "end" => c.token # None /\ c.token.n = made[c.user]
      /\ c.does = "login" /\ c.at \notin {"store", "end"} => Stored(c, c.config, keyring)

LoneInv ==
  alone =>
    /\ \A p, q \in Processes : command[p] # None /\ command[q] # None => p = q
    /\ \A p \in Processes : command[p] = None => late[p] = {}
    /\ \A p \in Processes : command[p] # None => Running(p)
    /\ Fresh(file, keyring, current)
    /\ \A u \in Users : current[u] # None => current[u].n <= made[u]
    /\ file.version = 0 =>
         \A u \in Users : file.users[u] = Absent /\ (current[u] # None => current[u].n = 1)

LEMMA ChangedUser ==
  ASSUME NEW config \in Config, NEW u \in Users, NEW entry
  PROVE  LET changed == [config EXCEPT !.users[u] = entry]
         IN  /\ changed.users = [config.users EXCEPT ![u] = entry]
             /\ changed.user = config.user /\ changed.oauth = config.oauth
             /\ changed.version = config.version
BY DEF Config

LEMMA TokenFields ==
  ASSUME NEW token \in Tokens
  PROVE  /\ token.n \in 1 .. MaxLogins /\ MaxLogins \in Nat
         /\ token \notin {None, Listed, Absent} /\ token.n \in Nat
BY AccountsAssumption DEF Tokens

LEMMA GoToMovesOn ==
  ASSUME TypeOK, NEW p \in Processes, command[p] # None,
         NEW step \in Steps, NEW config \in Config, GoTo(p, step, config)
  PROVE  Moved(p, step, config) /\ command'[p].token = command[p].token /\ command'[p] # None
<1>1. command \in [Processes -> Command \cup {None}] /\ command[p] \in Command
  BY DEF TypeOK
<1>2. command'[p] = Continued(command[p], step, config, command[p].token, None)
  BY <1>1 DEF GoTo
<1>3. command'[p].token = command[p].token
  BY <1>2 DEF Continued
<1>4. Moved(p, step, config)
  BY GoToMoves
<1>5. Continued(command[p], step, config, command[p].token, None) \in Command
  BY <1>1, CommandFields, ContinuedFields
<1>6. QED
  BY <1>2, <1>3, <1>4, <1>5, NobodyAssumption

LEMMA BeginsWith ==
  ASSUME TypeOK, NEW p \in Processes, NEW does, NEW step, NEW config, NEW user, NEW token,
         NEW secure, Begin(p, does, step, config, user, token, secure)
  PROVE  /\ command[p] = None /\ UNCHANGED <<file, keyring, late, current>>
         /\ command'[p] = Begun(does, step, config, user, token, secure)
         /\ \A q \in Processes \ {p} : command'[q] = command[q]
BY DEF TypeOK, Begin, Begun

-----------------------------------------------------------------------------
(* The active token is the user's own. *)

LEMMA OwnedStep ==
  ASSUME OwnedInv, NEW p \in Processes, \A q \in Processes \ {p} : command'[q] = command[q],
         file' = file \/ Owned(file'),
         \/ command'[p] = None
         \/ command'[p].at \notin {"write", "erase", "eraseUser", "migrate"}
         \/ Owned(command'[p].config)
  PROVE  OwnedInv'
<1>1. file'.version = 1 => Owned(file')
  BY DEF OwnedInv
<1>2. ASSUME NEW q \in Processes, command'[q] # None,
             command'[q].at \in {"write", "erase", "eraseUser", "migrate"}
      PROVE  Owned(command'[q].config)
  BY <1>2 DEF OwnedInv
<1>3. QED
  BY <1>1, <1>2 DEF OwnedInv

LEMMA NoHostOwned == Owned(NoHost)
BY AccountsAssumption DEF Owned, NoHost, Host

\* An error leaves a command where nothing is written any more.
LEMMA FailsAway ==
  ASSUME AccountsInv, NEW p \in Processes, command[p] # None, Fails(p)
  PROVE  /\ \A q \in Processes \ {p} : command'[q] = command[q]
         /\ file' = file /\ command'[p].at \in {"restore", "end"}
<1>1. TypeOK /\ command[p].config \in Config
  BY RunningFacts DEF AccountsInv
<1>2. CASE command[p].does = "switch"
  BY <1>1, <1>2, GoToMoves DEF Fails, Moved, GoTo, Steps
<1>3. CASE command[p].does # "switch"
  BY <1>1, <1>3, EndedMoves DEF Fails, End, Moved
<1>4. QED
  BY <1>2, <1>3

LEMMA OwnedBegins ==
  ASSUME AccountsInv, OwnedInv, NEW p \in Processes,
         \/ \E u \in Users : \/ \E secure \in BOOLEAN : BeginLogin(p, u, secure)
                             \/ BeginSwitch(p, u) \/ BeginLogout(p, u)
         \/ BeginMigrate(p)
  PROVE  OwnedInv'
<1>1. TypeOK
  BY DEF AccountsInv
<1>2. ASSUME NEW does, NEW step, NEW config, NEW user, NEW token, NEW secure,
             Begin(p, does, step, config, user, token, secure),
             step \in {"store", "clear"} \/ Owned(config)
      PROVE  OwnedInv'
  <2>1. /\ file' = file /\ command'[p] = Begun(does, step, config, user, token, secure)
        /\ \A q \in Processes \ {p} : command'[q] = command[q]
    BY <1>1, <1>2, BeginsWith
  <2>2. command'[p].at = step /\ command'[p].config = config
    BY <2>1 DEF Begun
  <2>3. QED
    BY <1>2, <2>1, <2>2, OwnedStep
<1>3. ASSUME NEW u \in Users, NEW secure \in BOOLEAN, BeginLogin(p, u, secure)
      PROVE  OwnedInv'
  BY <1>2, <1>3 DEF BeginLogin
<1>4. ASSUME NEW u \in Users, BeginSwitch(p, u)
      PROVE  OwnedInv'
  BY <1>2, <1>4 DEF BeginSwitch
<1>5. ASSUME NEW u \in Users, BeginLogout(p, u)
      PROVE  OwnedInv'
  <2> DEFINE removed == [file EXCEPT !.users[u] = Absent]
  <2>1. file.user # u => Owned(removed)
    <3>1. /\ removed.users = [file.users EXCEPT ![u] = Absent]
          /\ removed.user = file.user /\ removed.oauth = file.oauth
      BY FileFacts, ChangedUser
    <3>2. Owned(file)
      BY <1>5 DEF BeginLogout, OwnedInv
    <3> HIDE DEF removed
    <3>3. QED
      BY <3>1, <3>2, FileFacts DEF Owned
  <2> HIDE DEF removed
  <2>2. \/ Begin(p, "logout", "erase", NoHost, u, None, FALSE)
        \/ file.user # u /\ Begin(p, "logout", "write", removed, u, None, FALSE)
        \/ \E other \in Users : Begin(p, "logout", "clear", removed, other, None, FALSE)
    BY <1>5 DEF BeginLogout, UsersForHost, removed
  <2>3. QED
    BY <1>2, <2>1, <2>2, NoHostOwned
<1>6. CASE BeginMigrate(p)
  <2> DEFINE token == IF file.oauth # None THEN file.oauth ELSE keyring[Active]
             owner == IF file.user \in Users THEN file.user ELSE token.of
             users == [file.users EXCEPT ![owner] = IF file.oauth = None THEN Listed ELSE token]
             step  == IF file.oauth = None THEN "migrate" ELSE "write"
             config == Host(1, owner, file.oauth, users)
  <2>1. \/ \E u \in Users : Begin(p, "migrate", "write", NoHost, u, None, FALSE)
        \/ token # None /\ Begin(p, "migrate", step, config, owner, token, file.oauth = None)
    BY <1>6 DEF BeginMigrate
  <2>2. token # None => Owned(config)
    <3> SUFFICES ASSUME token # None PROVE Owned(config)
      OBVIOUS
    <3>1. token \in Tokens /\ (file.oauth # None => file.oauth = token)
      BY FileFacts DEF Entries
    <3>2. owner \in Users
      BY <3>1, TokenOwner
    <3>3. users[owner] = IF file.oauth = None THEN Listed ELSE token
      BY <3>2, FileFacts
    <3>4. config.user = owner /\ config.oauth = file.oauth /\ config.users = users
      BY DEF Host
    <3>5. Listed \notin Tokens
      BY AccountsAssumption
    <3> HIDE DEF config, users, owner, token
    <3>6. QED
      BY <3>1, <3>2, <3>3, <3>4, <3>5 DEF Owned
  <2> HIDE DEF config, users, owner, token, step
  <2>3. QED
    BY <1>2, <2>1, <2>2, NoHostOwned
<1>7. QED
  BY <1>3, <1>4, <1>5, <1>6

LEMMA OwnedGoesOn ==
  ASSUME AccountsInv, OwnedInv, NEW p \in Processes, command[p] # None,
         NEW step \in Steps, NEW config \in Config, GoTo(p, step, config),
         step \notin {"write", "erase", "eraseUser", "migrate"} \/ Owned(config)
  PROVE  OwnedInv'
<1>1. Moved(p, step, config)
  BY GoToMoves DEF AccountsInv
<1>2. file' = file
  BY DEF GoTo
<1>3. QED
  BY <1>1, <1>2, OwnedStep DEF Moved

LEMMA OwnedFails ==
  ASSUME AccountsInv, OwnedInv, NEW p \in Processes, command[p] # None, Fails(p)
  PROVE  OwnedInv'
BY FailsAway, OwnedStep

LEMMA OwnedActivates ==
  ASSUME AccountsInv, OwnedInv, NEW p \in Processes, command[p] # None,
         command[p].at \in {"fetch", "place"}, NEW placed \in BOOLEAN, Activate(p, placed)
  PROVE  OwnedInv'
<1> DEFINE config == command[p].config
           u == command[p].user
           own == config.users[u]
           active == Host(config.version, u, IF own \in Tokens THEN own ELSE config.oauth,
                          config.users)
<1>1. config \in Config /\ config.oauth = None /\ u \in Users
  BY RunningFacts DEF CommandOK
<1>2. active \in Config
  BY <1>1, ConfigFields DEF Host, Config
<1>3. Owned(active)
  BY <1>1 DEF Host, Owned
<1>4. CASE GoTo(p, "write", active)
  <2> HIDE DEF active
  <2>1. QED
    BY <1>2, <1>3, <1>4, OwnedGoesOn DEF Steps
<1>5. CASE Fails(p)
  BY <1>5, OwnedFails
<1>6. QED
  BY <1>4, <1>5 DEF Activate

LEMMA OwnedStays ==
  ASSUME AccountsInv, OwnedInv, [Next]_vars
  PROVE  OwnedInv'
<1>1. ASSUME NEW p \in Processes, Store(p) \/ Clear(p)
      PROVE  OwnedInv'
  <2>1. PICK step \in {"clear", "fetch"} : \E config : GoTo(p, step, config)
    BY <1>1 DEF Store, Clear
  <2>2. command \in [Processes -> Command \cup {None}] /\ command[p] # None
    BY <1>1 DEF Store, Clear, At, AccountsInv, TypeOK
  <2>3. command'[p].at = step /\ file' = file /\ \A q \in Processes \ {p} : command'[q] = command[q]
    BY <2>1, <2>2 DEF GoTo, Continued
  <2>4. QED
    BY <2>1, <2>3, OwnedStep
<1>2. ASSUME NEW p \in Processes, Fetch(p)
      PROVE  OwnedInv'
  <2>1. command[p] # None /\ command[p].at = "fetch"
    BY <1>2 DEF Fetch, At
  <2>2. CASE Activate(p, FALSE)
    BY <2>1, <2>2, OwnedActivates
  <2>3. CASE /\ command' = [command EXCEPT ![p] =
                  Continued(@, "place", @.config, @.token, keyring[@.user])]
             /\ UNCHANGED <<file, alone, made, current>>
    <3>1. command'[p].at = "place" /\ \A q \in Processes \ {p} : command'[q] = command[q]
      BY <2>3 DEF Continued, AccountsInv, TypeOK
    <3>2. QED
      BY <2>3, <3>1, OwnedStep
  <2>4. QED
    BY <1>2, <2>2, <2>3 DEF Fetch
<1>3. ASSUME NEW p \in Processes, Place(p)
      PROVE  OwnedInv'
  BY <1>3, OwnedActivates, OwnedFails DEF Place, At
<1>4. ASSUME NEW p \in Processes, Erase(p) \/ EraseUser(p) \/ MigrateToken(p)
      PROVE  OwnedInv'
  <2>1. /\ command[p] # None /\ command[p].at \in {"erase", "eraseUser", "migrate"}
        /\ \/ \E step \in {"eraseUser", "write"} : GoTo(p, step, command[p].config)
           \/ Fails(p)
    BY <1>4 DEF Erase, EraseUser, MigrateToken, At
  <2>2. Owned(command[p].config) /\ command[p].config \in Config
    BY <2>1, RunningFacts DEF OwnedInv
  <2>3. QED
    BY <2>1, <2>2, OwnedGoesOn, OwnedFails DEF Steps
<1>5. ASSUME NEW p \in Processes, Write(p)
      PROVE  OwnedInv'
  <2>1. command[p] # None /\ command[p].at = "write" /\ TypeOK
    BY <1>5 DEF Write, At, AccountsInv
  <2>2. CASE Fails(p)
    BY <2>1, <2>2, OwnedFails
  <2>3. CASE file' = command[p].config /\ command' = Ended(p)
    <3>1. Owned(file') /\ Moved(p, "end", NoHost)
      BY <2>1, <2>3, EndedMoves DEF OwnedInv
    <3>2. QED
      BY <3>1, OwnedStep DEF Moved
  <2>4. QED
    BY <1>5, <2>2, <2>3 DEF Write
<1>6. ASSUME NEW p \in Processes, Restore(p) \/ LateEffect(p) \/ Exit(p)
      PROVE  OwnedInv'
  <2>1. CASE Restore(p)
    <3>1. command[p] # None /\ End(p) /\ TypeOK
      BY <2>1 DEF Restore, At, AccountsInv
    <3>2. Moved(p, "end", NoHost) /\ file' = file
      BY <3>1, EndedMoves DEF End
    <3>3. QED
      BY <3>2, OwnedStep DEF Moved
  <2>2. CASE LateEffect(p)
    BY <2>2 DEF LateEffect, OwnedInv
  <2>3. CASE Exit(p)
    <3>1. /\ file' = file /\ command'[p] = None
          /\ \A q \in Processes \ {p} : command'[q] = command[q]
      BY <2>3 DEF Exit, AccountsInv, TypeOK
    <3>2. QED
      BY <3>1, OwnedStep
  <2>4. QED
    BY <1>6, <2>1, <2>2, <2>3
<1>7. CASE UNCHANGED vars
  BY <1>7 DEF vars, OwnedInv
<1>8. QED
  BY <1>1, <1>2, <1>3, <1>4, <1>5, <1>6, <1>7, OwnedBegins DEF Next

-----------------------------------------------------------------------------
(* No older token comes back while commands run one after another. *)

\* What a step of the command p did to the keyring and to its late calls.
Called(p) ==
  /\ \A u \in Users : keyring'[u] = keyring[u] \/ Fits(command[p], u, keyring'[u], current)
  /\ \A q \in Processes \ {p} : late'[q] = late[q]
  /\ \A effect \in late'[p] : Fits(command[p], effect.entry, effect.token, current)

\* The command p is alone, and LoneInv says this of it.
LEMMA LoneFacts ==
  ASSUME LoneInv, alone, NEW p \in Processes, command[p] # None
  PROVE  /\ Running(p) /\ Fresh(file, keyring, current)
         /\ \A q \in Processes \ {p} : command[q] = None /\ late[q] = {}
         /\ \A u \in Users : current[u] # None => current[u].n <= made[u]
         /\ file.version = 0 =>
              \A u \in Users : file.users[u] = Absent /\ (current[u] # None => current[u].n = 1)
BY DEF LoneInv

LEMMA CallFits ==
  ASSUME AccountsInv, LoneInv, alone, NEW p \in Processes, command[p] # None,
         NEW entry \in Entries, NEW token \in Tokens \cup {None},
         Fits(command[p], entry, token, current),
         KeyringSet(entry, token) \/ KeyringFails(p, entry, token)
  PROVE  Called(p)
<1>1. /\ keyring \in [Entries -> Tokens \cup {None}] /\ Users \subseteq Entries
      /\ late \in [Processes -> SUBSET [entry : Entries, token : Tokens \cup {None}]]
  BY DEF AccountsInv, TypeOK, Entries
<1>2. \A effect \in late[p] : Fits(command[p], effect.entry, effect.token, current)
  BY LoneFacts DEF Running
<1>3. CASE KeyringSet(entry, token)
  <2>1. keyring' = [keyring EXCEPT ![entry] = token] /\ late' = late
    BY <1>3 DEF KeyringSet
  <2>2. \A u \in Users : keyring'[u] = keyring[u] \/ (u = entry /\ keyring'[u] = token)
    BY <1>1, <2>1
  <2>3. QED
    BY <1>2, <2>1, <2>2 DEF Called
<1>4. CASE KeyringFails(p, entry, token)
  <2> DEFINE effect == [entry |-> entry, token |-> token]
  <2>1. keyring' = keyring /\ (late' = late \/ late' = [late EXCEPT ![p] = @ \cup {effect}])
    BY <1>4 DEF KeyringFails
  <2>3. effect.entry = entry /\ effect.token = token
    OBVIOUS
  <2> HIDE DEF effect
  <2>2. /\ \A q \in Processes \ {p} : late'[q] = late[q]
        /\ \A e \in late'[p] : e \in late[p] \/ e = effect
    BY <1>1, <2>1
  <2>4. \A e \in late'[p] : Fits(command[p], e.entry, e.token, current)
    BY <1>2, <2>2, <2>3
  <2>5. QED
    BY <2>1, <2>2, <2>4 DEF Called
<1>5. QED
  BY <1>3, <1>4

LEMMA NoCallFits ==
  ASSUME LoneInv, alone, NEW p \in Processes, command[p] # None, KeyringUnused
  PROVE  Called(p)
BY LoneFacts DEF Called, Running, KeyringUnused

LEMMA ActiveFits == ASSUME NEW c, NEW token PROVE Fits(c, Active, token, current)
BY AccountsAssumption DEF Fits

\* Such calls bring nothing older back.
LEMMA FreshStays ==
  ASSUME NEW p \in Processes, Called(p), NEW config, Fresh(config, keyring, current)
  PROVE  Fresh(config, keyring', current)
<1> SUFFICES ASSUME NEW u \in Users, current[u] # None
             PROVE  /\ config.users[u] \in Tokens => config.users[u].n >= current[u].n
                    /\ config.users[u] = Listed /\ keyring'[u] # None =>
                         keyring'[u].n >= current[u].n
  BY DEF Fresh
<1>1. keyring'[u] = keyring[u] \/ Fits(command[p], u, keyring'[u], current)
  BY DEF Called
<1>2. keyring'[u] # None /\ keyring'[u] # keyring[u] => keyring'[u].n >= current[u].n
  BY <1>1 DEF Fits
<1>3. QED
  BY <1>2 DEF Fresh

\* A step of a command that does not write: what remains to show of it.
LEMMA LoneStep ==
  ASSUME LoneInv, alone, NEW p \in Processes, command[p] # None,
         UNCHANGED <<file, alone, made, current>>, Called(p),
         \A q \in Processes \ {p} : command'[q] = command[q],
         command'[p] = None => late'[p] = {},
         command'[p] # None => Running(p)'
  PROVE  LoneInv'
<1>1. \A q \in Processes \ {p} : command'[q] = None /\ late'[q] = {}
  BY LoneFacts DEF Called
<1>2. \A q, r \in Processes : command'[q] # None /\ command'[r] # None => q = r
  BY <1>1
<1>3. \A q \in Processes : command'[q] = None => late'[q] = {}
  BY <1>1
<1>4. \A q \in Processes : command'[q] # None => Running(q)'
  BY <1>1
<1>5. Fresh(file, keyring', current)
  BY LoneFacts, FreshStays
<1>6. Fresh(file, keyring, current)'
  BY <1>5
<1>7. /\ \A u \in Users : current'[u] # None => current'[u].n <= made'[u]
      /\ file'.version = 0 =>
           \A u \in Users : file'.users[u] = Absent /\ (current'[u] # None => current'[u].n = 1)
  BY LoneFacts
<1>8. QED
  BY <1>2, <1>3, <1>4, <1>6, <1>7 DEF LoneInv

LEMMA NoHostFresh ==
  ASSUME NEW entries, NEW logins
  PROVE  Fresh(NoHost, entries, logins)
BY AccountsAssumption DEF Fresh, NoHost, NoUsers, Host

\* The command goes on with a copy that lists the same users, or is over.
LEMMA LoneGoesOn ==
  ASSUME AccountsInv, LoneInv, alone, NEW p \in Processes, command[p] # None,
         command[p].at \notin {"store", "end"},
         UNCHANGED <<file, alone, made, current>>, Called(p),
         NEW step \in Steps, NEW config, Moved(p, step, config), command'[p] # None,
         \/ /\ config.users = command[p].config.users
            /\ command'[p].token = command[p].token
            /\ step \notin {"store", "end", "migrate"}
         \/ config = NoHost /\ step = "end",
         step \in {"erase", "eraseUser"} => command[p].does = "logout",
         command[p].does = "migrate" => step \in {"write", "end"}
  PROVE  LoneInv'
<1> DEFINE c == command[p]
           d == command'[p]
<1>1. /\ d.at = step /\ d.config = config /\ d.does = c.does /\ d.user = c.user
      /\ step # "end" => d.token = c.token /\ config.users = c.config.users
  BY DEF Moved
<1>2. Running(p)
  BY LoneFacts
<1>3. Fresh(config, keyring', current)
  <2>1. CASE step = "end"
    BY <2>1, NoHostFresh
  <2>2. CASE step # "end"
    <3>1. Fresh(c.config, keyring', current)
      BY <1>2, FreshStays DEF Running
    <3>2. QED
      BY <1>1, <2>2, <3>1 DEF Fresh
  <2>3. QED
    BY <2>1, <2>2
<1>4. \A effect \in late'[p] : Fits(d, effect.entry, effect.token, current)
  <2>1. \A entry, token : Fits(c, entry, token, current) => Fits(d, entry, token, current)
    BY <1>1 DEF Fits
  <2>2. QED
    BY <2>1 DEF Called
<1>5. d.does # "logout" /\ d.at # "end" => Keeps(file, config, keyring')
  <2> SUFFICES ASSUME d.does # "logout", d.at # "end" PROVE Keeps(file, config, keyring')
    OBVIOUS
  <2>1. Keeps(file, c.config, keyring)
    BY <1>1, <1>2 DEF Running
  <2>2. \A u \in Users : keyring[u] # None => keyring'[u] # None
    BY <1>1 DEF Called, Fits
  <2>3. QED
    BY <1>1, <2>1, <2>2 DEF Keeps
<1>6. d.does = "login" /\ d.at # "end" => Stored(d, config, keyring')
  <2> SUFFICES ASSUME d.does = "login", d.at # "end" PROVE Stored(d, config, keyring')
    OBVIOUS
  <2>1. Stored(c, c.config, keyring)
    BY <1>1, <1>2 DEF Running
  <2>2. c.user \in Users
    BY RunningFacts
  <2>3. keyring'[c.user] = keyring[c.user] \/ keyring'[c.user] = c.token
    BY <1>1, <2>2 DEF Called, Fits
  <2>4. QED
    BY <1>1, <2>1, <2>3 DEF Stored
<1>7. Running(p)'
  BY <1>1, <1>2, <1>3, <1>4, <1>5, <1>6 DEF Running
<1>8. QED
  BY <1>7, LoneStep DEF Moved

LEMMA LoneGoTo ==
  ASSUME AccountsInv, LoneInv, alone, NEW p \in Processes, command[p] # None,
         command[p].at \notin {"store", "end"}, Called(p),
         NEW step \in Steps \ {"store", "end", "migrate"}, NEW config \in Config,
         config.users = command[p].config.users, GoTo(p, step, config),
         step \in {"erase", "eraseUser"} => command[p].does = "logout",
         command[p].does = "migrate" => step = "write"
  PROVE  LoneInv'
<1>1. Moved(p, step, config) /\ command'[p].token = command[p].token /\ command'[p] # None
  BY GoToMovesOn DEF AccountsInv
<1>2. UNCHANGED <<file, alone, made, current>>
  BY DEF GoTo
<1>3. QED
  BY <1>1, <1>2, LoneGoesOn

LEMMA EndedIsACommand ==
  ASSUME TypeOK, NEW p \in Processes, command[p] # None, command' = Ended(p)
  PROVE  command'[p] # None
<1>1. command \in [Processes -> Command \cup {None}] /\ command[p] \in Command
  BY DEF TypeOK
<1>2. Continued(command[p], "end", NoHost, None, None) \in Command
  BY <1>1, CommandFields, ContinuedFields, EmptyConfig DEF Steps
<1>3. command'[p] = Continued(command[p], "end", NoHost, None, None)
  BY <1>1 DEF Ended
<1>4. QED
  BY <1>2, <1>3, NobodyAssumption

LEMMA LoneEnds ==
  ASSUME AccountsInv, LoneInv, alone, NEW p \in Processes, command[p] # None,
         command[p].at \notin {"store", "end"}, Called(p), End(p)
  PROVE  LoneInv'
<1>1. Moved(p, "end", NoHost) /\ UNCHANGED <<file, alone, made, current>>
  BY EndedMoves DEF End, AccountsInv
<1>2. command'[p] # None
  BY EndedIsACommand DEF End, AccountsInv
<1>3. QED
  BY <1>1, <1>2, LoneGoesOn DEF Steps

LEMMA LoneFails ==
  ASSUME AccountsInv, LoneInv, alone, NEW p \in Processes, command[p] # None,
         command[p].at \notin {"store", "end"}, Called(p), Fails(p)
  PROVE  LoneInv'
<1>1. CASE command[p].does = "switch"
  BY <1>1, LoneGoTo, RunningFacts DEF Fails, Steps
<1>2. CASE command[p].does # "switch"
  BY <1>2, LoneEnds DEF Fails
<1>3. QED
  BY <1>1, <1>2

LEMMA LoneActivates ==
  ASSUME AccountsInv, LoneInv, alone, NEW p \in Processes, command[p] # None,
         command[p].at \in {"fetch", "place"}, Called(p),
         NEW placed \in BOOLEAN, Activate(p, placed)
  PROVE  LoneInv'
<1> DEFINE config == command[p].config
           u == command[p].user
           own == config.users[u]
           active == Host(config.version, u, IF own \in Tokens THEN own ELSE config.oauth,
                          config.users)
<1>1. config \in Config /\ u \in Users
  BY RunningFacts
<1>2. active \in Config /\ active.users = config.users
  BY <1>1, ConfigFields DEF Host, Config
<1>3. CASE GoTo(p, "write", active)
  <2> HIDE DEF active
  <2>1. QED
    BY <1>2, <1>3, LoneGoTo DEF Steps
<1>4. CASE Fails(p)
  BY <1>4, LoneFails
<1>5. QED
  BY <1>3, <1>4 DEF Activate

\* The new token goes where the copy says it is.
LEMMA LoneStores ==
  ASSUME AccountsInv, LoneInv, alone, NEW p \in Processes, Store(p)
  PROVE  LoneInv' /\ Called(p)
<1> DEFINE c == command[p]
           u == c.user
           config == c.config
<1>1. c # None /\ c.at = "store" /\ c.does = "login" /\ c.token # None /\ u \in Users
      /\ c.token \in Tokens /\ c.token.of = u /\ config \in Config /\ u \in Entries
  BY RunningFacts DEF Store, At, CommandOK
<1>2. /\ Running(p) /\ c.token.n = made[u]
      /\ current[u] # None => c.token.n >= current[u].n
  <2>1. Running(p) /\ c.token.n = made[u]
    BY <1>1, LoneFacts DEF Running
  <2>2. current[u] # None => current[u].n <= made[u]
    BY <1>1, LoneFacts
  <2>3. QED
    BY <2>1, <2>2
<1>3. Fits(c, u, c.token, current)
  BY <1>1, <1>2 DEF Fits
<1>4. PICK entry \in {Listed, c.token} :
        /\ GoTo(p, "clear", [config EXCEPT !.users[u] = entry])
        /\ \/ entry = Listed /\ KeyringSet(u, c.token)
           \/ entry = c.token /\ (KeyringFails(p, u, c.token) \/ KeyringUnused)
  BY DEF Store
<1>5. Called(p)
  BY <1>1, <1>3, <1>4, CallFits, NoCallFits
<1> DEFINE changed == [config EXCEPT !.users[u] = entry]
<1>6. changed.users = [config.users EXCEPT ![u] = entry]
  BY <1>1, ChangedUser
<1>7. changed \in Config
  <2>1. entry \in Tokens \cup {Listed} /\ (entry \in Tokens => entry.of = u)
    BY <1>1, AccountsAssumption
  <2>2. OwnTokens(config)
    BY <1>1, RunningFacts DEF CommandOK
  <2>3. QED
    BY <1>1, <2>1, <2>2, ListedUser
<1> HIDE DEF changed
<1>8. \A v \in Users : changed.users[v] = IF v = u THEN entry ELSE config.users[v]
  BY <1>1, <1>6, ConfigFields
<1>9. /\ Moved(p, "clear", changed) /\ command'[p].token = c.token /\ command'[p] # None
      /\ UNCHANGED <<file, alone, made, current>>
  BY <1>1, <1>4, <1>7, GoToMovesOn DEF changed, Steps, AccountsInv, GoTo
<1>10. entry = Listed => keyring'[u] = c.token
  BY <1>1, <1>4, TokenFields DEF KeyringSet, AccountsInv, TypeOK
<1>11. Fresh(changed, keyring', current)
  <2>1. Fresh(config, keyring', current)
    BY <1>2, <1>5, FreshStays DEF Running
  <2>2. Listed \notin Tokens
    BY AccountsAssumption
  <2>3. QED
    BY <1>1, <1>2, <1>8, <1>10, <2>1, <2>2, TokenFields DEF Fresh
<1>12. Stored(c, changed, keyring')
  BY <1>1, <1>8, <1>10 DEF Stored
<1>13. Keeps(file, changed, keyring')
  <2>1. Keeps(file, config, keyring)
    BY <1>1, <1>2 DEF Running
  <2>2. \A v \in Users : keyring[v] # None => keyring'[v] # None
    BY <1>1, <1>5 DEF Called, Fits
  <2>3. entry # Absent /\ (entry = Listed => keyring'[u] # None)
    BY <1>1, <1>10, TokenFields, AccountsAssumption
  <2>4. QED
    BY <1>1, <1>8, <2>1, <2>2, <2>3 DEF Keeps
<1>14. Running(p)'
  <2> DEFINE d == command'[p]
  <2>1. /\ d.at = "clear" /\ d.config = changed /\ d.does = "login" /\ d.user = u
        /\ d.token = c.token
    BY <1>1, <1>9 DEF Moved
  <2>2. \A effect \in late'[p] : Fits(d, effect.entry, effect.token, current)
    BY <1>1, <1>5, <2>1 DEF Called, Fits
  <2>3. Stored(d, changed, keyring')
    BY <1>12, <2>1 DEF Stored
  <2>4. QED
    BY <1>1, <1>2, <1>9, <1>11, <1>13, <2>1, <2>2, <2>3 DEF Running
<1>15. QED
  BY <1>1, <1>5, <1>9, <1>14, LoneStep DEF Moved

\* What the other steps do to the keyring fits.
LEMMA LoneCalls ==
  ASSUME AccountsInv, LoneInv, alone, NEW p \in Processes,
         \/ Clear(p) \/ Fetch(p) \/ Place(p) \/ Erase(p) \/ EraseUser(p) \/ MigrateToken(p)
         \/ Write(p) \/ Restore(p)
  PROVE  Called(p) /\ command[p] # None /\ command[p].at \notin {"store", "end"}
<1> DEFINE c == command[p]
<1>1. c # None /\ c.at \notin {"store", "end"}
  BY DEF Clear, Fetch, Place, Erase, EraseUser, MigrateToken, Write, Restore, At
<1>2. c.user \in Entries /\ Active \in Entries /\ c.user \in Users /\ c \in Command
      /\ c.token \in Tokens \cup {None} /\ c.fetched \in Tokens \cup {None} /\ None \in {None}
  BY <1>1, RunningFacts
<1>3. CASE KeyringUnused
  BY <1>1, <1>3, NoCallFits
<1>4. ASSUME NEW token \in Tokens \cup {None},
             KeyringSet(Active, token) \/ KeyringFails(p, Active, token)
      PROVE  Called(p)
  BY <1>1, <1>2, <1>4, ActiveFits, CallFits
<1>5. CASE EraseUser(p)
  <2>1. c.does = "logout"
    BY <1>1, <1>5, LoneFacts DEF EraseUser, At, Running
  <2>2. Fits(c, c.user, None, current)
    BY <2>1 DEF Fits
  <2>3. QED
    BY <1>1, <1>2, <1>5, <2>2, CallFits DEF EraseUser
<1>6. CASE MigrateToken(p)
  <2>1. c.at = "migrate" /\ c.does = "migrate"
    BY <1>1, <1>6, RunningFacts DEF MigrateToken, At, CommandOK
  <2>2. file.version = 0
    BY <1>1, <2>1, LoneFacts DEF Running
  <2>3. current[c.user] # None => current[c.user].n = 1
    BY <1>1, <1>2, <2>2, LoneFacts
  <2>4. CASE c.token # None
    <3>1. Fits(c, c.user, c.token, current)
      BY <1>2, <2>1, <2>3, <2>4, TokenFields DEF Fits
    <3>2. QED
      BY <1>1, <1>2, <1>6, <3>1, CallFits DEF MigrateToken
  <2>5. c.token # None
    BY <1>1, <2>1, LoneFacts DEF Running
  <2>6. QED
    BY <2>4, <2>5
<1>7. QED
  BY <1>1, <1>2, <1>3, <1>4, <1>5, <1>6
    DEF Clear, Fetch, Place, Erase, EraseUser, MigrateToken, Write, Restore

\* A copy after activateUser's first step lists the same users.
LEMMA ClearedUsers ==
  ASSUME NEW config \in Config
  PROVE  LET cleared == [config EXCEPT !.oauth = None]
         IN  cleared \in Config /\ cleared.users = config.users
BY DEF Config

LEMMA LoneMoves ==
  ASSUME AccountsInv, LoneInv, alone, NEW p \in Processes,
         \/ Clear(p) \/ Fetch(p) \/ Place(p) \/ Erase(p) \/ EraseUser(p) \/ MigrateToken(p)
         \/ Restore(p)
  PROVE  LoneInv'
<1> DEFINE c == command[p]
<1>1. Called(p) /\ c # None /\ c.at \notin {"store", "end"}
  BY LoneCalls
<1>2. /\ c.config \in Config /\ c.user \in Users /\ c \in Command /\ Running(p)
      /\ TypeOK /\ CommandOK(c)
  BY <1>1, RunningFacts, LoneFacts DEF AccountsInv
<1>3. CASE Clear(p)
  <2> DEFINE cleared == [c.config EXCEPT !.oauth = None]
  <2>1. cleared \in Config /\ cleared.users = c.config.users /\ GoTo(p, "fetch", cleared)
    BY <1>2, <1>3, ClearedUsers DEF Clear
  <2>2. c.does # "migrate"
    BY <1>2, <1>3 DEF Clear, At, Running
  <2> HIDE DEF cleared
  <2>3. QED
    BY <1>1, <2>1, <2>2, LoneGoTo DEF Steps
<1>4. CASE Fetch(p)
  <2>1. CASE Activate(p, FALSE)
    BY <1>1, <1>4, <2>1, LoneActivates DEF Fetch, At
  <2>2. CASE /\ command' = [command EXCEPT ![p] =
                  Continued(@, "place", @.config, @.token, keyring[@.user])]
             /\ UNCHANGED <<file, alone, made, current>>
    <3>1. command \in [Processes -> Command \cup {None}]
          /\ keyring[c.user] \in Tokens \cup {None} /\ c.token \in Tokens \cup {None}
      BY <1>2, RunningFacts DEF TypeOK, Entries, Command
    <3>2. command' = [command EXCEPT ![p] =
                        Continued(@, "place", c.config, c.token, keyring[c.user])]
      BY <2>2, <3>1
    <3>3. Moved(p, "place", c.config)
      BY <1>1, <1>2, <3>1, <3>2, ContinuedMoves DEF Steps
    <3>4. command'[p] = Continued(c, "place", c.config, c.token, keyring[c.user])
      BY <3>1, <3>2
    <3>5. command'[p] # None /\ command'[p].token = c.token
      BY <1>2, <3>1, <3>4, ContinuedFields, NobodyAssumption DEF Steps, Continued
    <3>6. c.does # "migrate"
      BY <1>2, <1>4 DEF Fetch, At, Running
    <3>7. QED
      BY <1>1, <2>2, <3>3, <3>5, <3>6, LoneGoesOn DEF Steps
  <2>3. QED
    BY <1>4, <2>1, <2>2 DEF Fetch
<1>5. CASE Place(p)
  BY <1>1, <1>5, LoneActivates, LoneFails DEF Place, At
<1>6. CASE Erase(p) \/ EraseUser(p)
  <2>1. c.does = "logout"
    BY <1>2, <1>6 DEF Erase, EraseUser, At, Running
  <2>2. PICK step \in {"eraseUser", "write"} : GoTo(p, step, c.config)
    BY <1>6 DEF Erase, EraseUser
  <2>3. QED
    BY <1>1, <1>2, <2>1, <2>2, LoneGoTo DEF Steps
<1>7. CASE MigrateToken(p)
  BY <1>1, <1>2, <1>7, LoneGoTo, LoneFails DEF MigrateToken, Steps
<1>8. CASE Restore(p)
  BY <1>1, <1>8, LoneEnds DEF Restore
<1>9. QED
  BY <1>3, <1>4, <1>5, <1>6, <1>7, <1>8

\* The copy becomes the file; after a login its token is the current one.
LEMMA LoneWrites ==
  ASSUME AccountsInv, LoneInv, alone, NEW p \in Processes, Write(p)
  PROVE  LoneInv'
<1> DEFINE c == command[p]
           d == command'[p]
<1>1. c # None /\ c.at = "write" /\ KeyringUnused /\ Called(p)
  BY LoneCalls DEF Write, At
<1>2. /\ c.config \in Config /\ c.user \in Users /\ c \in Command /\ Running(p)
      /\ TypeOK /\ c.config.version = 1 /\ c.token \in Tokens \cup {None}
  BY <1>1, RunningFacts, LoneFacts DEF AccountsInv, CommandOK
<1>3. CASE Fails(p)
  BY <1>1, <1>3, LoneFails
<1>4. CASE /\ file' = c.config
           /\ current' = IF c.does = "login" THEN [current EXCEPT ![c.user] = c.token] ELSE current
           /\ command' = Ended(p)
           /\ UNCHANGED <<alone, made>>
  <2>1. /\ Moved(p, "end", NoHost) /\ UNCHANGED <<keyring, late, alone, made>>
    BY <1>1, <1>2, <1>4, EndedMoves DEF KeyringUnused
  <2>2. /\ d.at = "end" /\ d.config = NoHost /\ d.does = c.does
        /\ \A q \in Processes \ {p} : command'[q] = command[q]
    BY <2>1 DEF Moved
  <2>3. c.does = "login" =>
          /\ c.token \in Tokens /\ c.token.n = made[c.user]
          /\ Stored(c, c.config, keyring)
          /\ \A u \in Users : current'[u] = IF u = c.user THEN c.token ELSE current[u]
    BY <1>1, <1>2, <1>4 DEF Running, TypeOK
  <2>4. c.does # "login" => current' = current
    BY <1>4
  <2>5. Fresh(c.config, keyring, current)
    BY <1>2 DEF Running
  <2>6. Fresh(c.config, keyring, current')
    <3>1. CASE c.does = "login"
      <4>1. c.token.n \in Nat /\ c.token \notin {Listed, Absent} /\ Listed \notin Tokens
        BY <2>3, <3>1, TokenFields, AccountsAssumption
      <4>2. QED
        BY <2>3, <2>5, <3>1, <4>1 DEF Fresh, Stored
    <3>2. CASE c.does # "login"
      BY <2>4, <2>5, <3>2
    <3>3. QED
      BY <3>1, <3>2
  <2>7. \A effect \in late[p] : Fits(d, effect.entry, effect.token, current')
    <3> SUFFICES ASSUME NEW effect \in late[p], effect.entry \in Users
                 PROVE  IF effect.token = None THEN d.does = "logout"
                        ELSE current'[effect.entry] # None =>
                               effect.token.n >= current'[effect.entry].n
      BY <2>2 DEF Fits
    <3>1. Fits(c, effect.entry, effect.token, current)
      BY <1>2 DEF Running
    <3>2. CASE c.does = "login"
      <4>1. c.token.n \in Nat
        BY <2>3, <3>2, TokenFields
      <4>2. QED
        BY <1>1, <2>2, <2>3, <3>1, <3>2, <4>1 DEF Fits
    <3>3. CASE c.does # "login"
      BY <2>2, <2>4, <3>1, <3>3 DEF Fits
    <3>4. QED
      BY <3>2, <3>3
  <2>8. \A u \in Users : current'[u] # None => current'[u].n <= made[u]
    <3>1. \A u \in Users : current[u] # None => current[u].n <= made[u]
      BY <1>1, LoneFacts
    <3>2. CASE c.does = "login"
      <4>1. c.token.n <= made[c.user]
        BY <2>3, <3>2, TokenFields
      <4>2. QED
        BY <2>3, <3>1, <3>2, <4>1
    <3>3. CASE c.does # "login"
      BY <2>4, <3>1, <3>3
    <3>4. QED
      BY <3>2, <3>3
  <2>9. /\ \A q, r \in Processes : command'[q] # None /\ command'[r] # None => q = r
        /\ \A q \in Processes : command'[q] = None => late'[q] = {}
    <3>1. \A q \in Processes \ {p} : command'[q] = None /\ late'[q] = {}
      BY <1>1, <2>1, <2>2, LoneFacts
    <3>2. d # None
      BY <1>1, <1>2, <1>4, EndedIsACommand
    <3>3. QED
      BY <3>1, <3>2
  <2>10. \A q \in Processes : command'[q] # None => q = p
    BY <1>1, <2>2, LoneFacts
  <2>11. Running(p)'
    <3>1. Fresh(d.config, keyring', current')
      BY <2>2, NoHostFresh
    <3>2. \A effect \in late'[p] : Fits(d, effect.entry, effect.token, current')
      BY <2>1, <2>7
    <3>3. QED
      BY <2>2, <3>1, <3>2 DEF Running
  <2>12. Fresh(file, keyring, current)'
    BY <1>4, <2>1, <2>6
  <2>13. file'.version # 0
    BY <1>2, <1>4
  <2>14. \A u \in Users : current'[u] # None => current'[u].n <= made'[u]
    BY <2>1, <2>8
  <2>15. \A q \in Processes : command'[q] # None => Running(q)'
    BY <2>10, <2>11
  <2>16. QED
    BY <2>9, <2>12, <2>13, <2>14, <2>15 DEF LoneInv
<1>5. QED
  BY <1>3, <1>4 DEF Write

LEMMA LoneLateEffect ==
  ASSUME AccountsInv, LoneInv, alone, NEW p \in Processes, LateEffect(p)
  PROVE  LoneInv' /\ Called(p) /\ command[p] # None
<1> DEFINE c == command[p]
<1>1. PICK effect \in late[p] :
        /\ keyring' = [keyring EXCEPT ![effect.entry] = effect.token]
        /\ late' = [late EXCEPT ![p] = @ \ {effect}]
        /\ UNCHANGED <<file, command, alone, made, current>>
  BY DEF LateEffect
<1>2. /\ keyring \in [Entries -> Tokens \cup {None}] /\ Users \subseteq Entries
      /\ late \in [Processes -> SUBSET [entry : Entries, token : Tokens \cup {None}]]
  BY DEF AccountsInv, TypeOK, Entries
<1>3. c # None /\ Running(p)
  BY LoneFacts DEF LoneInv
<1>4. /\ \A q \in Processes \ {p} : late'[q] = late[q]
      /\ \A e \in late'[p] : e \in late[p]
  BY <1>1, <1>2
<1>5. \A u \in Users : keyring'[u] = keyring[u] \/ (u = effect.entry /\ keyring'[u] = effect.token)
  BY <1>1, <1>2
<1>6. \A e \in late[p] : Fits(c, e.entry, e.token, current)
  BY <1>3 DEF Running
<1>7. Called(p)
  BY <1>4, <1>5, <1>6 DEF Called
<1>8. Running(p)'
  <2>1. Fresh(c.config, keyring', current)
    BY <1>3, <1>7, FreshStays DEF Running
  <2>2. c.does # "logout" /\ c.at # "end" => Keeps(file, c.config, keyring')
    <3> SUFFICES ASSUME c.does # "logout", c.at # "end" PROVE Keeps(file, c.config, keyring')
      OBVIOUS
    <3>1. \A u \in Users : keyring[u] # None => keyring'[u] # None
      BY <1>7 DEF Called, Fits
    <3>2. Keeps(file, c.config, keyring)
      BY <1>3 DEF Running
    <3>3. QED
      BY <3>1, <3>2 DEF Keeps
  <2>3. c.does = "login" /\ c.at \notin {"store", "end"} => Stored(c, c.config, keyring')
    <3> SUFFICES ASSUME c.does = "login", c.at \notin {"store", "end"}
                 PROVE  Stored(c, c.config, keyring')
      OBVIOUS
    <3>1. c.user \in Users
      BY <1>3, RunningFacts
    <3>2. keyring'[c.user] = keyring[c.user] \/ keyring'[c.user] = c.token
      BY <1>7, <3>1 DEF Called, Fits
    <3>3. Stored(c, c.config, keyring)
      BY <1>3 DEF Running
    <3>4. QED
      BY <3>2, <3>3 DEF Stored
  <2>4. \A e \in late'[p] : Fits(c, e.entry, e.token, current)
    BY <1>4, <1>6
  <2>5. UNCHANGED <<file, command, made, current>>
    BY <1>1
  <2>6. QED
    BY <1>3, <2>1, <2>2, <2>3, <2>4, <2>5 DEF Running
<1>9. QED
  BY <1>1, <1>3, <1>7, <1>8, LoneStep

LEMMA LoneExit ==
  ASSUME AccountsInv, LoneInv, alone, NEW p \in Processes, Exit(p)
  PROVE  LoneInv' /\ Called(p) /\ command[p] # None
<1>1. /\ command[p] # None
      /\ command' = [command EXCEPT ![p] = None] /\ late' = [late EXCEPT ![p] = {}]
      /\ UNCHANGED <<file, keyring, alone, made, current>>
  BY DEF Exit
<1>2. /\ command \in [Processes -> Command \cup {None}]
      /\ late \in [Processes -> SUBSET [entry : Entries, token : Tokens \cup {None}]]
  BY DEF AccountsInv, TypeOK
<1>3. /\ command'[p] = None /\ \A q \in Processes \ {p} : command'[q] = command[q]
      /\ late'[p] = {} /\ \A q \in Processes \ {p} : late'[q] = late[q]
  BY <1>1, <1>2
<1>4. Called(p)
  BY <1>1, <1>3 DEF Called
<1>5. QED
  BY <1>1, <1>3, <1>4, LoneStep

\* A command that begins alone, with a copy that brings nothing older back.
LEMMA LoneBegins ==
  ASSUME AccountsInv, LoneInv, NEW p \in Processes,
         NEW does, NEW step, NEW config, NEW user, NEW token, NEW secure,
         Begin(p, does, step, config, user, token, secure),
         alone => Fresh(config, keyring, current),
         \A u \in Users : current[u] # None /\ current[u].n <= made[u] => current[u].n <= made'[u],
         step # "end",
         step \in {"erase", "eraseUser"} => does = "logout",
         does = "login" => step = "store" /\ token # None /\ token.n = made'[user],
         does = "migrate" => step \in {"migrate", "write"} /\ file.version = 0,
         step = "migrate" => token # None,
         alone /\ does # "logout" => Keeps(file, config, keyring)
  PROVE  LoneInv'
<1> SUFFICES ASSUME alone' PROVE LoneInv'
  BY DEF LoneInv
<1>1. /\ command[p] = None /\ UNCHANGED <<file, keyring, late, current>>
      /\ command'[p] = Begun(does, step, config, user, token, secure)
      /\ \A q \in Processes \ {p} : command'[q] = command[q]
  BY BeginsWith DEF AccountsInv
<1>2. alone /\ \A q \in Processes : command[q] = None
  BY DEF Begin
<1>3. \A q \in Processes : late[q] = {}
  BY <1>2 DEF LoneInv
<1>4. \A q \in Processes : command'[q] # None => q = p
  BY <1>1, <1>2
<1>5. /\ Fresh(file, keyring, current) /\ \A u \in Users : current[u] # None => current[u].n <= made[u]
      /\ file.version = 0 =>
           \A u \in Users : file.users[u] = Absent /\ (current[u] # None => current[u].n = 1)
  BY <1>2 DEF LoneInv
<1> DEFINE d == command'[p]
<1>6. /\ d.does = does /\ d.at = step /\ d.config = config /\ d.user = user /\ d.token = token
  BY <1>1 DEF Begun
<1>7. Running(p)'
  <2>1. Fresh(d.config, keyring', current')
    BY <1>1, <1>2, <1>6
  <2>2. \A e \in late'[p] : Fits(d, e.entry, e.token, current')
    BY <1>1, <1>3
  <2>3. d.does # "logout" => Keeps(file', d.config, keyring')
    BY <1>1, <1>2, <1>6
  <2>4. QED
    BY <1>1, <1>6, <2>1, <2>2, <2>3 DEF Running
<1>8. Fresh(file', keyring', current')
  BY <1>1, <1>5
<1>9. \A u \in Users : current'[u] # None => current'[u].n <= made'[u]
  BY <1>1, <1>5
<1>10. file'.version = 0 =>
         \A u \in Users : file'.users[u] = Absent /\ (current'[u] # None => current'[u].n = 1)
  BY <1>1, <1>5
<1>11. \A q \in Processes : late'[q] = {}
  BY <1>1, <1>3
<1>12. \A q \in Processes : command'[q] # None => Running(q)'
  BY <1>4, <1>7
<1>13. QED
  BY <1>4, <1>8, <1>9, <1>10, <1>11, <1>12 DEF LoneInv

LEMMA LoneBeginnings ==
  ASSUME AccountsInv, LoneInv, NEW p \in Processes,
         \/ \E u \in Users : \/ \E secure \in BOOLEAN : BeginLogin(p, u, secure)
                             \/ BeginSwitch(p, u) \/ BeginLogout(p, u)
         \/ BeginMigrate(p)
  PROVE  LoneInv'
<1>1. alone => Fresh(file, keyring, current)
  BY DEF LoneInv
<1>2. Keeps(file, file, keyring)
  BY DEF Keeps
<1>3. made \in [Users -> 0 .. MaxLogins] /\ MaxLogins \in Nat
      /\ current \in [Users -> Tokens \cup {None}]
  BY AccountsAssumption DEF AccountsInv, TypeOK
<1>4. ASSUME NEW u \in Users, NEW secure \in BOOLEAN, BeginLogin(p, u, secure)
      PROVE  LoneInv'
  <2> DEFINE token == [of |-> u, n |-> made[u] + 1]
  <2>1. Begin(p, "login", "store", file, u, token, secure)
        /\ made' = [made EXCEPT ![u] = @ + 1] /\ made[u] < MaxLogins
    BY <1>4 DEF BeginLogin
  <2>2. token \in Tokens /\ made'[u] = made[u] + 1 /\ \A v \in Users : made[v] <= made'[v]
    BY <1>3, <2>1 DEF Tokens
  <2>3. token # None /\ token.n = made'[u]
    BY <2>2, TokenFields
  <2>4. ASSUME NEW v \in Users, current[v] # None, current[v].n <= made[v]
        PROVE  current[v].n <= made'[v]
    <3>1. current[v].n \in Nat /\ made[v] \in Nat /\ made'[v] \in Nat
      BY <1>3, <2>1, <2>4, TokenFields
    <3>2. QED
      BY <2>2, <2>4, <3>1
  <2> HIDE DEF token
  <2>5. QED
    BY <1>1, <1>2, <2>1, <2>3, <2>4, LoneBegins
<1>5. ASSUME NEW u \in Users, BeginSwitch(p, u)
      PROVE  LoneInv'
  BY <1>1, <1>2, <1>5, LoneBegins DEF BeginSwitch
<1>6. ASSUME NEW u \in Users, BeginLogout(p, u)
      PROVE  LoneInv'
  <2> DEFINE removed == [file EXCEPT !.users[u] = Absent]
  <2>1. alone => Fresh(removed, keyring, current)
    <3>1. removed.users = [file.users EXCEPT ![u] = Absent]
      BY FileFacts, ChangedUser
    <3> HIDE DEF removed
    <3>2. \A v \in Users : removed.users[v] = IF v = u THEN Absent ELSE file.users[v]
      BY <3>1, FileFacts
    <3>3. QED
      BY <1>1, <3>2, AccountsAssumption DEF Fresh
  <2>2. Fresh(NoHost, keyring, current)
    BY NoHostFresh
  <2> HIDE DEF removed
  <2>3. UNCHANGED made
    BY <1>6 DEF BeginLogout
  <2>4. \/ Begin(p, "logout", "erase", NoHost, u, None, FALSE)
        \/ Begin(p, "logout", "write", removed, u, None, FALSE)
        \/ \E other \in Users : Begin(p, "logout", "clear", removed, other, None, FALSE)
    BY <1>6 DEF BeginLogout, UsersForHost, removed
  <2>5. ASSUME NEW step \in {"erase", "write", "clear"}, NEW config, NEW user,
               Begin(p, "logout", step, config, user, None, FALSE),
               alone => Fresh(config, keyring, current)
        PROVE  LoneInv'
    BY <2>3, <2>5, LoneBegins
  <2>6. QED
    BY <2>1, <2>2, <2>4, <2>5
<1>7. CASE BeginMigrate(p)
  <2> DEFINE token == IF file.oauth # None THEN file.oauth ELSE keyring[Active]
             owner == IF file.user \in Users THEN file.user ELSE token.of
             entry == IF file.oauth = None THEN Listed ELSE token
             users == [file.users EXCEPT ![owner] = entry]
             step  == IF file.oauth = None THEN "migrate" ELSE "write"
             config == Host(1, owner, file.oauth, users)
  <2>1. file.version = 0 /\ UNCHANGED made
    BY <1>7 DEF BeginMigrate
  <2>2. alone => \A u \in Users : file.users[u] = Absent /\ (current[u] # None => current[u].n = 1)
    BY <2>1 DEF LoneInv
  <2>3. \/ \E u \in Users : Begin(p, "migrate", "write", NoHost, u, None, FALSE)
        \/ token # None /\ Begin(p, "migrate", step, config, owner, token, file.oauth = None)
    BY <1>7 DEF BeginMigrate
  <2>4. ASSUME alone
        PROVE  Keeps(file, NoHost, keyring) /\ Keeps(file, config, keyring)
    BY <2>2, <2>4 DEF Keeps
  <2>5. ASSUME token # None, alone
        PROVE  Fresh(config, keyring, current)
    <3>1. token \in Tokens
      BY <2>5, FileFacts DEF Entries
    <3>2. owner \in Users /\ token.n \in Nat /\ token.n >= 1
      BY <3>1, TokenOwner, TokenFields
    <3>3. \A u \in Users : config.users[u] = IF u = owner THEN entry ELSE file.users[u]
      BY <3>2, FileFacts DEF Host
    <3>4. /\ Absent \notin Tokens /\ Listed # Absent /\ Listed \notin Tokens
          /\ entry \in {token, Listed}
      BY AccountsAssumption
    <3>5. keyring \in [Entries -> Tokens \cup {None}] /\ Users \subseteq Entries
      BY FileFacts DEF Entries
    <3> HIDE DEF config, entry, owner, token
    <3> SUFFICES ASSUME NEW u \in Users, current[u] # None
                 PROVE  /\ config.users[u] \in Tokens => config.users[u].n >= current[u].n
                        /\ config.users[u] = Listed /\ keyring[u] # None =>
                             keyring[u].n >= current[u].n
      BY DEF Fresh
    <3>6. current[u].n = 1 /\ file.users[u] = Absent
      BY <2>2, <2>5
    <3>7. config.users[u] \in Tokens => config.users[u] = token
      BY <3>3, <3>4, <3>6
    <3>8. keyring[u] # None => keyring[u].n >= 1
      BY <3>5, TokenFields
    <3>9. QED
      BY <3>2, <3>6, <3>7, <3>8
  <2>6. step \in {"migrate", "write"}
    OBVIOUS
  <2> HIDE DEF config, token, owner, step
  <2>7. QED
    BY <2>1, <2>3, <2>4, <2>5, <2>6, NoHostFresh, LoneBegins
<1>8. QED
  BY <1>4, <1>5, <1>6, <1>7

LEMMA LoneStays ==
  ASSUME AccountsInv, LoneInv, [Next]_vars
  PROVE  LoneInv'
<1> SUFFICES ASSUME alone' PROVE LoneInv'
  BY DEF LoneInv
<1>1. ASSUME NEW p \in Processes,
             \/ Store(p) \/ Clear(p) \/ Fetch(p) \/ Place(p) \/ Erase(p) \/ EraseUser(p)
             \/ MigrateToken(p) \/ Write(p) \/ Restore(p) \/ LateEffect(p) \/ Exit(p)
      PROVE  LoneInv'
  <2>1. CASE alone
    BY <1>1, <2>1, LoneStores, LoneMoves, LoneWrites, LoneLateEffect, LoneExit
  <2>2. CASE ~ alone
    <3>1. alone' = alone
      BY <1>1 DEF Store, Clear, Fetch, Place, Erase, EraseUser, MigrateToken, Write, Restore,
                  LateEffect, Exit, Activate, Fails, GoTo, End
    <3>2. QED
      BY <2>2, <3>1
  <2>3. QED
    BY <2>1, <2>2
<1>2. CASE UNCHANGED vars
  BY <1>2 DEF vars, LoneInv, Running, Fresh, Keeps, Fits, Stored
<1>3. QED
  BY <1>1, <1>2, LoneBeginnings DEF Next

LEMMA LoneInit == Init => OwnedInv /\ LoneInv
<1> SUFFICES ASSUME Init PROVE OwnedInv /\ LoneInv
  OBVIOUS
<1>1. /\ command = [p \in Processes |-> None] /\ late = [p \in Processes |-> {}]
      /\ made = [u \in Users |-> IF current[u] = None THEN 0 ELSE 1]
  BY DEF Init
<1>2. /\ file.users = [u \in Users |-> Absent] /\ (file.version = 1 => file = NoHost)
      /\ \A u \in Users : current[u] # None => current[u].n = 1
  <2>1. CASE file = NoHost /\ current = [u \in Users |-> None]
    BY <2>1 DEF NoHost, Host, NoUsers
  <2>2. CASE \E owner \in Users :
               /\ current = [u \in Users |-> IF u = owner THEN [of |-> owner, n |-> 1] ELSE None]
               /\ \E user, oauth : file = Host(0, user, oauth, NoUsers)
    BY <2>2 DEF Host, NoUsers
  <2>3. QED
    BY <2>1, <2>2 DEF Init
<1>3. OwnedInv
  BY <1>1, <1>2, NoHostOwned DEF OwnedInv
<1>4. Fresh(file, keyring, current)
  BY <1>2, AccountsAssumption DEF Fresh
<1>5. \A u \in Users : current[u] # None => current[u].n <= made[u]
  BY <1>1, <1>2
<1>6. \A p \in Processes : command[p] = None /\ late[p] = {}
  BY <1>1
<1>7. file.version = 0 =>
        \A u \in Users : file.users[u] = Absent /\ (current[u] # None => current[u].n = 1)
  BY <1>2
<1>8. \A p, q \in Processes : command[p] # None /\ command[q] # None => p = q
  BY <1>6
<1>9. \A p \in Processes : command[p] # None => Running(p)
  BY <1>6
<1>10. QED
  BY <1>3, <1>4, <1>5, <1>6, <1>7, <1>8, <1>9 DEF LoneInv

LEMMA LoneAlways == Spec => [](AccountsInv /\ OwnedInv /\ LoneInv)
<1>1. Init => AccountsInv /\ OwnedInv /\ LoneInv
  BY AccountsInit, LoneInit
<1>2. AccountsInv /\ OwnedInv /\ LoneInv /\ [Next]_vars => (AccountsInv /\ OwnedInv /\ LoneInv)'
  BY AccountsStep, OwnedStays, LoneStays
<1>3. QED
  BY <1>1, <1>2, PTL DEF Spec

\* What the host's file and keyring say of a user who is logged in.
LEMMA LoggedInFacts ==
  ASSUME AccountsInv, OwnedInv, LoneInv, alone, NEW u \in LoggedIn(file, keyring)
  PROVE  /\ u \in Users /\ file.version = 1 /\ Owned(file)
         /\ \/ file.users[u] \in Tokens
            \/ file.users[u] = Listed /\ keyring[u] # None
<1>1. u \in Users /\ file.users[u] # Absent /\ TokenForUser(file, keyring, u) # None
  BY DEF LoggedIn, UsersForHost
<1>2. file.version # 0
  BY <1>1 DEF LoneInv
<1>3. file.version = 1 /\ Owned(file)
  BY <1>2, FileFacts DEF OwnedInv
<1>4. file.users[u] \in Tokens \cup {Listed}
  BY <1>1, FileFacts
<1>5. file.users[u] \in Tokens \/ keyring[u] # None
  BY <1>1 DEF TokenForUser
<1>6. QED
  BY <1>1, <1>3, <1>4, <1>5

\* While commands come one after another, wherever one of them fails, is killed or leaves
\* a call to the keyring behind, a client that starts acts for its active user with the
\* token of that user's last login, or of a later one that failed (config.go, Login,
\* SwitchUser, activateUser): no older token comes back.
THEOREM NoTokenComesBack == Spec => []ActiveTokenIsCurrent
<1>1. AccountsInv /\ OwnedInv /\ LoneInv => ActiveTokenIsCurrent
  <2> DEFINE u == file.user
             token == ActiveToken(file, keyring)
  <2> SUFFICES ASSUME AccountsInv, OwnedInv, LoneInv, alone, u \in LoggedIn(file, keyring),
                      current[u] # None
               PROVE  token.n >= current[u].n
    BY DEF ActiveTokenIsCurrent
  <2>1. /\ u \in Users /\ Owned(file)
        /\ file.users[u] \in Tokens \/ (file.users[u] = Listed /\ keyring[u] # None)
    BY LoggedInFacts
  <2>2. Fresh(file, keyring, current)
    BY DEF LoneInv
  <2>3. CASE file.users[u] \in Tokens
    <3>1. file.oauth = file.users[u] /\ file.oauth # None
      BY <2>1, <2>3, TokenFields DEF Owned
    <3>2. QED
      BY <2>1, <2>2, <2>3, <3>1 DEF Fresh, ActiveToken
  <2>4. CASE file.users[u] = Listed /\ keyring[u] # None
    <3>1. file.oauth = None
      BY <2>1, <2>4, AccountsAssumption DEF Owned
    <3>2. QED
      BY <2>1, <2>2, <2>4, <3>1 DEF Fresh, ActiveToken
  <2>5. QED
    BY <2>1, <2>3, <2>4
<1>2. QED
  BY <1>1, LoneAlways, PTL

-----------------------------------------------------------------------------
(* Who is logged in stays so. *)

\* What a step that logs nobody out leaves of the file and the keyring.
StaysLoggedIn ==
  /\ LoggedIn(file, keyring) \subseteq LoggedIn(file', keyring')
  /\ file'.user \in LoggedIn(file, keyring) => ActiveToken(file', keyring') # None

LEMMA StepKeepsUsers ==
  ASSUME AccountsInv, OwnedInv, LoneInv, alone,
         Consistent(file'), file' \in Config, keyring' \in [Entries -> Tokens \cup {None}],
         Keeps(file, file', keyring'),
         \A u \in Users : keyring[u] # None => keyring'[u] # None
  PROVE  StaysLoggedIn
<1>1. ASSUME NEW u \in LoggedIn(file, keyring)
      PROVE  /\ u \in Users /\ file'.users[u] # Absent
             /\ file'.users[u] \in Tokens \/ keyring'[u] # None
  BY LoggedInFacts, AccountsAssumption DEF Keeps
<1>2. ASSUME NEW u \in LoggedIn(file, keyring)
      PROVE  u \in LoggedIn(file', keyring')
  BY <1>1, TokenFields DEF LoggedIn, UsersForHost, TokenForUser
<1>3. ASSUME file'.user \in LoggedIn(file, keyring)
      PROVE  ActiveToken(file', keyring') # None
  <2>1. /\ file'.user \in Users
        /\ file'.users[file'.user] \in Tokens \/ keyring'[file'.user] # None
    BY <1>1, <1>3
  <2>2. file'.users[file'.user] \in Tokens => file'.oauth # None
    BY <2>1 DEF Consistent
  <2>3. QED
    BY <2>1, <2>2 DEF ActiveToken
<1>4. QED
  BY <1>2, <1>3 DEF StaysLoggedIn

LEMMA OnlyLogoutStep ==
  ASSUME AccountsInv, OwnedInv, LoneInv, [Next]_vars, alone', ~ LoggingOut
  PROVE  StaysLoggedIn
<1>1. AccountsInv' /\ file' \in Config /\ keyring' \in [Entries -> Tokens \cup {None}]
      /\ Consistent(file')
  <2>1. AccountsInv'
    BY AccountsStep
  <2>2. QED
    BY <2>1 DEF AccountsInv, TypeOK, Consistent, OwnTokens
<1>2. Keeps(file, file, keyring')
  BY DEF Keeps
<1>3. ASSUME alone, file' = file, \A u \in Users : keyring[u] # None => keyring'[u] # None
      PROVE  StaysLoggedIn
  BY <1>1, <1>2, <1>3, StepKeepsUsers
<1>4. ASSUME NEW p \in Processes, Called(p), command[p] # None
      PROVE  \A u \in Users : keyring[u] # None => keyring'[u] # None
  BY <1>4 DEF Called, Fits, LoggingOut
<1>5. ASSUME NEW p \in Processes,
             \/ \E u \in Users : \/ \E secure \in BOOLEAN : BeginLogin(p, u, secure)
                                 \/ BeginSwitch(p, u) \/ BeginLogout(p, u)
             \/ BeginMigrate(p)
      PROVE  StaysLoggedIn
  <2>1. \E does, step, config, user, token, secure :
          Begin(p, does, step, config, user, token, secure)
    BY <1>5 DEF BeginLogin, BeginSwitch, BeginLogout, BeginMigrate
  <2>2. alone /\ UNCHANGED <<file, keyring>>
    BY <2>1 DEF Begin
  <2>3. QED
    BY <1>3, <2>2
<1>6. ASSUME NEW p \in Processes,
             \/ Store(p) \/ Clear(p) \/ Fetch(p) \/ Place(p) \/ Erase(p) \/ EraseUser(p)
             \/ MigrateToken(p) \/ Restore(p) \/ LateEffect(p) \/ Exit(p)
      PROVE  StaysLoggedIn
  <2>1. UNCHANGED <<file, alone>>
    BY <1>6 DEF Store, Clear, Fetch, Place, Erase, EraseUser, MigrateToken, Restore,
                LateEffect, Exit, Activate, Fails, GoTo, End
  <2>2. Called(p) /\ command[p] # None
    BY <1>6, <2>1, LoneStores, LoneCalls, LoneLateEffect, LoneExit DEF Store, At
  <2>3. QED
    BY <1>3, <1>4, <2>1, <2>2
<1>7. ASSUME NEW p \in Processes, Write(p)
      PROVE  StaysLoggedIn
  <2>1. command[p] # None /\ command[p].at = "write" /\ KeyringUnused
    BY <1>7 DEF Write, At
  <2>2. CASE Fails(p)
    BY <1>3, <2>1, <2>2 DEF Fails, GoTo, End, KeyringUnused
  <2>3. CASE file' = command[p].config /\ UNCHANGED alone
    <3>1. command[p].does # "logout" /\ alone
      BY <2>1, <2>3 DEF LoggingOut
    <3>2. Keeps(file, file', keyring')
      BY <2>1, <2>3, <3>1, LoneFacts DEF Running, KeyringUnused
    <3>3. QED
      BY <1>1, <2>1, <3>1, <3>2, StepKeepsUsers DEF KeyringUnused
  <2>4. QED
    BY <1>7, <2>2, <2>3 DEF Write
<1>8. CASE UNCHANGED vars
  BY <1>3, <1>8 DEF vars
<1>9. QED
  BY <1>5, <1>6, <1>7, <1>8 DEF Next

\* While commands come one after another, no step of a login, a switch or a migration,
\* and none that a killed or failed one leaves behind, takes a user's token away or the
\* host's active one: the file is written last, and only a logout erases entries of users.
THEOREM OthersStayLoggedIn == Spec => OnlyLogoutLogsOut
<1>1. AccountsInv /\ OwnedInv /\ LoneInv /\ [Next]_vars =>
        [alone' /\ ~ LoggingOut =>
           /\ LoggedIn(file, keyring) \subseteq LoggedIn(file', keyring')
           /\ file'.user \in LoggedIn(file, keyring) => ActiveToken(file', keyring') # None]_vars
  BY OnlyLogoutStep DEF StaysLoggedIn
<1>2. QED
  BY <1>1, LoneAlways, PTL DEF Spec, OnlyLogoutLogsOut
=============================================================================
