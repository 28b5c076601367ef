---------------------------- MODULE TokenImport ----------------------------
(***************************************************************************)
(* auth import of the native contract (internal/contractcli/v1/native.go,   *)
(* importToken) and the two stores it keeps in step: the host configuration *)
(* (internal/config), read at the start and written back whole by a rename  *)
(* at the end, and the system keyring (internal/auth), whose entry is set   *)
(* before the configuration is saved and taken back when the save fails.    *)
(* A native command (productnative.Open) takes the authority from the one   *)
(* and its credential from the environment, when that has one, else from    *)
(* the other.                                                               *)
(*                                                                         *)
(* Imports and readers of several processes interleave and the user edits   *)
(* the configuration and the keyring.  Every call may fail; the keyring's   *)
(* calls do when the context is done.  A run that is killed is one that     *)
(* takes no further step.                                                   *)
(***************************************************************************)
EXTENDS Naturals, FiniteSets

CONSTANTS
  Invocation,
  Host, Api, Token,
  Valid,      \* the pairs <<token, API>> the provider accepts
  PublicHost, PublicApi,  \* the one host that needs no configuration
  Configured, \* the configurations a run may start from
  MaxActors   \* bound on the commands that run plus the edits of the user

VARIABLES
  store,    \* the configuration's entries, and the keyring's items
  pc,       \* pc[c]: the next call of c
  run,      \* run[c]: arguments, environment, configuration read, previous item
  verdict,  \* verdict[c]: what the caller was told
  others,   \* commands that run and edits of the user so far
  past      \* past[c]: history, the entries changed by anyone else since c loaded or
            \* saved them, and whether its keyring item was since it last used it

vars == <<store, pc, run, verdict, others, past>>
-----------------------------------------------------------------------------
None == "none"
Unread == "unread"
Config == [Host -> Api \cup {None}]

\* Mutant: an item is named by its host alone.
ByHost(h, a) == <<h, PublicApi>>

\* ServiceName hashes the API base; the account is the host.
ServiceName(h, a) == <<h, a>>

\* Config.Resolve.
Resolve(cfg, h) == IF cfg[h] = None /\ h = PublicHost THEN PublicApi ELSE cfg[h]

Key(c) == ServiceName(run[c].host, run[c].api)
Steps == {"load", "validate", "get", "set", "save", "delete", "restore", "open", "lookup"}

TypeOK ==
  /\ pc \in [Invocation -> Steps \cup {"imported"}]
  /\ store \in [config : Config, ring : [Host \X Api -> Token \cup {None}]]
  /\ run \in [Invocation ->
       [host : Host, api : Api \cup {None}, token : Token, env : Token \cup {None},
        cfg : Config, previous : Token \cup {None, Unread}, failed : BOOLEAN]]
  /\ \A c \in Invocation : run[c].api = None => pc[c] \in {"open", "imported"}
  /\ verdict \in [Invocation -> {"none", "stored", "opened", "refused", "incomplete"}]
  /\ others \in 0..MaxActors
  /\ past \in [Invocation -> [entries : SUBSET Host, item : BOOLEAN]]

Init ==
  /\ \E config \in Configured, t \in Token \cup {None} :
       store = [config |-> config,
                ring |-> [i \in Host \X Api |->
                   IF <<t, i[2]>> \in Valid /\ config[i[1]] = i[2] THEN t ELSE None]]
  /\ pc \in [Invocation -> {"load", "open", "imported"}]
  /\ run \in [Invocation ->
       [host : Host, api : Api, token : Token, env : Token \cup {None},
        cfg : {store.config}, previous : {Unread}, failed : {FALSE}]]
  /\ \A c \in Invocation :
       /\ pc[c] # "load" => run[c].api = PublicApi /\ run[c].token = CHOOSE t \in Token : TRUE
       /\ pc[c] # "open" => run[c].env = None  \* an import takes its token from stdin
  /\ others = Cardinality({c \in Invocation : pc[c] # "imported"})
  /\ verdict = [c \in Invocation |-> "none"]
  /\ past = [c \in Invocation |-> [entries |-> {}, item |-> FALSE]]
-----------------------------------------------------------------------------
Goto(c, step) == pc' = [pc EXCEPT ![c] = step]
Answer(c, v) == Goto(c, "imported") /\ verdict' = [verdict EXCEPT ![c] = v]

\* What a change of the configuration or of an item is to every run but c.
Changed(cfg, new, p) == p \cup {h \in Host : cfg[h] # new[h]}
SavesConfig(c, new) ==
  /\ store' = [store EXCEPT !.config = new]
  /\ past' = [d \in Invocation |-> [past[d] EXCEPT !.entries =
                IF d = c THEN {} ELSE Changed(store.config, new, @)]]
SetsItem(c, i, t) ==
  /\ store' = [store EXCEPT !.ring[i] = t]
  /\ past' = [d \in Invocation |-> [past[d] EXCEPT !.item =
                IF d = c THEN FALSE ELSE @ \/ (i = Key(d) /\ store.ring[i] # t)]]

\* config.Load, then the entry is put into the copy read and resolved in it.
Load(c) ==
  /\ pc[c] = "load"
  /\ run' = [run EXCEPT ![c].cfg = [store.config EXCEPT ![run[c].host] = run[c].api]]
  /\ past' = [past EXCEPT ![c].entries = {}]
  /\ Goto(c, "validate")
  /\ UNCHANGED <<store, verdict, others>>

\* Mutant: the token is not tried.
AnyToken(c) == TRUE

Authenticates(c) == <<run[c].token, run[c].api>> \in Valid

\* GET /user at the resolved authority, with the token from standard input.
Validate(c) ==
  /\ pc[c] = "validate"
  /\ Authenticates(c)
  /\ Goto(c, "get")
  /\ UNCHANGED <<store, run, verdict, others, past>>

Get(c) ==
  /\ pc[c] = "get"
  /\ run' = [run EXCEPT ![c].previous = store.ring[Key(c)]]
  /\ past' = [past EXCEPT ![c].item = FALSE]
  /\ Goto(c, "set")
  /\ UNCHANGED <<store, verdict, others>>

Set(c) ==
  /\ pc[c] = "set"
  /\ SetsItem(c, Key(c), run[c].token)
  /\ Goto(c, "save")
  /\ UNCHANGED <<run, verdict, others>>

\* Nothing has been written yet: the run refuses.
Refuse(c) ==
  /\ pc[c] \in {"load", "validate", "get", "set", "open", "lookup"}
  /\ Answer(c, "refused")
  /\ UNCHANGED <<store, run, others, past>>

\* config.Save does not look at the context: one rename, of the whole copy.
Save(c) ==
  /\ pc[c] = "save"
  /\ SavesConfig(c, run[c].cfg)
  /\ Answer(c, "stored")
  /\ UNCHANGED <<run, others>>

SaveFails(c) ==
  /\ pc[c] = "save"
  /\ Goto(c, "delete")
  /\ UNCHANGED <<store, run, verdict, others, past>>

\* Rollback: the item is deleted whatever was there before, then the previous one
\* is set; either call may fail.
Delete(c) ==
  /\ pc[c] = "delete"
  /\ \/ SetsItem(c, Key(c), None) /\ UNCHANGED run
     \/ run' = [run EXCEPT ![c].failed = TRUE] /\ UNCHANGED <<store, past>>
  /\ Goto(c, "restore")
  /\ UNCHANGED <<verdict, others>>

\* Mutant: an item that was there before is left deleted.
NothingToRestore(c) == TRUE

NothingBefore(c) == run[c].previous = None

\* The error of the second call takes the place of that of the first.
Restore(c) ==
  /\ pc[c] = "restore"
  /\ \/ /\ NothingBefore(c)
        /\ Answer(c, IF run[c].failed THEN "incomplete" ELSE "refused")
        /\ UNCHANGED <<store, past>>
     \/ /\ ~NothingBefore(c)
        /\ SetsItem(c, Key(c), run[c].previous)
        /\ Answer(c, "refused")
     \/ /\ ~NothingBefore(c)
        /\ Answer(c, "incomplete")
        /\ UNCHANGED <<store, past>>
  /\ UNCHANGED <<run, others>>

\* productnative.Open: the configuration names the authority, then a credential is
\* looked for.
Open(c) ==
  /\ pc[c] = "open"
  /\ Resolve(store.config, run[c].host) # None
  /\ run' = [run EXCEPT ![c].api = Resolve(store.config, run[c].host)]
  /\ Goto(c, "lookup")
  /\ UNCHANGED <<store, verdict, others, past>>

\* Resolver.Resolve: a token that the environment's variables agree on is taken as it
\* is, at whatever authority the configuration names; unset ones, and none but
\* those, leave it to the keyring's item for that authority.
LookupEnvironment(c) ==
  /\ pc[c] = "lookup" /\ run[c].env # None
  /\ run' = [run EXCEPT ![c].token = run[c].env]
  /\ Answer(c, "opened")
  /\ UNCHANGED <<store, others, past>>

Lookup(c) ==
  /\ pc[c] = "lookup" /\ run[c].env = None
  /\ store.ring[Key(c)] # None
  /\ run' = [run EXCEPT ![c].token = store.ring[Key(c)]]
  /\ Answer(c, "opened")
  /\ UNCHANGED <<store, others, past>>

\* The user edits the configuration or the keyring while a command runs.
Act ==
  /\ \E c \in Invocation : pc[c] \in Steps
  /\ others < MaxActors /\ others' = others + 1
  /\ UNCHANGED <<pc, run, verdict>>

OtherEdits ==
  /\ Act
  /\ \E h \in Host, a \in Api \cup {None} :
       SavesConfig(None, [store.config EXCEPT ![h] = a])

OtherForgets ==
  /\ Act
  /\ \E i \in {j \in Host \X Api : store.ring[j] # None} : SetsItem(None, i, None)

Step(c) ==
  \/ Load(c) \/ Validate(c) \/ Get(c) \/ Set(c) \/ Refuse(c) \/ Save(c) \/ SaveFails(c)
  \/ Delete(c) \/ Restore(c) \/ Open(c) \/ LookupEnvironment(c) \/ Lookup(c)

Next == OtherEdits \/ OtherForgets \/ \E c \in Invocation : Step(c)

Spec == Init /\ [][Next]_vars
-----------------------------------------------------------------------------
\* A credential of the keyring is never offered to an authority it was not validated
\* at: neither by a reader, which takes the authority and the item in two looks, nor
\* after the host has been pointed at another authority or an import was rolled back.
\* Nothing binds a token of the environment: it goes to the authority configured.
TokensStayWithTheirAuthority ==
  \A c \in Invocation :
    verdict[c] = "opened" /\ run[c].env = None => <<run[c].token, run[c].api>> \in Valid

\* What auth import answers is true of both stores, where nobody else changed them.
\* Stored: the host's entry and the item are the new ones.  Refused: the item is the
\* one found (a rollback that could not restore it says incomplete).
ImportVerdictIsTrue ==
  \A c \in Invocation :
    /\ verdict[c] = "stored" =>
         /\ run[c].host \in past[c].entries \/ store.config[run[c].host] = run[c].api
         /\ past[c].item \/ store.ring[Key(c)] = run[c].token
    /\ verdict[c] = "refused" /\ run[c].previous # Unread =>
         past[c].item \/ store.ring[Key(c)] = run[c].previous

\* An import leaves every other host's entry and item as it is, save an entry that
\* changed after it had loaded the configuration.
KeepsTheRest ==
  \A c \in Invocation : pc'[c] # pc[c] /\ pc[c] # "open" =>
    /\ \A h \in Host \ ({run[c].host} \cup past[c].entries) :
         store'.config[h] = store.config[h]
    /\ \A i \in (Host \X Api) \ {Key(c)} : store'.ring[i] = store.ring[i]
ImportKeepsTheRest == [][KeepsTheRest]_vars
=============================================================================
