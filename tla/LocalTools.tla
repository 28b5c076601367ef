----------------------------- MODULE LocalTools -----------------------------
(***************************************************************************)
(* The parts of the program beside its product commands: update             *)
(* (SelfUpdate), setup hooks (SetupHooks), auth import (TokenImport), the   *)
(* native v1 lane's writes (NativeMR), and the two ways a command reaches   *)
(* GitLab, a run of official glab, the human login among them (GlabChild),  *)
(* and the native client's calls (NativeTransfer).  They share no state, so *)
(* a behaviour is one of one of them: the variables hold the state of the   *)
(* part that runs, and the steps, which no two parts share, tell which.     *)
(***************************************************************************)
EXTENDS Integers, Sequences, FiniteSets

CONSTANTS
  Invocation,
  Version, Installed, MaxUpdateActors,               \* update
  Targets, Hooks, Configs, MaxSetupActors,           \* setup hooks
  Host, Api, Token, Valid, PublicHost, PublicApi,    \* auth import
  Configured, MaxImportActors,
  MaxIID, Content, Wanted, MaxMRActors,              \* the native v1 lane
  MaxChunks,                                         \* official glab
  MaxRequests, MaxBytes, MaxStreamBytes, MaxCalls    \* the native client

VARIABLES
  world,    \* the directory, the files, the stores, the provider, the child or the client
  pc, run, verdict, others, past

vars == <<world, pc, run, verdict, others, past>>

\* Somebody runs, under a name that nothing else has, and the bounds let everybody run;
\* versions are triples; the provider accepts tokens at APIs, and "none" and "unread"
\* are neither; targets and contents are of the kinds SetupHooks tells apart.
ASSUME LocalAssumption ==
  /\ Invocation # {} /\ IsFiniteSet(Invocation)
  /\ Invocation \cap {"path", "backup", "first", "other", "link", "none", "nobody"} = {}
  /\ \A m \in {MaxUpdateActors, MaxSetupActors, MaxImportActors} :
       m \in Nat /\ Cardinality(Invocation) <= m
  /\ Installed \in Version /\ Version \subseteq Nat \X Nat \X Nat
  /\ Targets \in Seq({"hooks", "features", "skill"})
  /\ \A h \in Hooks : h = <<h[1], h[2]>> /\ h[1] \in {"none", "off", "on", "odd"}
  /\ Configs \subseteq Seq({"features", "table", "on", "off", "odd", "line", "dotted"})
  /\ Valid \subseteq Token \X Api /\ {"none", "unread"} \cap (Token \cup Api) = {}
  /\ PublicHost \in Host /\ PublicApi \in Api
  /\ Configured \subseteq [Host -> Api \cup {"none"}]
  /\ Wanted \in Content /\ "nothing" \notin Content
  /\ MaxIID \in Nat \ {0} /\ MaxMRActors \in Nat /\ MaxChunks \in Nat
  /\ {MaxRequests, MaxBytes, MaxStreamBytes, MaxCalls} \subseteq Nat

Update == INSTANCE SelfUpdate WITH files <- world, MaxActors <- MaxUpdateActors
Setup == INSTANCE SetupHooks WITH files <- world, MaxActors <- MaxSetupActors
Import == INSTANCE TokenImport WITH store <- world, MaxActors <- MaxImportActors
Lane == INSTANCE NativeMR WITH mr <- world, MaxActors <- MaxMRActors
Child == INSTANCE GlabChild WITH child <- world, printed <- others
Native == INSTANCE NativeTransfer WITH client <- world, calls <- others

Ours(steps) == \A c \in Invocation : pc[c] \in steps
Updating == Ours(Update!Steps \cup {"updated"})
SettingUp == Ours(Setup!Steps \cup {"setup"})
Importing == Ours(Import!Steps \cup {"imported"})
Serving == Ours(Lane!Steps \cup {"served"})
Delegating == Ours(Child!Steps \cup {"answered"})
Transferring == Ours(Native!Steps \cup {"idle"})

Init == Update!Init \/ Setup!Init \/ Import!Init \/ Lane!Init \/ Child!Init \/ Native!Init
Next == Update!Next \/ Setup!Next \/ Import!Next \/ Lane!Next \/ Child!Next \/ Native!Next

Spec == Init /\ [][Next]_vars /\ Child!Fairness
-----------------------------------------------------------------------------
TypeOK ==
  \/ Update!TypeOK \/ Setup!TypeOK \/ Import!TypeOK
  \/ Lane!TypeOK \/ Child!TypeOK \/ Native!TypeOK

\* A complete executable survives an update that fails or is killed (SelfUpdate).
ExecutableSurvives == Updating => Update!ExecutableSurvives

\* A tool changes only what it looked at: the executable it saw, for a newer version;
\* its own setting in a file others configure; its own entry and item of the stores;
\* and it makes no second merge request (SelfUpdate, SetupHooks, TokenImport, NativeMR).
ChangesOnlyWhatItSaw ==
  [][/\ Updating => Update!ReplacesSeen
     /\ SettingUp => Setup!KeepsConfiguration
     /\ Importing => Import!KeepsTheRest
     /\ Serving => Lane!CreatesNoSecond]_vars

\* A credential of the keyring goes only to the authority it was validated at (one of
\* the environment is used as it is), and no credential comes back in what GitLab
\* answers (TokenImport, NativeTransfer).
CredentialsStayHome ==
  /\ Importing => Import!TokensStayWithTheirAuthority
  /\ Transferring => Native!CredentialNeverDelivered

\* The human's terminal shows nothing past the plaintext warning (GlabChild).
ShowsUpToTheWarning == Delegating => Child!ShowsUpToTheWarning

\* A command whose child has ended, or that was cancelled, answers, save one that
\* waits on Windows for the human's terminal (GlabChild).
EveryChildEnds == Child!EveryChildEnds

\* What each part answers is true of what it leaves behind, as far as nobody else has
\* changed that since.
AnswersAreTrue ==
  /\ Updating => Update!UpdateVerdictIsTrue
  /\ SettingUp => Setup!SetupVerdictIsTrue
  /\ Importing => Import!ImportVerdictIsTrue
  /\ Serving => Lane!NativeVerdictIsTrue
  /\ Delegating => Child!ChildVerdictIsTrue
  /\ Transferring => Native!TransferVerdictIsTrue
=============================================================================
