----------------------------- MODULE NfdDaemon -----------------------------
(***************************************************************************)
(* The NFD process: the main and the RIB thread of NfdRunner               *)
(* (daemon/main.cpp), the configuration file it reads at start and on      *)
(* SIGHUP (daemon/nfd.cpp, core/config-file.cpp), and the authorization of *)
(* management commands that the file controls                              *)
(* (daemon/mgmt/command-authenticator.cpp).                                *)
(*                                                                         *)
(* A file is a sequence of sections.  A section "authorizations" has       *)
(* grants, each a certificate and the modules it may command; any other    *)
(* section is abstracted to its error: "check" is found by a dry run,      *)
(* "apply" only when the section is applied (a strategy parameter error,   *)
(* an interface that cannot be bound).  What holds the mutex is one step.  *)
(***************************************************************************)
EXTENDS Naturals, Sequences, FiniteSets, Functions, Folds, SequencesExt

CONSTANTS NdModules,     \* the modules that declared commands
          NdSigners,     \* the certificates that sign commands
          NdFiles,       \* the configuration files there may be
          NdMaxEdits     \* bound on edits of the file (model checking)

AnyCert == "any"             \* certfile any
NoCommand == [module |-> "none", signer |-> "none", grants |-> << >>]

VARIABLES ndMain, ndRib,     \* where the threads are
          ndRibIo,           \* ribIo # nullptr
          ndMainStop, ndRibStop,   \* the stop flags of the io_services
          ndRetval,
          ndFile,            \* the file as it is on disk
          ndAuth,            \* m_validators: what each module accepts
          ndEdits,
          ndApplied,         \* the grants of the last file applied in full that has some (history)
          ndAccepted,        \* the last command accepted, and ndApplied then (history)
          ndFailed           \* whether a thread has failed (history)

ndThreads == <<ndMain, ndRib, ndRibIo, ndMainStop, ndRibStop>>
ndHistory == <<ndApplied, ndAccepted, ndFailed>>
ndVars == <<ndThreads, ndRetval, ndFile, ndAuth, ndEdits, ndHistory>>

NdInit ==
  /\ ndMain = "init" /\ ndRib = "none" /\ ndRibIo = FALSE
  /\ ndMainStop = FALSE /\ ndRibStop = FALSE /\ ndRetval = 0
  /\ ndFile \in NdFiles /\ ndAuth = [m \in NdModules |-> {}] /\ ndEdits = 0
  /\ ndApplied = << >> /\ ndAccepted = NoCommand /\ ndFailed = FALSE

-----------------------------------------------------------------------------
\* CommandAuthenticator::processConfig, privilege by privilege.
Privileges(grants) ==
  FoldLeft(LAMBDA ps, g : ps \o [i \in DOMAIN g.modules |-> [signer |-> g.signer, module |-> g.modules[i]]],
           << >>, grants)

Cleared == [m \in NdModules |-> {}]

\* An accept-all validator stays one: loadAnchor does not change its policy.
Granted(x, p, isDryRun) ==
  IF ~ x.ok THEN x
  ELSE IF p.module \notin NdModules THEN [x EXCEPT !.ok = FALSE]
  ELSE IF isDryRun THEN x
  ELSE [x EXCEPT !.auth[p.module] = IF p.signer = AnyCert THEN {AnyCert} ELSE @ \cup {p.signer}]

Authorizations(auth, grants, isDryRun) ==
  LET start == IF isDryRun THEN auth ELSE Cleared
  IN  IF grants = << >> THEN [auth |-> start, ok |-> FALSE]
      ELSE FoldLeft(LAMBDA x, p : Granted(x, p, isDryRun), [auth |-> start, ok |-> TRUE],
                    Privileges(grants))

\* ConfigFile::process: section by section until one throws.
Processed(x, s, isDryRun) ==
  IF ~ x.ok THEN x
  ELSE IF s.kind = "authorizations" THEN Authorizations(x.auth, s.grants, isDryRun)
  ELSE [x EXCEPT !.ok = s.error = "none" \/ (s.error = "apply" /\ isDryRun)]

GrantsOf(file, old) ==
  FoldLeft(LAMBDA g, s : IF s.kind = "authorizations" THEN s.grants ELSE g, old, file)

process(auth, file, isDryRun) ==
  FoldLeft(LAMBDA x, s : Processed(x, s, isDryRun), [auth |-> auth, ok |-> TRUE], file)

\* The validator of the module decides; without privileges it rejects.
IsAuthorized(auth, m, s) == s \in auth[m] \/ AnyCert \in auth[m]

-----------------------------------------------------------------------------
\* Nfd::initialize: a dry run, then the real one.  An error ends the
\* process; otherwise run() starts the RIB thread.
Initialize ==
  /\ ndMain = "init"
  /\ LET dry  == process(ndAuth, ndFile, TRUE)
         real == process(ndAuth, ndFile, FALSE)
     IN  \/ /\ dry.ok /\ real.ok
            /\ ndAuth' = real.auth /\ ndApplied' = GrantsOf(ndFile, ndApplied)
            /\ ndMain' = "check" /\ ndRib' = "start"
            /\ UNCHANGED <<ndRetval, ndFailed>>
         \/ /\ ~ (dry.ok /\ real.ok)
            /\ ndMain' = "done" /\ ndRib' = "done" /\ ndRetval' = 1 /\ ndFailed' = TRUE
            /\ UNCHANGED <<ndAuth, ndApplied>>
  /\ UNCHANGED <<ndRibIo, ndMainStop, ndRibStop, ndFile, ndEdits, ndAccepted>>

RibStarts ==
  /\ ndRib = "start" /\ ndRib' = "notify" /\ ndRibIo' = TRUE
  /\ UNCHANGED <<ndMain, ndMainStop, ndRibStop, ndRetval, ndFile, ndAuth, ndEdits, ndHistory>>

RibNotifies ==
  /\ ndRib = "notify" /\ ndRib' = "construct"
  /\ ndMain' = IF ndMain = "asleep" THEN "check" ELSE ndMain
  /\ UNCHANGED <<ndRibIo, ndMainStop, ndRibStop, ndRetval, ndFile, ndAuth, ndEdits, ndHistory>>

RibConstructs_Resets ==
  /\ ndRib = "construct"
  /\ \/ ndRib' = "run" /\ ndRibStop' = FALSE /\ UNCHANGED ndFailed
     \/ ndRib' = "failed" /\ ndFailed' = TRUE /\ UNCHANGED ndRibStop
  /\ UNCHANGED <<ndMain, ndRibIo, ndMainStop, ndRetval, ndFile, ndAuth, ndEdits, ndApplied, ndAccepted>>

\* The constructor of rib::Service may throw.
RibConstructs ==
  /\ ndRib = "construct"
  /\ \/ ndRib' = "run" /\ UNCHANGED ndFailed
     \/ ndRib' = "failed" /\ ndFailed' = TRUE
  /\ UNCHANGED <<ndMain, ndRibIo, ndMainStop, ndRibStop, ndRetval, ndFile, ndAuth, ndEdits,
                 ndApplied, ndAccepted>>

RibThrows ==
  /\ ndRib = "run" /\ ndRib' = "failed" /\ ndFailed' = TRUE
  /\ UNCHANGED <<ndMain, ndRibIo, ndMainStop, ndRibStop, ndRetval, ndFile, ndAuth, ndEdits,
                 ndApplied, ndAccepted>>

RibStops ==
  /\ ndRib = "run" /\ ndRibStop /\ ndRib' = "leave"
  /\ UNCHANGED <<ndMain, ndRibIo, ndMainStop, ndRibStop, ndRetval, ndFile, ndAuth, ndEdits, ndHistory>>

RibFails ==
  /\ ndRib = "failed" /\ ndRib' = "leave"
  /\ ndRetval' = 1 /\ ndMainStop' = TRUE
  /\ UNCHANGED <<ndMain, ndRibIo, ndRibStop, ndFile, ndAuth, ndEdits, ndHistory>>

RibLeaves ==
  /\ ndRib = "leave" /\ ndRib' = "done" /\ ndRibIo' = FALSE
  /\ UNCHANGED <<ndMain, ndMainStop, ndRibStop, ndRetval, ndFile, ndAuth, ndEdits, ndHistory>>

-----------------------------------------------------------------------------
\* cv.wait evaluates its predicate with the mutex held.
MainChecks ==
  /\ ndMain = "check" /\ ndMain' = IF ndRibIo THEN "run" ELSE "asleep"
  /\ UNCHANGED <<ndRib, ndRibIo, ndMainStop, ndRibStop, ndRetval, ndFile, ndAuth, ndEdits, ndHistory>>

SpuriousWakeup ==
  /\ ndMain = "asleep" /\ ndMain' = "check"
  /\ UNCHANGED <<ndRib, ndRibIo, ndMainStop, ndRibStop, ndRetval, ndFile, ndAuth, ndEdits, ndHistory>>

IsServing == ndMain = "run" /\ ~ ndMainStop

\* A handler throws std::exception or PrivilegeHelper::Error out of run().
MainThrows(code) ==
  /\ IsServing /\ ndMain' = "stop" /\ ndRetval' = code /\ ndFailed' = TRUE
  /\ UNCHANGED <<ndRib, ndRibIo, ndMainStop, ndRibStop, ndFile, ndAuth, ndEdits, ndApplied, ndAccepted>>

terminate ==
  /\ IsServing /\ ndMainStop' = TRUE
  /\ UNCHANGED <<ndMain, ndRib, ndRibIo, ndRibStop, ndRetval, ndFile, ndAuth, ndEdits, ndHistory>>

EditFile(file) ==
  /\ ndMain # "done" /\ ndEdits < NdMaxEdits /\ ndEdits' = ndEdits + 1 /\ ndFile' = file
  /\ UNCHANGED <<ndThreads, ndRetval, ndAuth, ndHistory>>

reload_Continues ==
  /\ IsServing
  /\ LET real == process(ndAuth, ndFile, FALSE)
     IN  /\ ndAuth' = real.auth
         /\ ndApplied' = IF real.ok THEN GrantsOf(ndFile, ndApplied) ELSE ndApplied
  /\ UNCHANGED <<ndThreads, ndRetval, ndFile, ndEdits, ndAccepted, ndFailed>>

\* SIGHUP: the file is applied without a dry run; an error is thrown out
\* of the event loop.  Privileges survive a file without the section.
reload ==
  /\ IsServing
  /\ LET real == process(ndAuth, ndFile, FALSE)
     IN  /\ ndAuth' = real.auth
         /\ \/ /\ real.ok /\ ndApplied' = GrantsOf(ndFile, ndApplied)
               /\ UNCHANGED <<ndMain, ndRetval, ndFailed>>
            \/ /\ ~ real.ok /\ ndMain' = "stop" /\ ndRetval' = 1 /\ ndFailed' = TRUE
               /\ UNCHANGED ndApplied
  /\ UNCHANGED <<ndRib, ndRibIo, ndMainStop, ndRibStop, ndFile, ndEdits, ndAccepted>>

\* A network change applies the face_system sections only, those of a file
\* that was edited since included.  What they do is in FaceSystem.
reloadConfigFileFaceSection ==
  /\ IsServing
  /\ ~ process(ndAuth, SelectSeq(ndFile, LAMBDA s : s.kind = "face_system"), FALSE).ok
  /\ ndMain' = "stop" /\ ndRetval' = 1 /\ ndFailed' = TRUE
  /\ UNCHANGED <<ndRib, ndRibIo, ndMainStop, ndRibStop, ndFile, ndAuth, ndEdits, ndApplied, ndAccepted>>

Command(m, s) ==
  /\ IsServing /\ IsAuthorized(ndAuth, m, s)
  /\ ndAccepted' = [module |-> m, signer |-> s, grants |-> ndApplied]
  /\ UNCHANGED <<ndThreads, ndRetval, ndFile, ndAuth, ndEdits, ndApplied, ndFailed>>

MainStops ==
  /\ ndMain = "run" /\ ndMainStop /\ ndMain' = "stop"
  /\ UNCHANGED <<ndRib, ndRibIo, ndMainStop, ndRibStop, ndRetval, ndFile, ndAuth, ndEdits, ndHistory>>

StopRib ==
  /\ ndMain = "stop" /\ ndMain' = "join"
  /\ ndRibStop' = (ndRibStop \/ ndRibIo) /\ ndRibIo' = FALSE
  /\ UNCHANGED <<ndRib, ndMainStop, ndRetval, ndFile, ndAuth, ndEdits, ndHistory>>

JoinRib ==
  /\ ndMain = "join" /\ ndRib = "done" /\ ndMain' = "done"
  /\ UNCHANGED <<ndRib, ndRibIo, ndMainStop, ndRibStop, ndRetval, ndFile, ndAuth, ndEdits, ndHistory>>

-----------------------------------------------------------------------------
\* What the threads do by themselves.
NdThreadStep ==
  \/ Initialize \/ MainChecks \/ MainStops \/ StopRib \/ JoinRib
  \/ RibStarts \/ RibNotifies \/ RibConstructs \/ RibStops \/ RibFails \/ RibLeaves

NdNext ==
  \/ NdThreadStep \/ RibThrows \/ SpuriousWakeup \/ terminate
  \/ \E code \in {1, 4} : MainThrows(code)
  \/ \E file \in NdFiles : EditFile(file)
  \/ reload \/ reloadConfigFileFaceSection
  \/ \E m \in NdModules, s \in NdSigners : Command(m, s)

\* Both threads are scheduled: whoever can move by itself does.
NdDue ==
  \/ ndMain \in {"init", "check", "stop"} \/ (ndMain = "run" /\ ndMainStop)
  \/ ndMain = "join" /\ ndRib = "done"
  \/ ndRib \in {"start", "notify", "construct", "failed", "leave"} \/ (ndRib = "run" /\ ndRibStop)

-----------------------------------------------------------------------------

\* the exit status tells a failure of either thread from a termination that
\* was asked for
ExitStatusTruthful == ndMain = "done" => (ndRetval # 0 <=> ndFailed)

\* A reload has no dry run and may fail halfway, with the old privileges
\* cleared and some of the new ones granted (reloadConfigFile); the process
\* then ends without serving another command.  Every command that was
\* accepted is one that the last file applied in full allows, whatever
\* files were tried before and after.
AcceptedByFullConfig ==
  ndAccepted # NoCommand =>
    \E i \in DOMAIN ndAccepted.grants :
      /\ ndAccepted.grants[i].signer \in {ndAccepted.signer, AnyCert}
      /\ ndAccepted.module \in Range(ndAccepted.grants[i].modules)

\* Both threads end together and the status says why.  Once the main thread
\* leaves its event loop the process ends: the RIB thread is stopped wherever
\* it is, even before it has started to run (StopRib, JoinRib).  "when RIB
\* manager fails, NFD will be terminated" (main.cpp), when the main thread has
\* passed its wait for the RIB thread.  "a non-zero value is assigned when
\* either NFD or RIB manager (running in a separate thread) fails", and only then.
ThreadsEndTogether ==
  /\ []ExitStatusTruthful
  /\ (ndMain = "stop") ~> (ndMain = "done")
  /\ (ndRib = "failed" /\ ndMain \in {"run", "stop", "join"}) ~> (ndMain = "done")
=============================================================================
