--------------------------- MODULE ServiceStartup ---------------------------
(***************************************************************************)
(* Starting, serving and stopping the API service                          *)
(* (services/electricaltwin-api/app: main.py, config.py).                  *)
(*                                                                         *)
(* The lifespan loads the configuration from the environment, asserts the  *)
(* start-up invariants and puts the configuration into app.state; then the *)
(* service serves.  One process may run the lifespan several times, as a   *)
(* test client does, or answer requests without ever running it; the       *)
(* environment may change at any time.  Of the endpoints only /health      *)
(* reads the configuration, the others serve constants.                    *)
(***************************************************************************)
CONSTANTS
  Profile,    \* DeploymentProfile
  BadProfile, \* anything else S3M_DEPLOYMENT_PROFILE may hold
  NoConfig,
  NoAnswer

ASSUME StartupAssumption == BadProfile \notin Profile

Config == [profile : Profile, outbound : BOOLEAN]

ASSUME NoConfigAssumption == NoConfig \notin Config

\* What the two variables hold once stripped, lower-cased and, if absent,
\* defaulted; outbound is whether the second reads as true.
Environment == [profile : Profile \cup {BadProfile}, outbound : BOOLEAN]

VARIABLES
  env,      \* os.environ
  phase,    \* of the lifespan: "down", "loaded", "asserted" or "serving"
  config,   \* the lifespan's local variable
  state,    \* app.state.config
  answer    \* the last answer of /health: the configuration it was given from

serviceVars == <<env, phase, config, state, answer>>

Phase == {"down", "loaded", "asserted", "serving"}

ServiceInit ==
  /\ env \in Environment
  /\ phase = "down"
  /\ config = NoConfig /\ state = NoConfig /\ answer = NoAnswer

\* The configuration load_config returns; it raises ValueError on a BadProfile.
Loadable == env.profile \in Profile

SetEnvironment ==
  /\ env' \in Environment \ {env}
  /\ UNCHANGED <<phase, config, state, answer>>

LoadConfig ==
  /\ phase = "down"
  /\ Loadable
  /\ phase' = "loaded" /\ config' = env
  /\ UNCHANGED <<env, state, answer>>

PassesUnlessDiode(c) == c.outbound => c.profile # "one_way_diode"

\* assert_startup_invariants does not raise; CONTROL_WRITE_ENABLED is False.
Passes(c) == ~c.outbound

\* RuntimeError ends the lifespan before it has served anything.
AssertInvariants ==
  /\ phase = "loaded"
  /\ phase' = IF Passes(config) THEN "asserted" ELSE "down"
  /\ UNCHANGED <<env, config, state, answer>>

Serve ==
  /\ phase = "asserted"
  /\ phase' = "serving" /\ state' = config
  /\ UNCHANGED <<env, config, answer>>

\* The lifespan ends; app.state is left as it is.
Shutdown ==
  /\ phase = "serving"
  /\ phase' = "down"
  /\ UNCHANGED <<env, config, state, answer>>

\* The process ends, or is killed, and another begins.
Restart ==
  /\ phase' = "down"
  /\ config' = NoConfig /\ state' = NoConfig /\ answer' = NoAnswer
  /\ UNCHANGED env

CurrentConfigReloaded == env

\* _config: what is in app.state, or else what the environment says now.
CurrentConfig == IF state # NoConfig THEN state ELSE env

\* A request without the lifespan is answered too; a ValueError fails it alone.
Health ==
  /\ phase \in {"down", "serving"}
  /\ CurrentConfig.profile \in Profile
  /\ answer' = CurrentConfig
  /\ UNCHANGED <<env, phase, config, state>>

ServiceNext ==
  \/ SetEnvironment
  \/ LoadConfig \/ AssertInvariants \/ Serve
  \/ Shutdown \/ Restart
  \/ Health

ServiceSpec == ServiceInit /\ [][ServiceNext]_serviceVars

-----------------------------------------------------------------------------
(* Properties.                                                              *)

\* No configuration that would let the platform connect toward the OT side ever
\* gets into app.state or past the assertion, under any profile, whatever starts
\* failed before and however the environment changed meanwhile (config.py:79-97).
OnlyAssertedConfigsServe ==
  /\ state # NoConfig => ~state.outbound
  /\ phase \in {"asserted", "serving"} => ~config.outbound

\* While the service serves, every answer is given from the configuration that
\* was asserted when it started, though the environment says otherwise by now;
\* and once a process has started successfully no later answer of it, before,
\* between or after its lifespans, is given from a configuration that would not
\* pass the assertion.  Only a process none of whose starts has succeeded, as an
\* application used without its lifespan, answers from one (main.py:131-135).
AnswersAreOfTheStart ==
  [][answer' \notin {answer, NoAnswer} =>
       /\ phase = "serving" => answer' = config
       /\ state # NoConfig => Passes(answer')]_serviceVars

=============================================================================
