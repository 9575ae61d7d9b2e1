--------------------------- MODULE Configuration ---------------------------
(***************************************************************************)
(* LoadConfig, as main calls it when the process starts: the environment    *)
(* and the defaults are parsed first, and if ENV_FILE names a file it is    *)
(* decoded over the result by viper, which looks each key of the file up in *)
(* the environment again (AutomaticEnv).  Both libraries go through all     *)
(* their keys, in an order of their own, before they return an error.  One  *)
(* process loads its configuration and then serves, so Loading has names of *)
(* its own (LoadInit, LoadNext, LoadSpec) beside those of Exporter.         *)
(***************************************************************************)
EXTENDS Integers

CONSTANTS
  Keys,        \* the keys of Config, without ENV_FILE
  Values,      \* the values a key can be given
  Unset,       \* no value
  WellFormed,  \* WellFormed[key]: what its type can be parsed from, by both libraries
  Default      \* Default[key]: its envDefault

ASSUME ConfigAssumption ==
  /\ Unset \notin Values
  /\ WellFormed \in [Keys -> SUBSET Values]
  /\ Default \in [Keys -> Values]
  /\ \A k \in Keys : Default[k] \in WellFormed[k]

VARIABLES
  env,       \* env[key]: the process's environment
  envFile,   \* ENV_FILE is set
  readable,  \* viper finds the file it names, and can read it
  file,      \* file[key]: what it says
  pc,        \* "parse" | "read" | "decode" | "running" | "exited"
  todo,      \* the keys the current library still has to go through
  cfg,       \* the Config
  bad        \* the current library has met a malformed value

inputs  == <<env, envFile, readable, file>>
loading == <<inputs, pc, todo, cfg, bad>>

Sources == [Keys -> Values \cup {Unset}]

(* Config{} *)
NoConfig == [k \in Keys |-> Unset]

-----------------------------------------------------------------------------
Begin ==
  /\ pc' = "parse" /\ todo' = Keys /\ cfg' = NoConfig /\ bad' = FALSE

(* The process is started again, in another environment. *)
Restart ==
  /\ pc \in {"running", "exited"}
  /\ env' \in Sources /\ file' \in Sources
  /\ envFile' \in BOOLEAN /\ readable' \in BOOLEAN
  /\ Begin

(* A library goes on to the next key, with the value it has found for it.   *)
Set(k, v) ==
  /\ k \in todo /\ todo' = todo \ {k}
  /\ IF v \in WellFormed[k] THEN cfg' = [cfg EXCEPT ![k] = v] /\ UNCHANGED bad
     ELSE bad' = TRUE /\ UNCHANGED cfg
  /\ UNCHANGED <<inputs, pc>>

(* LoadConfig returns an error and no Config, and main exits. *)
Fatal ==
  /\ pc' = "exited" /\ todo' = {} /\ cfg' = NoConfig
  /\ UNCHANGED <<inputs, bad>>

(* env.Parse *)
FromEnv(k) == IF env[k] # Unset THEN env[k] ELSE Default[k]

Parse(k) == pc = "parse" /\ Set(k, FromEnv(k))

ParseReturns ==
  /\ pc = "parse" /\ todo = {}
  /\ IF bad THEN Fatal
     ELSE /\ pc' = IF envFile THEN "read" ELSE "running"
          /\ UNCHANGED <<inputs, todo, cfg, bad>>

ReadInConfig ==
  /\ pc = "read"
  /\ IF readable
     THEN /\ pc' = "decode" /\ todo' = {k \in Keys : file[k] # Unset}
          /\ UNCHANGED <<inputs, cfg, bad>>
     ELSE Fatal

(* Seeded bug: viper is not told to look into the environment. *)
FileOnly(k) == file[k]

(* viper's Get under AutomaticEnv. *)
Get(k) == IF env[k] # Unset THEN env[k] ELSE file[k]

Unmarshal(k) == pc = "decode" /\ Set(k, Get(k))

UnmarshalReturns ==
  /\ pc = "decode" /\ todo = {}
  /\ IF bad THEN Fatal
     ELSE pc' = "running" /\ UNCHANGED <<inputs, todo, cfg, bad>>

LoadInit ==
  /\ env \in Sources /\ file \in Sources
  /\ envFile \in BOOLEAN /\ readable \in BOOLEAN
  /\ pc = "parse" /\ todo = Keys /\ cfg = NoConfig /\ bad = FALSE

LoadNext ==
  \/ Restart \/ ParseReturns \/ ReadInConfig \/ UnmarshalReturns
  \/ \E k \in Keys : Parse(k) \/ Unmarshal(k)

LoadSpec == LoadInit /\ [][LoadNext]_loading
-----------------------------------------------------------------------------
(* What a key should be: the environment's value, else the file's, else the *)
(* default.                                                                 *)
Effective(k) ==
  IF env[k] # Unset THEN env[k]
  ELSE IF envFile /\ file[k] # Unset THEN file[k]
  ELSE Default[k]

(* The collectors run with the value each key should have, although the     *)
(* file is decoded last; and main exits if and only if one of these values  *)
(* is malformed or the file cannot be read, so that a malformed value of    *)
(* the file does no harm under a good one of the environment.               *)
Precedence ==
  /\ pc = "running" => \A k \in Keys : cfg[k] = Effective(k)
  /\ pc = "running" => ~(envFile /\ ~readable)
  /\ pc = "exited" => \/ envFile /\ ~readable
                      \/ \E k \in Keys : Effective(k) \notin WellFormed[k]
  /\ pc = "running" => \A k \in Keys : Effective(k) \in WellFormed[k]
=============================================================================
