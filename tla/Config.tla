------------------------------- MODULE Config -------------------------------
(***************************************************************************)
(* How the program gets its settings (main.cpp and util/config.cpp): from  *)
(* the command line, the environment and a file, each read into a struct   *)
(* that is made with the built-in values, and then chosen from.            *)
(*                                                                         *)
(* A flag is "on" or "off"; any other setting is "" (an empty string, the  *)
(* number 0), "built-in", or named for the source that gave it.  A number  *)
(* in the environment that does not parse is as if not given, and so is    *)
(* what stands in the file behind a member of the wrong type.  Settings    *)
(* that main never copies into its own struct (the MQTT user, password and *)
(* TLS, CORS, the allowed agents, open enrolment) stay built-in and are    *)
(* left out.                                                               *)
(***************************************************************************)
EXTENDS Naturals, SequencesExt

CONSTANTS
    Unset,      \* a source says nothing of a setting
    Given       \* the settings that sources may give

(* In the order in which from_file reads them. *)
FileOrder ==
    <<"server_name", "swarm_id", "secret", "token_ttl", "heartbeat_timeout",
      "mqtt_host", "mqtt_port", "http_host", "http_port", "endpoint",
      "require_auth", "rate_limit", "tls", "tls_cert", "tls_key",
      "repo_path", "branch_prefix">>

Settings == ToSet(FileOrder)

Flags == {"require_auth", "tls"}
Blank == {"swarm_id", "secret", "tls_cert", "tls_key", "repo_path"}
Ports == {"mqtt_port", "http_port"}
Durations == {"token_ttl", "heartbeat_timeout"}

Options == Blank \cup Ports \cup Flags \cup {"mqtt_host", "http_host"}
Environment == Settings \ {"branch_prefix"}

(* ServerConfig as it is made. *)
BuiltIn ==
    [s \in Settings |-> CASE s = "require_auth" -> "on"
                          [] s = "tls" -> "off"
                          [] s \in Blank -> ""
                          [] OTHER -> "built-in"]

VARIABLES
    stage,              \* how far main has come
    cli, env, file,     \* what each source gave
    config              \* the struct main fills

configVars == <<stage, cli, env, file, config>>

Silent == [s \in Settings |-> Unset]

ConfigInit ==
    /\ stage = "arguments"
    /\ cli = Silent /\ env = Silent /\ file = Silent
    /\ config = BuiltIn

-----------------------------------------------------------------------------
(* What a source can say of the settings S; the command line only has the  *)
(* flags --no-auth and --tls.                                              *)
Values(s, source) ==
    CASE s \notin Flags -> {"", BuiltIn[s], source}
      [] s = "require_auth" /\ source = "option" -> {"off"}
      [] s = "tls" /\ source = "option" -> {"on"}
      [] OTHER -> {"on", "off"}

Sayings(S, source) ==
    LET spoken == S \cap Given
        all    == {Unset} \cup UNION {Values(s, source) : s \in spoken}
    IN  {[s \in Settings |-> IF s \in spoken THEN said[s] ELSE Unset] :
           said \in {f \in [spoken -> all] :
                       \A s \in spoken : f[s] \in {Unset} \cup Values(s, source)}}

(* A struct into which a source was read. *)
Into(struct, said) == [s \in Settings |-> IF said[s] = Unset THEN struct[s] ELSE said[s]]

Go(from, to) == stage = from /\ stage' = to

ParseArguments ==
    /\ Go("arguments", "secret file")
    /\ cli' \in Sayings(Options, "option")
    /\ config' = Into(BuiltIn, cli')
    /\ UNCHANGED <<env, file>>

(* --secret-file takes the place of --secret; main gives up if the file is *)
(* empty, missing or not allowed.  --store-secret ends main here too, and  *)
(* so, a little earlier, do --help and a port that is no number, which     *)
(* nobody catches.                                                         *)
ReadSecretFile ==
    /\ \/ Go("secret file", "config file") /\ UNCHANGED <<cli, config>>
       \/ /\ Go("secret file", "config file")
          /\ cli' = [cli EXCEPT !["secret"] = "secret file"]
          /\ config' = [config EXCEPT !["secret"] = "secret file"]
       \/ Go("secret file", "ended") /\ UNCHANGED <<cli, config>>
    /\ UNCHANGED <<env, file>>

(* from_file throws for a path it does not allow.  A file that does not    *)
(* open or parse says nothing, and a member of the wrong type ends what    *)
(* is read of it.                                                          *)
LoadFile ==
    /\ \/ /\ Go("config file", "environment")
          /\ \E said \in Sayings(Settings, "file"), read \in 0..Len(FileOrder) :
                file' = [s \in Settings |->
                           IF s \in {FileOrder[i] : i \in 1..read} THEN said[s] ELSE Unset]
       \/ Go("config file", "ended") /\ UNCHANGED file
    /\ UNCHANGED <<cli, env, config>>

LoadEnvironment ==
    /\ Go("environment", "choice")
    /\ env' \in Sayings(Environment, "variable")
    /\ UNCHANGED <<cli, file, config>>

-----------------------------------------------------------------------------
FirstFull(sources, default) ==
    LET full == SelectSeq(sources, LAMBDA v : v # "")
    IN  IF full = <<>> THEN default ELSE Head(full)

(* pick_str, pick_uint, pick_duration and what main does for the flags and *)
(* the rate: a source counts as having given what is in its struct.        *)
Picked(s) ==
    LET fromEnv  == Into(BuiltIn, env)[s]
        fromFile == Into(BuiltIn, file)[s]
    IN  CASE s = "require_auth" ->
               IF cli[s] # Unset THEN cli[s]
               ELSE IF env[s] # Unset THEN env[s] ELSE fromFile
          [] s = "tls" ->
               IF "on" \in {config[s], fromEnv} THEN "on" ELSE fromFile
          [] s \in Durations ->
               IF fromEnv # "built-in" THEN fromEnv ELSE fromFile
          [] s = "rate_limit" ->
               FirstFull(<<fromEnv, fromFile>>, "built-in")
          [] s \in Ports /\ config[s] # "built-in" -> config[s]
          [] s \in Ports /\ config[s] = "built-in" ->
               FirstFull(<<fromEnv, fromFile>>, "built-in")
          [] s = "branch_prefix" -> FirstFull(<<config[s], fromFile>>, "built-in")
          [] OTHER -> FirstFull(<<config[s], fromEnv, fromFile>>, BuiltIn[s])

Choose ==
    /\ Go("choice", "chosen")
    /\ config' = [s \in Settings |-> Picked(s)]
    /\ UNCHANGED <<cli, env, file>>

(* --keychain takes the place of every other source of the secret.         *)
Keychain ==
    /\ Go("chosen", "keychain")
    /\ config' \in {config, [config EXCEPT !["secret"] = "keychain"]}
    /\ UNCHANGED <<cli, env, file>>

(* Enrolling ends main; a server that asks for tokens makes up a secret if *)
(* it has none, and one with TLS needs a certificate and a key.            *)
Serve ==
    /\ \/ Go("keychain", "ended") /\ UNCHANGED config
       \/ /\ Go("keychain", IF config["tls"] = "on" /\ "" \in {config["tls_cert"], config["tls_key"]}
                              THEN "ended" ELSE "serving")
          /\ config' = IF config["secret"] = "" /\ config["require_auth"] = "on"
                         THEN [config EXCEPT !["secret"] = "generated"] ELSE config
    /\ UNCHANGED <<cli, env, file>>

ConfigNext ==
    \/ ParseArguments
    \/ ReadSecretFile
    \/ LoadFile
    \/ LoadEnvironment
    \/ Choose
    \/ Keychain
    \/ Serve

ConfigSpec == ConfigInit /\ [][ConfigNext]_configVars

-----------------------------------------------------------------------------
(* "Config precedence: CLI args > env vars > config file > defaults.  For   *)
(* each value, pick the first non-empty source." (main.cpp:167)  It is not *)
(* so for a setting with a built-in value: main's own struct holds that    *)
(* value where no option gave another, so the pickers take it for an       *)
(* option's, or, for ports and the rate, the struct of the environment for *)
(* a variable's, and what a later source gives is lost.                    *)
FirstNonEmptySource ==
    stage = "chosen" =>
        \A s \in Settings :
            config[s] = FirstFull(SelectSeq(<<cli[s], env[s], file[s]>>, LAMBDA v : v # Unset),
                                  BuiltIn[s])
=============================================================================
