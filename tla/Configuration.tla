--------------------------- MODULE Configuration ---------------------------
(***************************************************************************)
(* What the environment variables become (flask_server/config.py): a value *)
(* that is not set, is no number or is out of range turns into a default,  *)
(* so that the other modules may assume what they assume about their       *)
(* constants.  The overrides of create_app(framework_config=...) are taken *)
(* as they are.                                                            *)
(*                                                                         *)
(* Text is abstracted to what parsing tells apart: a number, a flag, a     *)
(* known word, bytes, or "bad".  The warnings are left out, and so are the *)
(* settings that are taken over as text.                                   *)
(***************************************************************************)
EXTENDS Integers, Sequences

CONSTANT Byte

\* A variable that is not set, one that cannot be parsed, or its value.
Unset == [is |-> "unset"]
Bad == [is |-> "bad"]
Says(v) == [is |-> "value", value |-> v]
Numeric == {Unset, Bad} \cup {Says(n) : n \in Int}
Word(words) == {Unset, Bad} \cup {Says(w) : w \in words}

\* _parse_int, and _parse_bytes_env, which takes an empty text for an unset one.
Parsed(raw, default) == IF raw.is = "value" THEN raw.value ELSE default
Delimiter(raw, default) == IF raw.is = "value" /\ raw.value # <<>> THEN raw.value ELSE default

\* A flag is on when it says so, and the flag of a text that is no flag is off.
Flag(raw, default) ==
    CASE raw.is = "unset" -> default [] raw.is = "bad" -> FALSE [] OTHER -> raw.value

-----------------------------------------------------------------------------
(* Numbers with a lower limit: below it the default is used. *)

Atleast(least, default) == [least |-> least, default |-> default]
Clamped(limit, raw) ==
    LET n == Parsed(raw, limit.default) IN IF n < limit.least THEN limit.default ELSE n

\* _parse_worker_num.
WorkerNum(raw) == Clamped(Atleast(1, 1), raw)

MessageLimits == [tcp_max_message_length |-> Atleast(1, 65536),
                  udp_max_message_length |-> Atleast(1, 65536)]
WebLimits == [hsts_max_age |-> Atleast(0, 31536000)]
RateLimits == [rate_limit_per_minute |-> Atleast(1, 60)]
AuthLimits == [auth_token_ttl |-> Atleast(1, 604800),
               auth_refresh_token_ttl |-> Atleast(1, 2592000),
               auth_login_max_fails |-> Atleast(1, 5),
               auth_login_lock_seconds |-> Atleast(1, 300),
               auth_pbkdf2_iterations |-> Atleast(10000, 600000)]
TaskLimits == [task_worker_concurrency |-> Atleast(1, 4),
               task_max_retries |-> Atleast(0, 3),
               task_retry_backoff |-> Atleast(1, 5),
               task_visibility_timeout |-> Atleast(1, 300),
               task_status_ttl |-> Atleast(1, 86400),
               task_dead_letter_max |-> Atleast(1, 1000),
               task_status_max |-> Atleast(1, 10000),
               task_reserve_timeout |-> Atleast(1, 2)]

Limits == {MessageLimits, WebLimits, RateLimits, AuthLimits, TaskLimits}

\* The settings of one table; env has a raw value for each name of it.
Settled(limits, env) == [name \in DOMAIN limits |-> Clamped(limits[name], env[name])]

-----------------------------------------------------------------------------
(* The delimiting of TCP messages. *)

Modes == {"line", "fixed", "head_tail", "raw"}
FramingEnv == [mode : Word(Modes), length : Numeric,
               separator : Word(Seq(Byte)), head : Word(Seq(Byte)), tail : Word(Seq(Byte))]

FrameLength(env) == Parsed(env.length, 1024)
FrameHead(env) == Delimiter(env.head, <<>>)
FrameTail(env) == Delimiter(env.tail, <<>>)

\* A mode that is unknown, or that lacks what it needs, is "line".
Usable(mode, env) ==
    /\ mode \in Modes
    /\ mode = "fixed" => FrameLength(env) > 0
    /\ mode = "head_tail" => FrameHead(env) # <<>> /\ FrameTail(env) # <<>>
Mode(env) ==
    LET mode == Parsed(env.mode, "line") IN IF Usable(mode, env) THEN mode ELSE "line"

FramingOf(env, newline) ==
    CASE Mode(env) = "line"  -> [mode |-> "line", sep |-> Delimiter(env.separator, newline)]
      [] Mode(env) = "fixed" -> [mode |-> "fixed", length |-> FrameLength(env)]
      [] Mode(env) = "head_tail" ->
           [mode |-> "head_tail", head |-> FrameHead(env), tail |-> FrameTail(env)]
      [] OTHER -> [mode |-> "raw"]

-----------------------------------------------------------------------------
(* The rest. *)

\* SNOWFLAKE_WORKER_ID and SNOWFLAKE_DATACENTER_ID: a machine number or the fallback.
MachineId(raw, fallback) ==
    IF raw.is = "value" /\ raw.value \in 0..31 THEN raw.value ELSE fallback
WorkerIdUnset == -1
WorkerId(raw) == MachineId(raw, WorkerIdUnset)
DatacenterId(raw) == MachineId(raw, 1)

\* APP_ENV: an unknown one is development.
Presets == [development |-> [debug |-> TRUE, console |-> TRUE],
            staging |-> [debug |-> FALSE, console |-> FALSE],
            production |-> [debug |-> FALSE, console |-> FALSE]]
Preset(raw) ==
    IF raw.is = "value" /\ raw.value \in DOMAIN Presets
    THEN Presets[raw.value] ELSE Presets.development
Debug(raw, env) == Flag(raw, Preset(env).debug)
LogToConsole(raw, env) == Flag(raw, Preset(env).console)

\* An empty list of origins would switch CORS off, and means all.
AllOrigins == "*"
Origins(raw) ==
    IF raw.is = "value" /\ raw.value # {} THEN raw.value ELSE AllOrigins

\* Config(overrides): set as given, whatever the limits.
Overridden(settings, overrides) ==
    [name \in DOMAIN settings \cup DOMAIN overrides |->
        IF name \in DOMAIN overrides THEN overrides[name] ELSE settings[name]]

\* _resolve_config, behind every config.xxx: the configuration of the application whose
\* context the thread is in; threads of the process itself have the default one.
Resolve(context, injected, default) ==
    IF context \in DOMAIN injected THEN injected[context] ELSE default
=============================================================================
