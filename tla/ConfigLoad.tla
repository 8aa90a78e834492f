------------------------------ MODULE ConfigLoad ------------------------------
(***************************************************************************)
(* From what the configuration file says to the configuration that runs:   *)
(* utils.ResolveSecrets expands environment references and reads password  *)
(* files, array by array, and Config.Validate fills defaults and checks    *)
(* the result.  The first error of either refuses the whole file, so an    *)
(* error is one value, Failed, wherever it comes from.                     *)
(*                                                                         *)
(* A field holds at most one reference.  A text is a non-empty Value or    *)
(* the empty string; durations are numbers of seconds.                     *)
(***************************************************************************)
EXTENDS Integers, Sequences, FiniteSets

CONSTANTS
    Name,         \* array names, without the empty one
    Value,        \* non-empty texts; "true" and "false" parse as booleans
    Var,          \* environment variables
    Path,         \* password files, without the empty path
    Secrets,      \* what password files may hold, white space trimmed
    Unset,        \* the value of a variable that is not in the environment
    Missing,      \* the content of a file that cannot be read
    Omitted,      \* a duration or port that the file does not give
    Malformed,    \* a duration or port that does not parse
    Failed        \* the result of a load that returns an error

Text == Value \cup {""}

ASSUME EmptyAssumption == "" \notin Name \cup Value \cup Path
ASSUME SecretAssumption == Secrets \subseteq Text
ASSUME MarkAssumption ==
    /\ Failed \notin Text \cup {"true", "false"} /\ Failed \notin BOOLEAN
    /\ {Unset, Missing} \cap (Text \cup {Failed}) = {}
    /\ {Omitted, Malformed} \cap Int = {}

Environment == [Var -> Text \cup {Unset}]
Disk == [Path -> Secrets \cup {Missing}]

\* A literal, ${VAR}, or ${VAR:-text}.
Template == [kind : {"lit", "ref", "or"}, var : Var, text : Text]

IsEmpty(t) == t.kind = "lit" /\ t.text = ""
IsReference(t) == t.kind # "lit"

\* EnvBool: a native boolean, or the string to be resolved.
EnvBool == [raw : Template, val : BOOLEAN]

Number == Int \cup {Omitted, Malformed}

RawArray == [name : Name \cup {""}, endpoint : Template, username : Template,
             password : Template, passwordFile : Path \cup {""},
             insecureSkipVerify : EnvBool, maxConcurrency : Int]

OTelConfig == [enabled : BOOLEAN, host : Text, port : Number,
               interval : Number, samplingPercent : Int]

RawConfig == [port : Number, interval : Number, timeout : Number,
              maxConcurrency : Int, metrics : OTelConfig,
              tracing : OTelConfig, arrays : Seq(RawArray)]

-----------------------------------------------------------------------------
(* ResolveSecrets.                                                         *)

ExpandEnv(env, t) ==
    IF ~IsReference(t) THEN t.text
    ELSE IF env[t.var] \in Value THEN env[t.var]
    ELSE IF t.kind = "or" THEN t.text
    ELSE IF env[t.var] = Unset THEN Failed
    ELSE ""

ExpandEnvSecret(env, t) ==
    LET out == ExpandEnv(env, t)
    IN  IF out = "" /\ IsReference(t) THEN Failed ELSE out

\* strconv.ParseBool, after TrimSpace; an empty expansion is false.
ParseBool(s) ==
    IF s = "true" THEN TRUE
    ELSE IF s \in {"false", ""} THEN FALSE
    ELSE Failed

Resolve(env, b) ==
    IF IsEmpty(b.raw) THEN b.val ELSE ParseBool(ExpandEnv(env, b.raw))

FromFile(a) == IsEmpty(a.password) /\ a.passwordFile # ""

Password(env, disk, a) ==
    IF ~FromFile(a) THEN ExpandEnvSecret(env, a.password)
    ELSE IF disk[a.passwordFile] = Missing THEN Failed
    ELSE disk[a.passwordFile]

\* Fault: the boolean is left as it was decoded for every array.
SkipVerifyAsDecoded(env, a) == a.insecureSkipVerify.val

\* The `continue' after a password file leaves the boolean as it was decoded.
SkipVerify(env, a) ==
    IF FromFile(a) THEN a.insecureSkipVerify.val
    ELSE Resolve(env, a.insecureSkipVerify)

ResolveArray(env, disk, a) ==
    [name |-> a.name,
     endpoint |-> ExpandEnvSecret(env, a.endpoint),
     username |-> ExpandEnvSecret(env, a.username),
     password |-> Password(env, disk, a),
     insecureSkipVerify |-> SkipVerify(env, a),
     maxConcurrency |-> a.maxConcurrency]

\* No error was returned for any field of the array.
Resolved(a) ==
    /\ a.endpoint # Failed
    /\ a.username # Failed
    /\ a.password # Failed
    /\ a.insecureSkipVerify # Failed

ResolveSecrets(env, disk, raw) ==
    [i \in DOMAIN raw.arrays |-> ResolveArray(env, disk, raw.arrays[i])]

-----------------------------------------------------------------------------
(* Validate.                                                               *)

Default(n, d) == IF n = Omitted THEN d ELSE n

SetDefaults(raw, arrays) ==
    LET interval == Default(raw.interval, 30)
    IN  [port |-> Default(raw.port, 9446),
         interval |-> interval,
         timeout |-> Default(raw.timeout, 20),
         maxConcurrency |-> raw.maxConcurrency,
         metrics |-> [raw.metrics EXCEPT !.interval = Default(@, interval)],
         tracing |-> raw.tracing,
         arrays |-> arrays]

ValidPort(p) == p \in 1..65535

\* time.ParseDuration succeeds, whatever the duration.
ParsesAsDuration(d) == d \notin {Omitted, Malformed}

ValidCollection(c) ==
    /\ ParsesAsDuration(c.interval)
    /\ ParsesAsDuration(c.timeout)
    /\ c.maxConcurrency >= 0

\* Fault: an array name is compared with the one before it only.
ValidArraysAdjacent(arrays) ==
    /\ arrays # <<>>
    /\ \A i \in DOMAIN arrays :
         /\ arrays[i].name # ""
         /\ i + 1 \in DOMAIN arrays => arrays[i].name # arrays[i + 1].name
         /\ arrays[i].endpoint # "" /\ arrays[i].username # ""
         /\ arrays[i].password # ""
         /\ arrays[i].maxConcurrency >= 0

ValidArrays(arrays) ==
    /\ arrays # <<>>
    /\ \A i, j \in DOMAIN arrays :
         arrays[i].name = arrays[j].name => i = j
    /\ \A i \in DOMAIN arrays :
         /\ arrays[i].name # ""
         /\ arrays[i].endpoint # "" /\ arrays[i].username # ""
         /\ arrays[i].password # ""
         /\ arrays[i].maxConcurrency >= 0

\* splitHostPort and validatePort; the rest depends on which exporter it is.
ValidOTel(o) == o.enabled => o.host # "" /\ ValidPort(o.port)

Valid(c) ==
    /\ ValidPort(c.port)
    /\ ValidCollection(c)
    /\ ValidArrays(c.arrays)
    /\ ValidOTel(c.metrics)
    /\ c.metrics.enabled => ParsesAsDuration(c.metrics.interval)
    /\ ValidOTel(c.tracing)
    /\ c.tracing.enabled => c.tracing.samplingPercent \in 0..100

-----------------------------------------------------------------------------
\* Open, decode, resolve, validate: a configuration or an error.  A file that
\* cannot be opened or decoded is Missing.
Load(env, disk, file) ==
    IF file = Missing THEN Failed
    ELSE LET arrays == ResolveSecrets(env, disk, file)
             c      == SetDefaults(file, arrays)
         IN  IF (\A i \in DOMAIN arrays : Resolved(arrays[i])) /\ Valid(c)
             THEN c ELSE Failed

-----------------------------------------------------------------------------
\* What clients, snapshots and the comparison of reloads take for granted of
\* the arrays: told apart by their names, each with something to connect to and
\* to log in with.
UsableArrays(arrays) ==
    /\ arrays # <<>>
    /\ \A i \in DOMAIN arrays :
         /\ {arrays[i].endpoint, arrays[i].username, arrays[i].password}
              \cap {"", Failed} = {}
         /\ arrays[i].name # ""
         /\ \A j \in DOMAIN arrays : arrays[i].name = arrays[j].name => i = j

\* Array r was made from array a with the fields of the file replaced by what
\* they refer to, and no reference stands for nothing.
Expands(env, t, text) ==
    /\ text = ExpandEnv(env, t)
    /\ IsReference(t) => text \in Value

ExpandsSkip(env, b, skip) ==
    IsReference(b.raw) => /\ ExpandEnv(env, b.raw) # Failed
                          /\ skip = ParseBool(ExpandEnv(env, b.raw))
=============================================================================
