------------------------------- MODULE MCConfig -------------------------------
(* Finite instances of ConfigWatch: one content for each way in which a    *)
(* field can be given.                                                     *)
EXTENDS ConfigWatch

CONSTANT AnyVar   \* the variable that references name, and literals carry

Lit(x) == [kind |-> "lit", var |-> AnyVar, text |-> x]
Ref == [kind |-> "ref", var |-> AnyVar, text |-> ""]
RefOr(x) == [kind |-> "or", var |-> AnyVar, text |-> x]
Bool(b) == [raw |-> Lit(""), val |-> b]
BoolOf(t) == [raw |-> t, val |-> FALSE]

Plain(n) == [name |-> n, endpoint |-> Lit("true"), username |-> Lit("true"),
             password |-> Lit("true"), passwordFile |-> "",
             insecureSkipVerify |-> Bool(FALSE), maxConcurrency |-> 0]

Off == [enabled |-> FALSE, host |-> "", port |-> Omitted,
        interval |-> Omitted, samplingPercent |-> 0]

Of(arrays) == [port |-> Omitted, interval |-> Omitted, timeout |-> Omitted,
               maxConcurrency |-> 0, metrics |-> Off, tracing |-> Off,
               arrays |-> arrays]

Two == Of(<<Plain("a"), Plain("b")>>)
Twice == Of(<<Plain("a"), Plain("b"), Plain("a")>>)
FromEnv == Of(<<[Plain("a") EXCEPT !.username = Ref,
                                   !.insecureSkipVerify = BoolOf(Ref)]>>)
WithDefault == [Of(<<[Plain("a") EXCEPT !.password = RefOr("true")]>>)
                  EXCEPT !.metrics = [Off EXCEPT !.enabled = TRUE,
                                                 !.host = "true",
                                                 !.port = 4317]]
ByFile == Of(<<[Plain("a") EXCEPT !.password = Lit(""),
                                  !.passwordFile = "p",
                                  !.insecureSkipVerify = BoolOf(Ref)]>>)

MCFiles == {Two, Twice, FromEnv, WithDefault, ByFile}
MCEnvironments == [Var -> {Unset, ""}]
MCDotEnvs == {Missing} \cup [Var -> {"true"}]
=============================================================================
