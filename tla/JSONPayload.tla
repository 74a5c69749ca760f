----------------------------- MODULE JSONPayload -----------------------------
(***************************************************************************)
(* The JSON templates of data publishers: how one is compiled, when it is  *)
(* accepted, and what is rendered from it for a snapshot of the sources.   *)
(*                                                                         *)
(* publisher/json_payload.go.                                              *)
(*                                                                         *)
(* A text is a sequence of tokens: the punctuation of JSON, "q" for a      *)
(* quote, "w" for one of null, true and false, "t" for any other text, and *)
(* the parts of a number: "-", "0", "9" for digits that begin with another *)
(* one, "." and "e" for an exponent with its digits. A template is a       *)
(* sequence of texts and calls of helpers; a value is known by its class.  *)
(***************************************************************************)
EXTENDS Integers, Sequences, SequencesExt

CONSTANTS
    Aliases,      \* the sources selected
    DataType,     \* of each when it is compiled: "bool", "int", "float" or "string"
    Windowed,     \* those that cover a period: outputs of plugins, the others are tags
    TagTypes,     \* the types that a tag may be given
    Texts, Calls, \* the texts and the calls (see Call) that templates are made of
    MaxLength,    \* calls and texts of a template
    MaxDepth,     \* MaxJSONPayloadDepth
    MaxActions,   \* MaxJSONPayloadActions
    MaxTokens,    \* stands for MaxJSONPayloadBytes
    NULL

VARIABLES
    template,  \* a sequence of [text] and [helper, alias, arg]
    stage,     \* "draft", "accepted" or "refused"
    current,   \* the data type of each source now
    snapshot,  \* of the last rendering: a sample per alias, or NULL
    rendered   \* its outcome: a text, "failed" or NULL

payloadVars == <<template, stage, current, snapshot, rendered>>

Text(s) == [helper |-> "", alias |-> NULL, arg |-> NULL, text |-> s]
Call(h, a, x) == [helper |-> h, alias |-> a, arg |-> x, text |-> <<>>]

SourceHelpers == {"value", "available", "quality", "error", "unit", "sequence", "schema_version",
                  "data_type", "observed_at", "emitted_at", "period_start", "period_end", "coverage",
                  "round", "scale", "default", "format_time"}
ContextHelpers == {"published_at", "published_unix_ms", "publisher_id"}

Numeric == {"neg", "zero", "pos", "frac", "huge"}
(* "huge" is a float that a multiplication may take past the largest one, "long" a string of     *)
(* seven pieces.                                                                                 *)
ValuesOf(type) ==
    CASE type = "bool" -> {"bool"}
      [] type = "int" -> {"neg", "zero", "pos"}
      [] type = "float" -> {"neg", "zero", "frac", "huge"}
      [] type = "string" -> {"str", "long"}

(* What SourceFeed hands out: an absent value has no sequence and no times; a tag that was read  *)
(* has a period of no length. Every sample is described as its source is now (of the batch: as   *)
(* it was, by a program of before too), and a value that does not fit this is left out.          *)
Unavailable(a, type) ==
    [source |-> a, type |-> type, schema |-> "same", available |-> FALSE, value |-> NULL,
     sequence |-> "zero", times |-> FALSE, period |-> FALSE, coverage |-> FALSE]
Read(a, type, schemas, values) ==
    [source : {a}, type : {type}, schema : schemas, available : {TRUE}, value : values,
     sequence : {"zero", "pos"}, times : {TRUE}, period : {TRUE},
     coverage : IF a \in Windowed THEN BOOLEAN ELSE {FALSE}]
Samples(a, type) ==
    {NULL, Unavailable(a, type)}
    \cup Read(a, type, {"same"}, ValuesOf(type) \cup {NULL})
    \cup IF a \in Windowed THEN Read(a, type, {"older"}, {NULL}) ELSE {}
Types == TagTypes \cup {DataType[a] : a \in Aliases}
Snapshots ==
    [types \in [Aliases -> Types] |->
        {s \in [Aliases -> UNION {Samples(a, types[a]) : a \in Aliases}] :
            \A a \in Aliases : s[a] \in Samples(a, types[a])}]

----------------------------------------------------------------------------
(* Values and their JSON. *)

Encode(v) ==
    CASE v = NULL -> <<"w">> [] v = "bool" -> <<"w">> [] v = "str" -> <<"q", "t", "q">>
      [] v = "long" -> <<"q", "t", "t", "t", "t", "t", "t", "t", "q">>
      [] v = "neg" -> <<"-", "9">> [] v = "zero" -> <<"0">> [] v = "pos" -> <<"9">>
      [] v = "frac" -> <<"9", ".", "9">> [] v = "huge" -> <<"9", "e">>

availableJSONPayloadValue(sample, fallback) ==
    IF ~sample.available \/ sample.value = NULL THEN fallback ELSE sample.value

(* v * 10^decimals may overflow; the result is then no number JSON has. *)
roundedJSONPayloadValue(sample, decimals) ==
    LET v == availableJSONPayloadValue(sample, NULL)
    IN CASE v = "huge" /\ decimals > 0 -> "inf"
         [] v = "frac" /\ decimals = 0 -> "pos"
         [] OTHER -> v

(* "times": the gain takes a huge value past the largest float. *)
scaledJSONPayloadValue(sample, gain) ==
    LET v == availableJSONPayloadValue(sample, NULL)
    IN IF v = "huge" /\ gain = "times" THEN NULL ELSE v

Moment(present) == IF present THEN "str" ELSE NULL

(* The value of a call: publisher_id is known to a transport alone. *)
HelperValue(op, sample, published) ==
    CASE op.helper = "value" -> availableJSONPayloadValue(sample, NULL)
      [] op.helper = "available" -> "bool"
      [] op.helper \in {"quality", "error", "unit", "data_type"} -> "str"
      [] op.helper = "sequence" -> sample.sequence
      [] op.helper = "schema_version" -> "pos"
      [] op.helper \in {"observed_at", "emitted_at", "format_time"} -> Moment(sample.times)
      [] op.helper \in {"period_start", "period_end"} -> Moment(sample.period)
      [] op.helper = "coverage" -> IF sample.coverage THEN "frac" ELSE NULL
      [] op.helper = "round" -> roundedJSONPayloadValue(sample, op.arg)
      [] op.helper = "scale" -> scaledJSONPayloadValue(sample, op.arg)
      [] op.helper = "default" -> availableJSONPayloadValue(sample, op.arg)
      [] op.helper = "published_at" -> "str"
      [] op.helper = "published_unix_ms" -> "pos"
      [] op.helper = "publisher_id" -> Moment(published)

----------------------------------------------------------------------------
(* The JSON decoder: what may follow what, as a machine over tokens. *)

Digits(mode) == [t \in {"0", "9"} |-> mode]
Value == [t \in {"q", "w", "-", "0", "9"} |->
            CASE t = "q" -> "string" [] t = "w" -> "done" [] t = "-" -> "minus" [] t = "0" -> "zero"
              [] t = "9" -> "int"]
With(f, t, mode) == [u \in DOMAIN f \cup {t} |-> IF u = t THEN mode ELSE f[u]]
Moves ==
    [value |-> Value, first |-> Value, key1 |-> [t \in {"q"} |-> "keystring"],
     key |-> [t \in {"q"} |-> "keystring"], colon |-> [t \in {":"} |-> "value"],
     minus |-> [t \in {"0", "9"} |-> IF t = "0" THEN "zero" ELSE "int"],
     zero |-> [t \in {".", "e"} |-> IF t = "." THEN "dot" ELSE "exp"],
     int |-> With(With(Digits("int"), ".", "dot"), "e", "exp"),
     dot |-> Digits("frac"), frac |-> With(Digits("frac"), "e", "exp"), exp |-> Digits("exp"),
     done |-> [t \in {} |-> "done"]]

Complete(mode) == mode \in {"done", "zero", "int", "frac", "exp"}
Bad(s) == [s EXCEPT !.mode = "bad"]

(* inspectJSONPayloadValue runs after the decoder; the depth is that of a value. *)
Open(s, kind, mode) ==
    IF Len(s.stack) + 1 > MaxDepth THEN Bad(s)
    ELSE [s EXCEPT !.stack = Append(@, kind), !.mode = mode]
CloseWith(s, kind) ==
    IF s.stack # <<>> /\ Last(s.stack) = kind THEN [s EXCEPT !.stack = Front(@), !.mode = "done"] ELSE Bad(s)

Step(s, t) ==
    CASE s.mode = "bad" -> s
      [] s.mode \in {"string", "keystring"} ->
           IF t # "q" THEN s ELSE [s EXCEPT !.mode = IF s.mode = "string" THEN "done" ELSE "colon"]
      [] s.mode \in {"value", "first"} /\ t = "{" -> Open(s, "object", "key1")
      [] s.mode \in {"value", "first"} /\ t = "[" -> Open(s, "array", "first")
      [] t = "]" /\ (s.mode = "first" \/ Complete(s.mode)) -> CloseWith(s, "array")
      [] t = "}" /\ (s.mode = "key1" \/ Complete(s.mode)) -> CloseWith(s, "object")
      [] t = "," /\ Complete(s.mode) /\ s.stack # <<>> ->
           [s EXCEPT !.mode = IF Last(s.stack) = "array" THEN "value" ELSE "key"]
      [] OTHER ->
           LET scalar == s.mode \in {"value", "first"} /\ Len(s.stack) + 1 > MaxDepth
           IN IF ~scalar /\ t \in DOMAIN Moves[s.mode] THEN [s EXCEPT !.mode = Moves[s.mode][t]] ELSE Bad(s)

(* One value and nothing after it. *)
normalizeRenderedJSONPayload(text) ==
    LET s == FoldLeft(Step, [stack |-> <<>>, mode |-> "value"], text)
    IN Complete(s.mode) /\ s.stack = <<>>

----------------------------------------------------------------------------
(* Compilation and rendering. *)

(* compileJSONPayloadAction, validateJSONPayloadHelper: the alias is one of the sources, and the *)
(* arguments are fit for its type.                                                               *)
CallFits(op) ==
    \/ op.helper \in ContextHelpers
    \/ /\ op.helper \in SourceHelpers /\ op.alias \in Aliases
       /\ op.helper \in {"round", "scale"} => DataType[op.alias] \in {"int", "float"}
       /\ op.helper = "round" => op.arg \in 0..9
       /\ op.helper = "scale" => op.arg \in {"same", "times"}
       /\ op.helper = "default" => op.arg \in Numeric \cup {"bool", "str", NULL}
       /\ op.helper = "format_time" => op.arg = "valid"

(* samplesByAlias refuses a sample that is not of the source that was compiled, or is not        *)
(* described as that one was. (That an alias has one sample is the form of a snapshot.) A source *)
(* without a sample is unavailable; "zero" is the sequence of no value.                          *)
Fits(sample, a) ==
    /\ sample.source = a /\ sample.type = DataType[a] /\ sample.schema = "same"
    /\ sample.value \in ValuesOf(sample.type) \cup {NULL}
SamplesFit(s) == \A a \in Aliases : s[a] # NULL => Fits(s[a], a)
SampleByAlias(s, a) == IF s[a] = NULL THEN Unavailable(a, DataType[a]) ELSE s[a]

(* The fragments in order; one that JSON has no form for fails the whole. *)
Fragments(t, s, published) ==
    [i \in DOMAIN t |->
        IF t[i].helper = "" THEN t[i].text
        ELSE LET sample == IF t[i].alias = NULL THEN Unavailable(NULL, NULL)
                           ELSE SampleByAlias(s, t[i].alias)
                 v == HelperValue(t[i], sample, published)
             IN IF v = "inf" THEN "failed" ELSE Encode(v)]
Render(t, s, published) ==
    LET fragments == Fragments(t, s, published)
    IN IF ~SamplesFit(s) \/ \E i \in DOMAIN t : fragments[i] = "failed" THEN "failed"
       ELSE LET text == FlattenSeq(fragments)
            IN IF Len(text) > MaxTokens \/ ~normalizeRenderedJSONPayload(text) THEN "failed" ELSE text

FixtureValue(type) ==
    CASE type = "bool" -> "bool" [] type = "int" -> "neg" [] type = "float" -> "frac" [] type = "string" -> "str"
jsonPayloadFixture(kind) ==
    [a \in Aliases |->
        [source |-> a, type |-> DataType[a], schema |-> "same",
         available |-> kind # "unavailable",
         value |-> IF kind = "unavailable" THEN NULL ELSE FixtureValue(DataType[a]),
         sequence |-> "pos", times |-> TRUE, period |-> a \in Windowed,
         coverage |-> a \in Windowed /\ kind # "unavailable"]]

FixtureKinds == {"good", "unavailable", "windowed"}

CallsOf(t) == {i \in DOMAIN t : t[i].helper # ""}
Compiles(t) ==
    /\ \A i \in CallsOf(t) : CallFits(t[i])
    /\ \A i \in CallsOf(t) : Len(SelectSeq(SubSeq(t, 1, i), LAMBDA op : op.helper # "")) <= MaxActions
    /\ \A kind \in FixtureKinds : Render(t, jsonPayloadFixture(kind), FALSE) # "failed"

----------------------------------------------------------------------------

PayloadInit ==
    /\ template = <<>> /\ stage = "draft" /\ current = DataType
    /\ snapshot = NULL /\ rendered = NULL

(* A template is put together, then validated or saved. *)
Write(op) ==
    /\ stage = "draft" /\ Len(template) < MaxLength
    /\ template' = Append(template, op)
    /\ UNCHANGED <<stage, current, snapshot, rendered>>

Compile ==
    /\ stage = "draft" /\ template # <<>>
    /\ stage' = IF Compiles(template) THEN "accepted" ELSE "refused"
    /\ UNCHANGED <<template, current, snapshot, rendered>>

(* A tag is given an other data type; the transport that is running is not told, and what it is  *)
(* recognised by (publisherRuntimeFingerprint) does not have the type.                           *)
Retype(a, type) ==
    /\ stage = "accepted" /\ rendered = NULL
    /\ current' = [current EXCEPT ![a] = type]
    /\ UNCHANGED <<template, stage, snapshot, rendered>>

(* A transport renders what it compiled, with the identifier of its publisher. *)
Publish(s) ==
    /\ stage = "accepted" /\ rendered = NULL
    /\ snapshot' = s
    /\ rendered' = Render(template, s, TRUE)
    /\ UNCHANGED <<template, stage, current>>

PayloadNext ==
    \/ \E s \in Texts : Write(Text(s))
    \/ \E op \in Calls : Write(op)
    \/ Compile
    \/ \E a \in Aliases \ Windowed, type \in TagTypes : Retype(a, type)
    \/ stage = "accepted" /\ rendered = NULL /\ \E s \in Snapshots[current] : Publish(s)

PayloadSpec == PayloadInit /\ [][PayloadNext]_payloadVars

----------------------------------------------------------------------------

PayloadTypeOK ==
    /\ Len(template) <= MaxLength /\ stage \in {"draft", "accepted", "refused"}
    /\ rendered # NULL => stage = "accepted" /\ snapshot \in Snapshots[current]

(* A helper stands where a value may: not in a string, not beside a part of a number. *)
Stands(i) ==
    LET before == Fragments(SubSeq(template, 1, i - 1), jsonPayloadFixture("good"), FALSE)
        state == FoldLeft(Step, [stack |-> <<>>, mode |-> "value"], FlattenSeq(before))
        next == IF i = Len(template) THEN <<"]">> ELSE template[i + 1].text
    IN state.mode \in {"value", "first"} /\ next # <<>> /\ Head(next) \in {"]", "}", ","}

(* What the fixtures accept can be published whatever the sources hold: a  *)
(* template all of whose helpers stand where a value may renders for every *)
(* snapshot, one without a sample or with values left out among them, with *)
(* three exceptions: a source is no longer described as it was compiled,   *)
(* used or not; a rounded value overflows; the text is longer than allowed.*)
Redescribed ==
    \E a \in Aliases : /\ snapshot[a] # NULL
                       /\ <<snapshot[a].type, snapshot[a].schema>> # <<DataType[a], "same">>
Overflows ==
    \E i \in CallsOf(template) :
        /\ template[i].helper = "round" /\ template[i].arg > 0
        /\ snapshot[template[i].alias] # NULL /\ snapshot[template[i].alias].value = "huge"
TooLong == Len(FlattenSeq(Fragments(template, snapshot, TRUE))) > MaxTokens
AcceptedRenders ==
    (rendered # NULL /\ \A i \in CallsOf(template) : Stands(i)) =>
        (rendered = "failed" <=> Redescribed \/ Overflows \/ TooLong)

(* "Core validation is authoritative": what it accepted is never refused later. *)
(* It does not hold for the exceptions of AcceptedRenders.                      *)
ValidationIsAuthoritative == rendered # "failed"
=============================================================================
