-------------------------- MODULE GeneratedBuilder --------------------------
(***************************************************************************)
(* The builder classes that proto_builder generates, at run time: what     *)
(* default.h.tpl, default.cc.tpl and the setters of field_builder.cc make  *)
(* of a builder's data, its status and its raw data flag, for builders     *)
(* that are read, given errors, cleared and passed to other builders in    *)
(* any order. Builders are used by one thread, a call is one action.       *)
(***************************************************************************)
CONSTANTS
    Builder,   \* builder objects
    Path,      \* leaf fields of messages, by the way down to them
    Fields,    \* the paths of each builder's message
    Value,     \* what a leaf field may hold
    Default,   \* what it holds when it is not set
    ValidIn,   \* the values Validate accepts anywhere in a message
    Checked,   \* the paths whose setter has a predicate
    Accepted,  \* the values the predicates accept
    Option     \* sets of message options a builder may be generated with

MessageOption == {"use_status", "use_build", "use_validator"}

ASSUME BuilderAssumption ==
    /\ Fields \in [Builder -> SUBSET Path]
    /\ Default \in Value
    /\ ValidIn \subseteq Value /\ Accepted \subseteq Value
    /\ Checked \subseteq Path
    /\ Option \subseteq SUBSET MessageOption

VARIABLES
    options,   \* the message options of each builder
    data,      \* data_
    status,    \* status_
    raw,       \* get_raw_data_
    owed,      \* history: an error was reported to the builder, not cleared since
    returned   \* the latest result, a StatusOr

vars == <<options, data, status, raw, owed, returned>>

\* "invalid" is what Validate returns and "rejected" what a predicate does;
\* "reported" is any error a caller gives to UpdateStatus.
Status == {"ok", "invalid", "rejected", "reported"}

Content == [Path -> Value]
DefaultInstance == [q \in Path |-> Default]
Nothing == [call |-> "none"]
Result(b, call, s, content) ==
    [call |-> call, builder |-> b, status |-> s, content |-> content]
-----------------------------------------------------------------------------
(***************************************************************************)
(* The sections of the templates that the message options turn on.         *)
(***************************************************************************)
UseStatus(b) == options[b] # {}
UseBuild(b) == options[b] \cap {"use_build", "use_validator"} # {}
UseValidator(b) == "use_validator" \in options[b]

\* WritePredicate looks at the one option, not at what enables the status.
RecordsRejection(b) == "use_status" \in options[b]

\* A message of c fits into a message field of p.
Embeds(p, c) == p # c /\ Fields[c] \subseteq Fields[p]

\* Slip: the setter is written whether p has a status or not.
SetsFromAnyBuilder(p, c) == Embeds(p, c) /\ UseStatus(c)

\* The setter that takes a builder exists in p and accepts c.
SetsFromBuilder(p, c) == Embeds(p, c) /\ UseStatus(p) /\ UseStatus(c)
-----------------------------------------------------------------------------
(***************************************************************************)
(* The functions of the templates, as what they do to one builder.         *)
(***************************************************************************)
\* Validate recurses into all sub messages.
Valid(b) == \A q \in Fields[b] : data[b][q] \in ValidIn

\* Slip: ValidateData overwrites the status it finds.
ValidatedAnyway(b) ==
    IF UseValidator(b) THEN (IF Valid(b) THEN "ok" ELSE "invalid") ELSE status[b]

\* Slip: the template leaves VALIDATE_DATA out of the read methods.
ValidatedNever(b) == status[b]

\* status_ after ValidateData, which is empty without a validator.
Validated(b) ==
    IF UseValidator(b) /\ status[b] = "ok" /\ ~ Valid(b) THEN "invalid" ELSE status[b]

\* Slip: an error does not reset get_raw_data_.
UpdateStatusNotRaw(b, s) ==
    /\ status' = [status EXCEPT ![b] =
                    IF s = "ok" /\ UseValidator(b) /\ ~ Valid(b) THEN "invalid" ELSE s]
    /\ owed' = [owed EXCEPT ![b] = s # "ok"]
    /\ UNCHANGED raw

\* status_ and get_raw_data_ after UpdateStatus(s).
UpdateStatus(b, s) ==
    /\ status' = [status EXCEPT ![b] =
                    IF s = "ok" /\ UseValidator(b) /\ ~ Valid(b) THEN "invalid" ELSE s]
    /\ raw' = [raw EXCEPT ![b] = s = "ok"]
    /\ owed' = [owed EXCEPT ![b] = s # "ok"]

\* MaybeGetRawData passes an error on only if UpdateStatus has set it.
MaybeGetRawData(b) ==
    IF raw[b] THEN Result(b, "MaybeGetRawData", "ok", data[b])
              ELSE Result(b, "MaybeGetRawData", status[b], DefaultInstance)

\* The message content of p once a sub message of c's type is assigned.
WithSubMessage(p, c, content) ==
    [q \in Path |-> IF q \in Fields[c] THEN content[q] ELSE data[p][q]]

\* What a moved-from protobuf message holds: the move swaps with a new one.
MovedFrom == DefaultInstance
-----------------------------------------------------------------------------
\* A builder is constructed empty or from a message.
Init ==
    /\ options \in [Builder -> Option]
    /\ data \in [Builder -> Content]
    /\ \A b \in Builder : \A q \in Path \ Fields[b] : data[b][q] = Default
    /\ status = [b \in Builder |-> "ok"]
    /\ raw = [b \in Builder |-> TRUE]
    /\ owed = [b \in Builder |-> FALSE]
    /\ returned = Nothing

Rejects(q, v) == q \in Checked /\ v \notin Accepted

\* A setter writes whatever the status is, unless its predicate rejects.
Set(b, q, v) ==
    /\ q \in Fields[b] /\ ~ Rejects(q, v)
    /\ data' = [data EXCEPT ![b][q] = v]
    /\ returned' = Nothing
    /\ UNCHANGED <<options, status, raw, owed>>

\* A rejection becomes the status only where no error is there already.
SetRejected(b, q, v) ==
    /\ q \in Fields[b] /\ Rejects(q, v)
    /\ IF RecordsRejection(b) /\ status[b] = "ok"
         THEN UpdateStatus(b, "rejected")
         ELSE /\ owed' = [owed EXCEPT ![b] = @ \/ RecordsRejection(b)]
              /\ UNCHANGED <<status, raw>>
    /\ returned' = Nothing
    /\ UNCHANGED <<options, data>>

\* The setter of p that takes the builder c, as a copy.
SetFromBuilder(p, c) ==
    /\ SetsFromBuilder(p, c)
    /\ LET value == MaybeGetRawData(c) IN
         \/ /\ value.status = "ok"
            /\ data' = [data EXCEPT ![p] = WithSubMessage(p, c, value.content)]
            /\ UNCHANGED <<status, raw, owed>>
         \/ /\ value.status # "ok"
            /\ UpdateStatus(p, value.status)
            /\ UNCHANGED data
    /\ returned' = Nothing
    /\ UNCHANGED options

\* The setter of p that takes a message, given c: the conversion operator
\* validates, and yields the default instance in place of an erroneous c.
SetFromConversion(p, c) ==
    /\ Embeds(p, c)
    /\ status' = [status EXCEPT ![c] = Validated(c)]
    /\ LET content == IF status'[c] = "ok" THEN data[c] ELSE DefaultInstance IN
         data' = [data EXCEPT ![p] = WithSubMessage(p, c, content)]
    /\ returned' = Nothing
    /\ UNCHANGED <<options, raw, owed>>

\* A caller reports an error, or clears the status.
CallUpdateStatus(b, s) ==
    /\ UseStatus(b)
    /\ UpdateStatus(b, s)
    /\ returned' = Nothing
    /\ UNCHANGED <<options, data>>

CallMaybeGetRawData(b) ==
    /\ UseStatus(b)
    /\ returned' = MaybeGetRawData(b)
    /\ UNCHANGED <<options, data, status, raw, owed>>

\* ok() and status()
ReadStatus(b) ==
    /\ UseStatus(b)
    /\ status' = [status EXCEPT ![b] = Validated(b)]
    /\ returned' = Result(b, "status", status'[b], DefaultInstance)
    /\ UNCHANGED <<options, data, raw, owed>>

\* Slip: Build looks at status_ instead of ok().
BuildUnvalidated(b) ==
    /\ UseBuild(b)
    /\ returned' = Result(b, "Build", status[b],
                          IF status[b] = "ok" THEN data[b] ELSE DefaultInstance)
    /\ UNCHANGED <<options, data, status, raw, owed>>

Build(b) ==
    /\ UseBuild(b)
    /\ status' = [status EXCEPT ![b] = Validated(b)]
    /\ returned' = Result(b, "Build", status'[b],
                          IF status'[b] = "ok" THEN data[b] ELSE DefaultInstance)
    /\ UNCHANGED <<options, data, raw, owed>>

\* Slip: get_raw_data_ is not set again when an error is consumed.
ConsumeKeepingFlag(b) ==
    /\ UseBuild(b)
    /\ returned' = Result(b, "Consume", Validated(b),
                          IF Validated(b) = "ok" THEN data[b] ELSE DefaultInstance)
    /\ data' = [data EXCEPT ![b] = DefaultInstance]
    /\ status' = [status EXCEPT ![b] = "ok"]
    /\ owed' = [owed EXCEPT ![b] = @ /\ Validated(b) = "ok"]
    /\ UNCHANGED <<options, raw>>

\* Consume leaves an empty builder without an error behind.
Consume(b) ==
    /\ UseBuild(b)
    /\ LET s == Validated(b) IN
         \/ /\ s = "ok"
            /\ returned' = Result(b, "Consume", s, data[b])
            /\ data' = [data EXCEPT ![b] = MovedFrom]
            /\ status' = [status EXCEPT ![b] = s]
            /\ UNCHANGED <<raw, owed>>
         \/ /\ s # "ok"
            /\ returned' = Result(b, "Consume", s, DefaultInstance)
            /\ data' = [data EXCEPT ![b] = DefaultInstance]
            /\ status' = [status EXCEPT ![b] = "ok"]
            /\ raw' = [raw EXCEPT ![b] = TRUE]
            /\ owed' = [owed EXCEPT ![b] = FALSE]
    /\ UNCHANGED options

Next ==
    \E b \in Builder :
        \/ \E q \in Path, v \in Value : Set(b, q, v) \/ SetRejected(b, q, v)
        \/ \E c \in Builder : SetFromBuilder(b, c) \/ SetFromConversion(b, c)
        \/ \E s \in {"ok", "reported"} : CallUpdateStatus(b, s)
        \/ CallMaybeGetRawData(b)
        \/ ReadStatus(b)
        \/ Build(b)
        \/ Consume(b)

Spec == Init /\ [][Next]_vars
-----------------------------------------------------------------------------
TypeOK ==
    /\ options \in [Builder -> SUBSET MessageOption]
    /\ data \in [Builder -> Content]
    /\ status \in [Builder -> Status]
    /\ raw \in [Builder -> BOOLEAN]
    /\ owed \in [Builder -> BOOLEAN]
    /\ \A b \in Builder :
          /\ ~ UseStatus(b) => status[b] = "ok" /\ raw[b]
          /\ ~ UseValidator(b) => status[b] # "invalid"
    /\ \/ returned = Nothing
       \/ returned \in [call : {"MaybeGetRawData", "status", "Build", "Consume"},
                        builder : Builder, status : Status, content : Content]

\* The three cases of "Validation and MaybeGetRawData" (validation.md): the data
\* of a builder is passed on unless its error came from UpdateStatus; an error
\* of validation never keeps the outer builder from seeing the data, and no
\* reported error is ever taken for one, in whatever order builders are
\* validated, given errors, cleared, consumed and passed on.
RawDataTellsErrors ==
    \A b \in Builder : raw[b] <=> status[b] \in {"ok", "invalid"}

\* An error reported to a builder, by UpdateStatus, by a predicate that records
\* it or by a builder passed to a setter, is not forgotten before the caller
\* clears it or consumes it.
ErrorsKept == \A b \in Builder : owed[b] => status[b] # "ok"

\* Build and Consume hand out a message only if all of it is valid, what came
\* from other builders included, and if no error is outstanding.
BuiltIsValid ==
    returned # Nothing /\ returned.call \in {"Build", "Consume"} /\ returned.status = "ok" =>
        /\ ~ owed[returned.builder]
        /\ UseValidator(returned.builder) =>
              \A q \in Fields[returned.builder] : returned.content[q] \in ValidIn

\* Whatever Consume returns, the builder is then as good as a new one.
ConsumeStartsOver ==
    returned # Nothing /\ returned.call = "Consume" =>
        LET b == returned.builder IN
          data[b] = DefaultInstance /\ status[b] = "ok" /\ raw[b] /\ ~ owed[b]

\* Reads that follow each other agree: after ok() a Build or Consume does not
\* fail, nor does it succeed after an error was read.
ReadsAgree ==
    [][\A b \in Builder :
          /\ ReadStatus(b) \/ Build(b) \/ Consume(b)
          /\ returned # Nothing /\ returned.builder = b
          /\ returned.call \in {"status", "Build"}
          => returned'.status = returned.status]_vars
-----------------------------------------------------------------------------
(***************************************************************************)
(* Two statements of the documentation that the code does not keep.        *)
(***************************************************************************)
\* The builders validate the current data for the read access methods
\* (validation.md): without a reported error, the result of a read tells
\* whether the data is valid now.
ReadsValidateCurrentData ==
    returned # Nothing /\ returned.call \in {"status", "Build"} =>
        LET b == returned.builder IN
          UseValidator(b) /\ raw[b] => (returned.status = "ok" <=> Valid(b))

\* use_build and use_validator enable use_status (config.md), with which a
\* setter saves the error of its predicate.
RejectionsRecorded ==
    [][\A b \in Builder, q \in Path, v \in Value :
          SetRejected(b, q, v) /\ UseStatus(b) => status'[b] # "ok"]_vars
=============================================================================
