----------------------- MODULE GeneratedBuilderProofs -----------------------
(***************************************************************************)
(* Proofs about the generated builders, for any number of builders, any    *)
(* nesting of their messages and any mix of their message options.         *)
(***************************************************************************)
EXTENDS GeneratedBuilder, TLAPS

\* A builder's status and flag are typed, agree with each other, with the
\* options of the builder and with the errors it was given.
BuilderOK(b) ==
    /\ status[b] \in Status /\ raw[b] \in BOOLEAN /\ owed[b] \in BOOLEAN
    /\ raw[b] <=> status[b] \in {"ok", "invalid"}
    /\ owed[b] => status[b] # "ok"
    /\ ~ UseStatus(b) => status[b] = "ok"
    /\ ~ UseValidator(b) => status[b] # "invalid"

ReturnedOK ==
    \/ returned = Nothing
    \/ returned \in [call : {"MaybeGetRawData", "status", "Build", "Consume"},
                     builder : Builder, status : Status, content : Content]

IInv ==
    /\ options \in [Builder -> SUBSET MessageOption]
    /\ data \in [Builder -> Content]
    /\ status \in [Builder -> Status]
    /\ raw \in [Builder -> BOOLEAN]
    /\ owed \in [Builder -> BOOLEAN]
    /\ \A b \in Builder : BuilderOK(b)
    /\ ReturnedOK
    /\ BuiltIsValid
    /\ ConsumeStartsOver

LEMMA IInvImplies == IInv => TypeOK /\ RawDataTellsErrors /\ ErrorsKept
BY DEF IInv, BuilderOK, ReturnedOK, TypeOK, RawDataTellsErrors, ErrorsKept, Status

LEMMA DefaultIsContent == DefaultInstance \in Content
BY BuilderAssumption DEF DefaultInstance, Content

\* ValidateData keeps a builder in order, and says "ok" only of valid data.
LEMMA ValidatedOK ==
    ASSUME IInv, NEW b \in Builder
    PROVE  /\ Validated(b) \in Status
           /\ raw[b] <=> Validated(b) \in {"ok", "invalid"}
           /\ owed[b] => Validated(b) # "ok"
           /\ ~ UseStatus(b) => Validated(b) = "ok"
           /\ ~ UseValidator(b) => Validated(b) # "invalid"
           /\ UseValidator(b) /\ Validated(b) = "ok" => Valid(b)
BY DEF IInv, BuilderOK, Validated, Status, UseStatus, UseValidator

\* A step that gives one builder a status in order, and touches no other one,
\* leaves all of them in order.
LEMMA OneBuilderStep ==
    ASSUME IInv, NEW b \in Builder, UNCHANGED options,
           NEW s \in Status, NEW r \in BOOLEAN, NEW o \in BOOLEAN,
           status' = [status EXCEPT ![b] = s],
           raw' = [raw EXCEPT ![b] = r],
           owed' = [owed EXCEPT ![b] = o],
           r <=> s \in {"ok", "invalid"},
           o => s # "ok",
           ~ UseStatus(b) => s = "ok",
           ~ UseValidator(b) => s # "invalid"
    PROVE  /\ status' \in [Builder -> Status]
           /\ raw' \in [Builder -> BOOLEAN]
           /\ owed' \in [Builder -> BOOLEAN]
           /\ \A c \in Builder : BuilderOK(c)'
BY DEF IInv, BuilderOK, UseStatus, UseValidator

\* In particular UpdateStatus does, for any status a caller may pass on.
LEMMA UpdateStatusStep ==
    ASSUME IInv, NEW b \in Builder, UNCHANGED options, UseStatus(b),
           NEW s \in {"ok", "rejected", "reported"}, UpdateStatus(b, s)
    PROVE  /\ status' \in [Builder -> Status]
           /\ raw' \in [Builder -> BOOLEAN]
           /\ owed' \in [Builder -> BOOLEAN]
           /\ \A c \in Builder : BuilderOK(c)'
<1>. DEFINE new == IF s = "ok" /\ UseValidator(b) /\ ~ Valid(b) THEN "invalid" ELSE s
<1>1. new \in Status
  BY DEF Status
<1>2. /\ status' = [status EXCEPT ![b] = new]
      /\ raw' = [raw EXCEPT ![b] = (s = "ok")]
      /\ owed' = [owed EXCEPT ![b] = (s # "ok")]
  BY DEF UpdateStatus
<1>3. /\ (s = "ok") <=> new \in {"ok", "invalid"}
      /\ (s # "ok") => new # "ok"
      /\ ~ UseValidator(b) => new # "invalid"
  OBVIOUS
<1>4. (s = "ok") \in BOOLEAN /\ (s # "ok") \in BOOLEAN
  OBVIOUS
<1>. HIDE DEF new
<1>. QED  BY <1>1, <1>2, <1>3, <1>4, OneBuilderStep

\* What a builder passes on when it passes an error on.
LEMMA PassedOn ==
    ASSUME IInv, NEW c \in Builder
    PROVE  /\ MaybeGetRawData(c).status = "ok" => MaybeGetRawData(c).content = data[c]
           /\ MaybeGetRawData(c).status # "ok" =>
                 MaybeGetRawData(c).status \in {"rejected", "reported"}
           /\ MaybeGetRawData(c).status \in Status /\ MaybeGetRawData(c).content \in Content
BY DefaultIsContent DEF IInv, BuilderOK, MaybeGetRawData, Result, Status

LEMMA SubMessageContent ==
    ASSUME NEW p \in Builder, NEW c \in Builder, NEW content \in Content,
           data \in [Builder -> Content]
    PROVE  WithSubMessage(p, c, content) \in Content
BY DEF WithSubMessage, Content
-----------------------------------------------------------------------------
LEMMA IInvInit == Init => IInv
BY BuilderAssumption
   DEF Init, IInv, BuilderOK, ReturnedOK, BuiltIsValid, ConsumeStartsOver, Status,
       UseStatus, UseValidator, Nothing

\* A step whose result is nothing to look at owes the builders only.
LEMMA NothingReturned ==
    ASSUME returned' = Nothing
    PROVE  (ReturnedOK /\ BuiltIsValid /\ ConsumeStartsOver)'
BY DEF ReturnedOK, BuiltIsValid, ConsumeStartsOver

LEMMA SetStep ==
    ASSUME IInv, NEW b \in Builder, NEW q \in Path, NEW v \in Value, Set(b, q, v)
    PROVE  IInv'
<1>1. data' \in [Builder -> Content]
  BY DEF IInv, Set, Content
<1>. QED  BY <1>1, NothingReturned DEF IInv, Set, BuilderOK, UseStatus, UseValidator

LEMMA SetRejectedStep ==
    ASSUME IInv, NEW b \in Builder, NEW q \in Path, NEW v \in Value, SetRejected(b, q, v)
    PROVE  IInv'
<1>1. /\ UNCHANGED <<options, data>> /\ returned' = Nothing
  BY DEF SetRejected
<1>2. CASE RecordsRejection(b) /\ status[b] = "ok"
  <2>1. UpdateStatus(b, "rejected") /\ UseStatus(b)
    BY <1>2 DEF SetRejected, RecordsRejection, UseStatus
  <2>. QED  BY <1>1, <2>1, UpdateStatusStep, NothingReturned DEF IInv
<1>3. CASE ~ (RecordsRejection(b) /\ status[b] = "ok")
  <2>1. /\ UNCHANGED <<status, raw>>
        /\ owed' = [owed EXCEPT ![b] = owed[b] \/ RecordsRejection(b)]
    BY <1>3 DEF SetRejected
  <2>2. (owed[b] \/ RecordsRejection(b)) \in BOOLEAN
    BY DEF RecordsRejection
  <2>3. owed' \in [Builder -> BOOLEAN] /\ \A c \in Builder : c # b => owed'[c] = owed[c]
    BY <2>1, <2>2 DEF IInv
  <2>4. owed'[b] => status[b] # "ok"
    BY <1>3, <2>1 DEF IInv, BuilderOK
  <2>5. \A c \in Builder : BuilderOK(c)'
    BY <1>1, <2>1, <2>3, <2>4 DEF IInv, BuilderOK, UseStatus, UseValidator
  <2>. QED  BY <1>1, <2>1, <2>3, <2>5, NothingReturned DEF IInv
<1>. QED  BY <1>2, <1>3

LEMMA SetFromBuilderStep ==
    ASSUME IInv, NEW p \in Builder, NEW c \in Builder, SetFromBuilder(p, c)
    PROVE  IInv'
<1>. DEFINE value == MaybeGetRawData(c)
<1>1. UNCHANGED options /\ returned' = Nothing /\ UseStatus(p)
  BY DEF SetFromBuilder, SetsFromBuilder
<1>2. CASE value.status = "ok"
  <2>1. /\ data' = [data EXCEPT ![p] = WithSubMessage(p, c, value.content)]
        /\ UNCHANGED <<status, raw, owed>>
    BY <1>2 DEF SetFromBuilder
  <2>2. data' \in [Builder -> Content]
    BY <2>1, PassedOn, SubMessageContent DEF IInv
  <2>. QED  BY <1>1, <2>1, <2>2, NothingReturned DEF IInv, BuilderOK, UseStatus, UseValidator
<1>3. CASE value.status # "ok"
  <2>1. UpdateStatus(p, value.status) /\ UNCHANGED data
    BY <1>3 DEF SetFromBuilder
  <2>2. value.status \in {"ok", "rejected", "reported"}
    BY <1>3, PassedOn
  <2>. QED  BY <1>1, <2>1, <2>2, UpdateStatusStep, NothingReturned DEF IInv
<1>. QED  BY <1>2, <1>3

\* ValidateData changes one status, and that within the bounds of the invariant.
LEMMA ValidatedStep ==
    ASSUME IInv, NEW b \in Builder, UNCHANGED <<options, raw, owed>>,
           status' = [status EXCEPT ![b] = Validated(b)]
    PROVE  /\ status' \in [Builder -> Status]
           /\ \A c \in Builder : BuilderOK(c)'
           /\ status'[b] = Validated(b)
<1>1. raw' = [raw EXCEPT ![b] = raw[b]] /\ owed' = [owed EXCEPT ![b] = owed[b]]
  BY DEF IInv
<1>2. Validated(b) \in Status /\ raw[b] \in BOOLEAN /\ owed[b] \in BOOLEAN
  BY ValidatedOK DEF IInv
<1>. QED  BY <1>1, <1>2, ValidatedOK, OneBuilderStep DEF IInv

LEMMA SetFromConversionStep ==
    ASSUME IInv, NEW p \in Builder, NEW c \in Builder, SetFromConversion(p, c)
    PROVE  IInv'
<1>1. /\ UNCHANGED <<options, raw, owed>> /\ returned' = Nothing
      /\ status' = [status EXCEPT ![c] = Validated(c)]
  BY DEF SetFromConversion
<1>. DEFINE content == IF status'[c] = "ok" THEN data[c] ELSE DefaultInstance
<1>2. content \in Content /\ data' = [data EXCEPT ![p] = WithSubMessage(p, c, content)]
  BY DefaultIsContent DEF SetFromConversion, IInv
<1>3. data' \in [Builder -> Content]
  BY <1>2, SubMessageContent DEF IInv
<1>. QED  BY <1>1, <1>3, ValidatedStep, NothingReturned DEF IInv

LEMMA CallUpdateStatusStep ==
    ASSUME IInv, NEW b \in Builder, NEW s \in {"ok", "reported"}, CallUpdateStatus(b, s)
    PROVE  IInv'
BY UpdateStatusStep, NothingReturned DEF IInv, CallUpdateStatus

LEMMA CallMaybeGetRawDataStep ==
    ASSUME IInv, NEW b \in Builder, CallMaybeGetRawData(b)
    PROVE  IInv'
<1>1. ReturnedOK' /\ BuiltIsValid' /\ ConsumeStartsOver'
  BY PassedOn DEF CallMaybeGetRawData, MaybeGetRawData, Result, ReturnedOK, BuiltIsValid,
                  ConsumeStartsOver, IInv
<1>. QED  BY <1>1 DEF IInv, CallMaybeGetRawData, BuilderOK, UseStatus, UseValidator

LEMMA ReadStatusStep ==
    ASSUME IInv, NEW b \in Builder, ReadStatus(b)
    PROVE  IInv'
<1>1. /\ status' \in [Builder -> Status] /\ status'[b] \in Status
      /\ \A c \in Builder : BuilderOK(c)'
  BY ValidatedStep, ValidatedOK DEF ReadStatus
<1>2. returned' = Result(b, "status", status'[b], DefaultInstance)
  BY DEF ReadStatus
<1>3. ReturnedOK' /\ BuiltIsValid' /\ ConsumeStartsOver'
  BY <1>1, <1>2, DefaultIsContent DEF Result, ReturnedOK, BuiltIsValid, ConsumeStartsOver
<1>. QED  BY <1>1, <1>3 DEF IInv, ReadStatus

LEMMA BuildStep ==
    ASSUME IInv, NEW b \in Builder, Build(b)
    PROVE  IInv'
<1>. DEFINE content == IF Validated(b) = "ok" THEN data[b] ELSE DefaultInstance
<1>1. /\ status' \in [Builder -> Status] /\ status'[b] = Validated(b)
      /\ \A c \in Builder : BuilderOK(c)'
  BY ValidatedStep DEF Build
<1>2. returned' = Result(b, "Build", Validated(b), content)
  BY <1>1 DEF Build
<1>3. content \in Content /\ Validated(b) \in Status
  BY DefaultIsContent, ValidatedOK DEF IInv
<1>4. ReturnedOK' /\ ConsumeStartsOver'
  BY <1>2, <1>3 DEF Result, ReturnedOK, ConsumeStartsOver
<1>5. BuiltIsValid'
  BY <1>2, ValidatedOK DEF Build, Result, BuiltIsValid, Valid, UseValidator
<1>. QED  BY <1>1, <1>4, <1>5 DEF IInv, Build

LEMMA ConsumeStep ==
    ASSUME IInv, NEW b \in Builder, Consume(b)
    PROVE  IInv'
<1>. DEFINE content == IF Validated(b) = "ok" THEN data[b] ELSE DefaultInstance
<1>1. /\ UNCHANGED options
      /\ returned' = Result(b, "Consume", Validated(b), content)
      /\ data' = [data EXCEPT ![b] = DefaultInstance]
      /\ status' = [status EXCEPT ![b] = "ok"]
  BY DEF Consume, MovedFrom
\* Without an error the flag is set, and no error outstanding, to begin with.
<1>2. raw' = [raw EXCEPT ![b] = TRUE] /\ owed' = [owed EXCEPT ![b] = FALSE]
  <2>1. CASE Validated(b) = "ok"
    <3>1. UNCHANGED <<raw, owed>>
      BY <2>1 DEF Consume
    <3>2. raw[b] = TRUE /\ owed[b] = FALSE
      BY <2>1, ValidatedOK DEF IInv
    <3>. QED  BY <3>1, <3>2 DEF IInv
  <2>2. CASE Validated(b) # "ok"
    BY <2>2 DEF Consume
  <2>. QED  BY <2>1, <2>2
<1>3. /\ status' \in [Builder -> Status]
      /\ raw' \in [Builder -> BOOLEAN]
      /\ owed' \in [Builder -> BOOLEAN]
      /\ \A c \in Builder : BuilderOK(c)'
  BY <1>1, <1>2, OneBuilderStep DEF Status
<1>4. content \in Content /\ Validated(b) \in Status
  BY DefaultIsContent, ValidatedOK DEF IInv
<1>5. data' \in [Builder -> Content] /\ data'[b] = DefaultInstance
  BY <1>1, DefaultIsContent DEF IInv
<1>6. status'[b] = "ok" /\ raw'[b] /\ ~ owed'[b]
  BY <1>1, <1>2 DEF IInv
<1>7. ReturnedOK'
  BY <1>1, <1>4 DEF Result, ReturnedOK
<1>8. BuiltIsValid'
  <2>1. Validated(b) = "ok" /\ UseValidator(b)' =>
            \A q \in Fields[b] : content[q] \in ValidIn
    BY <1>1, ValidatedOK DEF Valid, UseValidator
  <2>. QED  BY <1>1, <1>6, <2>1 DEF Result, BuiltIsValid
<1>9. ConsumeStartsOver'
  BY <1>1, <1>5, <1>6 DEF Result, ConsumeStartsOver
<1>. QED  BY <1>1, <1>3, <1>5, <1>7, <1>8, <1>9 DEF IInv

LEMMA IInvStep == IInv /\ [Next]_vars => IInv'
<1>. SUFFICES ASSUME IInv, [Next]_vars PROVE IInv'
  OBVIOUS
<1>1. CASE Next
  BY <1>1, SetStep, SetRejectedStep, SetFromBuilderStep, SetFromConversionStep,
     CallUpdateStatusStep, CallMaybeGetRawDataStep, ReadStatusStep, BuildStep, ConsumeStep
     DEF Next
<1>2. CASE UNCHANGED vars
  BY <1>2 DEF vars, IInv, BuilderOK, UseStatus, UseValidator, ReturnedOK, BuiltIsValid,
              ConsumeStartsOver
<1>. QED  BY <1>1, <1>2
-----------------------------------------------------------------------------
\* IInv is an invariant of the builders, whatever calls their callers make
\* (default.h.tpl, default.cc.tpl).
THEOREM Invariance == Spec => []IInv
BY IInvInit, IInvStep, PTL DEF Spec

\* Status, flag and result keep their types; builders generated without a status
\* or a validator never come to have an error, or an error of validation.
THEOREM TypeCorrect == Spec => []TypeOK
BY Invariance, IInvImplies, PTL

\* The flag that decides whether MaybeGetRawData passes the data or the error on
\* tells errors of validation from reported ones.
THEOREM RawDataTellsErrorsCorrect == Spec => []RawDataTellsErrors
BY Invariance, IInvImplies, PTL

\* Errors that are reported to a builder stay until they are cleared or consumed.
THEOREM ErrorsKeptCorrect == Spec => []ErrorsKept
BY Invariance, IInvImplies, PTL

\* Build and Consume hand out nothing but valid messages of builders without an
\* error.
THEOREM BuiltIsValidCorrect == Spec => []BuiltIsValid
<1>1. IInv => BuiltIsValid
  BY DEF IInv
<1>. QED  BY <1>1, Invariance, PTL

\* Consume leaves a builder behind that is as good as new.
THEOREM ConsumeStartsOverCorrect == Spec => []ConsumeStartsOver
<1>1. IInv => ConsumeStartsOver
  BY DEF IInv
<1>. QED  BY <1>1, Invariance, PTL
-----------------------------------------------------------------------------
\* The latest result of ok(), status() or Build is the one that ValidateData
\* comes to again, as neither data nor status has changed since.
ReadIsCurrent ==
    returned # Nothing /\ returned.call \in {"status", "Build"} =>
        returned.builder \in Builder /\ returned.status = Validated(returned.builder)

\* ValidateData is idempotent.
LEMMA ValidatedAgain ==
    ASSUME IInv, NEW b \in Builder, UNCHANGED <<options, data>>,
           status' = [status EXCEPT ![b] = Validated(b)]
    PROVE  Validated(b)' = status'[b] /\ status'[b] = Validated(b)
<1>1. status'[b] = Validated(b)
  BY DEF IInv
<1>. QED  BY <1>1 DEF Validated, Valid, UseValidator

LEMMA ReadIsCurrentStep == IInv /\ ReadIsCurrent /\ [Next]_vars => ReadIsCurrent'
<1>. SUFFICES ASSUME IInv, ReadIsCurrent, [Next]_vars PROVE ReadIsCurrent'
  OBVIOUS
<1>1. ASSUME returned' = Nothing PROVE ReadIsCurrent'
  BY <1>1 DEF ReadIsCurrent
<1>2. ASSUME NEW b \in Builder, NEW q \in Path, NEW v \in Value,
             Set(b, q, v) \/ SetRejected(b, q, v)
      PROVE  ReadIsCurrent'
  BY <1>1, <1>2 DEF Set, SetRejected
<1>3. ASSUME NEW b \in Builder, NEW c \in Builder,
             SetFromBuilder(b, c) \/ SetFromConversion(b, c)
      PROVE  ReadIsCurrent'
  BY <1>1, <1>3 DEF SetFromBuilder, SetFromConversion
<1>4. ASSUME NEW b \in Builder, NEW s \in {"ok", "reported"}, CallUpdateStatus(b, s)
      PROVE  ReadIsCurrent'
  BY <1>1, <1>4 DEF CallUpdateStatus
<1>5. ASSUME NEW b \in Builder, CallMaybeGetRawData(b) PROVE ReadIsCurrent'
  BY <1>5 DEF CallMaybeGetRawData, MaybeGetRawData, Result, ReadIsCurrent
<1>6. ASSUME NEW b \in Builder, ReadStatus(b) PROVE ReadIsCurrent'
  BY <1>6, ValidatedAgain DEF ReadStatus, Result, ReadIsCurrent
<1>7. ASSUME NEW b \in Builder, Build(b) PROVE ReadIsCurrent'
  BY <1>7, ValidatedAgain DEF Build, Result, ReadIsCurrent
<1>8. ASSUME NEW b \in Builder, Consume(b) PROVE ReadIsCurrent'
  BY <1>8 DEF Consume, Result, ReadIsCurrent
<1>9. CASE UNCHANGED vars
  BY <1>9 DEF vars, ReadIsCurrent, Validated, Valid, UseValidator
<1>. QED  BY <1>2, <1>3, <1>4, <1>5, <1>6, <1>7, <1>8, <1>9 DEF Next

\* A read that follows a read of the same builder agrees with it.
THEOREM ReadsAgreeCorrect == Spec => ReadsAgree
<1>. DEFINE Agree == \A b \in Builder :
          /\ ReadStatus(b) \/ Build(b) \/ Consume(b)
          /\ returned # Nothing /\ returned.builder = b
          /\ returned.call \in {"status", "Build"}
          => returned'.status = returned.status
<1>1. Init => ReadIsCurrent
  BY DEF Init, ReadIsCurrent
<1>2. IInv /\ ReadIsCurrent => Agree
  <2>. SUFFICES ASSUME IInv, ReadIsCurrent, NEW b \in Builder,
                       ReadStatus(b) \/ Build(b) \/ Consume(b),
                       returned # Nothing, returned.builder = b,
                       returned.call \in {"status", "Build"}
                PROVE  returned'.status = Validated(b)
    BY DEF ReadIsCurrent
  <2>1. CASE ReadStatus(b) \/ Build(b)
    BY <2>1, ValidatedAgain DEF ReadStatus, Build, Result
  <2>2. CASE Consume(b)
    BY <2>2 DEF Consume, Result
  <2>. QED  BY <2>1, <2>2
<1>3. IInv /\ ReadIsCurrent => [Agree]_vars
  BY <1>2
<1>. QED  BY <1>1, <1>3, Invariance, ReadIsCurrentStep, PTL DEF Spec, ReadsAgree
-----------------------------------------------------------------------------
\* What a caller does to change the error of b: report or clear one, give b a
\* builder that has one, or take the message away.
ChangesError(b) ==
    \/ \E s \in {"ok", "reported"} : CallUpdateStatus(b, s)
    \/ \E c \in Builder : SetFromBuilder(b, c) /\ MaybeGetRawData(c).status # "ok"
    \/ Consume(b)

\* A builder with an error keeps that one unless its caller changes it.
ErrorStands ==
    \A b \in Builder : status[b] # "ok" /\ status'[b] # status[b] => ChangesError(b)

\* Of a builder with an error ValidateData keeps the error.
LEMMA ValidatedKeeps ==
    ASSUME IInv, NEW c \in Builder, status' = [status EXCEPT ![c] = Validated(c)],
           NEW b \in Builder, status[b] # "ok"
    PROVE  status'[b] = status[b]
BY DEF IInv, Validated

LEMMA ErrorStandsStep == IInv /\ [Next]_vars => ErrorStands
<1>. SUFFICES ASSUME IInv, [Next]_vars,
                     NEW b \in Builder, status[b] # "ok", status'[b] # status[b]
              PROVE  ChangesError(b)
  BY DEF ErrorStands
<1>1. ASSUME NEW d \in Builder, NEW q \in Path, NEW v \in Value,
             Set(d, q, v) \/ SetRejected(d, q, v)
      PROVE  FALSE
  BY <1>1 DEF Set, SetRejected, UpdateStatus, IInv
<1>2. ASSUME NEW d \in Builder, NEW c \in Builder, SetFromBuilder(d, c)
      PROVE  ChangesError(b)
  <2>1. MaybeGetRawData(c).status # "ok" /\ UpdateStatus(d, MaybeGetRawData(c).status)
    BY <1>2 DEF SetFromBuilder
  <2>2. d = b
    BY <2>1 DEF UpdateStatus, IInv
  <2>. QED  BY <1>2, <2>1, <2>2 DEF ChangesError
<1>3. ASSUME NEW d \in Builder, NEW c \in Builder, SetFromConversion(d, c)
      PROVE  FALSE
  BY <1>3, ValidatedKeeps DEF SetFromConversion
<1>4. ASSUME NEW d \in Builder, NEW s \in {"ok", "reported"}, CallUpdateStatus(d, s)
      PROVE  ChangesError(b)
  <2>1. d = b
    BY <1>4 DEF CallUpdateStatus, UpdateStatus, IInv
  <2>. QED  BY <1>4, <2>1 DEF ChangesError
<1>5. ASSUME NEW d \in Builder, CallMaybeGetRawData(d) \/ ReadStatus(d) \/ Build(d)
      PROVE  FALSE
  BY <1>5, ValidatedKeeps DEF CallMaybeGetRawData, ReadStatus, Build
<1>6. ASSUME NEW d \in Builder, Consume(d) PROVE ChangesError(b)
  <2>1. d = b
    BY <1>6 DEF Consume, IInv
  <2>. QED  BY <1>6, <2>1 DEF ChangesError
<1>7. CASE UNCHANGED vars
  BY <1>7 DEF vars
<1>. QED  BY <1>1, <1>2, <1>3, <1>4, <1>5, <1>6, <1>7 DEF Next

\* The status is a latch: setters, rejecting or not, conversions to messages, reads
\* and validation never replace an error or drop it; only UpdateStatus, an erroneous
\* builder given to a setter and Consume do (default.h.tpl, default.cc.tpl).
THEOREM ErrorIsLatched == Spec => [][ErrorStands]_vars
<1>1. IInv /\ [Next]_vars => [ErrorStands]_vars
  BY ErrorStandsStep
<1>. QED  BY <1>1, Invariance, PTL DEF Spec
=============================================================================
