------------------------------ MODULE ValueEdge ------------------------------
(***************************************************************************)
(* Values on their way through a service: the ISO codes, money and         *)
(* localized text of br-core-values, the inputs, outputs and errors of the *)
(* GraphQL and REST edge (br-util-graphql).  A value comes in from a       *)
(* client or from a stored document, is edited, stored and shown.          *)
(*                                                                         *)
(* A text is a sequence of characters, Space any white space; the wire     *)
(* form of a locale is atomic.  A product gives its locales two of them,   *)
(* serde's for its documents and LocaleCodec's for its clients, and no     *)
(* code here compares the two.                                             *)
(***************************************************************************)
EXTENDS Integers, Sequences, FiniteSets, SequencesExt, FiniteSetsExt

CONSTANTS
  Space,
  Products,     \* a product's locales: [locales, writes, reads] by serde, [as_wire, from_wire]
  Lowercase,    \* wire forms of lower-case letters only
  Upper,        \* to_uppercase of the characters that change, which may be several characters
  Letters,      \* A to Z
  Currencies, Countries,
  MinAmount, MaxAmount,  \* i64
  Inputs,       \* what clients send: [kind, ...] of money and localized text
  Documents,    \* what other releases have stored
  Edits         \* texts for a translation

VARIABLES
  product,
  stage,    \* idle, held, refused, answered
  value,    \* none or one value in the service's hands
  stored,   \* none or one document: what it had in its hands before
  shown,    \* none or one output of a query
  refusal,  \* none or one GqlValueError
  answers   \* none or one answer: what either edge says, with what was logged

vars == <<product, stage, value, stored, shown, refusal, answers>>

Ok(it) == [ok |-> TRUE, is |-> it]
Err(error) == [ok |-> FALSE, is |-> error]

-----------------------------------------------------------------------------
(* Errors of the values *)

\* ValueError: the value and the expected length where the code has them.
ValueError(code, of, len) == [code |-> code, value |-> of, len |-> len]
Malformed(raw, len) == ValueError("malformed_code", raw, len)
Unknown(code, of) == ValueError(code, of, 0)
Bare(code) == ValueError(code, <<>>, 0)

WithValue == {"malformed_code", "unknown_currency", "unknown_country", "locale_unknown"}
KnownCodes == WithValue \cup {"localized_empty", "localized_primary_missing",
                              "localized_duplicate_locale"}

Field(key, is) == [key |-> key, is |-> is]

\* Serialize for ValueError
ErrorToWire(e) ==
  <<Field("code", e.code)>>
    \o (IF e.code \in WithValue THEN <<Field("value", e.value)>> ELSE <<>>)
    \o (IF e.code = "malformed_code" THEN <<Field("expected_len", e.len)>> ELSE <<>>)

\* ValueErrorVisitor::visit_map: the error, none for a code that is not known, a known field that
\* is missing or there twice.
ErrorFromWire(fields) ==
  LET at(key) == {n \in DOMAIN fields : fields[n].key = key}
      one(key) == fields[CHOOSE n \in at(key) : TRUE].is IN
  IF \/ \E key \in {"code", "value", "expected_len"} : Cardinality(at(key)) > 1
     \/ at("code") = {} THEN {}
  ELSE IF \/ one("code") \notin KnownCodes
          \/ one("code") \in WithValue /\ at("value") = {}
          \/ one("code") = "malformed_code" /\ at("expected_len") = {} THEN {}
  ELSE {ValueError(one("code"), IF one("code") \in WithValue THEN one("value") ELSE <<>>,
                   IF one("code") = "malformed_code" THEN one("expected_len") ELSE 0)}

-----------------------------------------------------------------------------
(* Codes and money *)

\* str::trim
Trim(text) ==
  LET kept == {n \in DOMAIN text : text[n] # Space} IN
  IF kept = {} THEN <<>> ELSE SubSeq(text, Min(kept), Max(kept))

\* normalize_alpha_code: the length is that of the upper-case text.
Normalize(raw, len) ==
  LET trimmed == Trim(raw)
      upper == FlattenSeq([n \in DOMAIN trimmed |-> IF trimmed[n] \in DOMAIN Upper
                                                      THEN Upper[trimmed[n]] ELSE <<trimmed[n]>>]) IN
  IF Len(upper) = len /\ ToSet(upper) \subseteq Letters THEN Ok(upper) ELSE Err(Malformed(raw, len))

CodeOf(raw, len, known, unknown) ==
  LET upper == Normalize(raw, len) IN
  IF ~upper.ok \/ upper.is \in known THEN upper ELSE Err(Unknown(unknown, upper.is))

\* Currency::new, CountryCode::new
Currency(raw) == CodeOf(raw, 3, Currencies, "unknown_currency")
CountryCode(raw) == CodeOf(raw, 2, Countries, "unknown_country")

Money(amount, currency) == [kind |-> "money", amount |-> amount, currency |-> currency]

-----------------------------------------------------------------------------
(* Locales *)

\* StringCapture: a string, a unit variant, or a newtype of one; nothing else is a string.
Captured(shape) ==
  IF shape.is \in {"str", "unit_variant", "newtype_struct"} THEN {shape.text} ELSE {}

\* What serde writes of each locale, where that is a string
SerdeForms(p) == [locale \in p.locales |-> CHOOSE text \in Captured(p.writes[locale]) : TRUE]

\* mutant: it is not asked whether the lower-case form reads back
ConformsHalf(p) ==
  \A locale \in p.locales : \E text \in Captured(p.writes[locale]) : text \in Lowercase

\* assert_lowercase_roundtrip, which a product runs on its locales: serde writes each as a
\* lower-case string that it reads back.  The codec is not asked.
Conforms(p) ==
  \A locale \in p.locales : \E text \in Captured(p.writes[locale]) :
    text \in Lowercase /\ text \in DOMAIN p.reads /\ p.reads[text] = locale

\* LocaleCodec::parse_wire, of texts that from_wire knows.  A locale's Deserialize is read alike: of
\* its error it only matters that there is one.
ParseWire(known, text) ==
  IF text \in DOMAIN known THEN Ok(known[text]) ELSE Err(Unknown("locale_unknown", text))

-----------------------------------------------------------------------------
(* Localized text *)

Localized(primary, entries) == [kind |-> "localized", primary |-> primary, entries |-> entries]
Entry(locale, content) == [locale |-> locale, content |-> content]

\* mutant: two wire forms of one locale are two locales
FromPartsDuplicated(primary, entries) ==
  IF entries = <<>> THEN Err(Bare("localized_empty"))
  ELSE IF \A n \in DOMAIN entries : entries[n].locale # primary
    THEN Err(Bare("localized_primary_missing"))
  ELSE Ok(Localized(primary, [n \in DOMAIN entries |-> [entries[n] EXCEPT !.content = Trim(@)]]))

\* Localized::from_parts
FromParts(primary, entries) ==
  IF entries = <<>> THEN Err(Bare("localized_empty"))
  ELSE IF \E n \in DOMAIN entries, m \in DOMAIN entries :
            n # m /\ entries[n].locale = entries[m].locale
    THEN Err(Bare("localized_duplicate_locale"))
  ELSE IF \A n \in DOMAIN entries : entries[n].locale # primary
    THEN Err(Bare("localized_primary_missing"))
  ELSE Ok(Localized(primary, [n \in DOMAIN entries |-> [entries[n] EXCEPT !.content = Trim(@)]]))

\* Localized::set: the entry of the locale is replaced, or one is added behind the others.
SetEntry(v, locale, content) ==
  IF \E n \in DOMAIN v.entries : v.entries[n].locale = locale
    THEN [v EXCEPT !.entries = [n \in DOMAIN @ |-> IF @[n].locale = locale
                                                    THEN Entry(locale, Trim(content)) ELSE @[n]]]
    ELSE [v EXCEPT !.entries = Append(@, Entry(locale, Trim(content)))]

\* Locales of an input or a document, the primary first: the first that is not known decides.
ReadLocalized(known, primary, entries) ==
  LET read == <<ParseWire(known, primary)>>
                \o [n \in DOMAIN entries |-> ParseWire(known, entries[n].locale)]
      bad == {n \in DOMAIN read : ~read[n].ok} IN
  IF bad # {} THEN read[Min(bad)]
  ELSE FromParts(read[1].is, [n \in DOMAIN entries |-> Entry(read[n + 1].is, entries[n].content)])

\* Localized with its locales written, by serde or by as_wire (GqlLocalized::from_localized).
Written(wire, v) ==
  [kind |-> "localized", primary |-> wire[v.primary],
   entries |-> [n \in DOMAIN v.entries |-> Entry(wire[v.entries[n].locale], v.entries[n].content)]]

-----------------------------------------------------------------------------
(* Documents, inputs and outputs *)

\* Serialize: a body says its format (LocalizedContent), money and codes are as they are.
Serialized(v) ==
  CASE v.kind = "localized" -> [kind |-> "localized", body |-> Written(SerdeForms(product), v)]
    [] v.kind = "content" ->
         [kind |-> "content", format |-> v.format, body |-> Written(SerdeForms(product), v.body)]
    [] OTHER -> v

\* Deserialize runs the constructors again.  A body without a format is no LocalizedContent: it is
\* read as text and lifted (From<LocalizedMd>).
Deserialized(doc) ==
  CASE doc.kind \in {"localized", "content"} ->
         LET body == ReadLocalized(product.reads, doc.body.primary, doc.body.entries) IN
         IF ~body.ok \/ doc.kind = "localized" THEN body
         ELSE Ok([kind |-> "content", format |-> doc.format, body |-> body.is])
    [] doc.kind = "money" ->
         LET currency == Currency(doc.currency) IN
         IF currency.ok THEN Ok(Money(doc.amount, currency.is)) ELSE currency
    [] doc.kind = "country" ->
         LET code == CountryCode(doc.code) IN
         IF code.ok THEN Ok([kind |-> "country", code |-> code.is]) ELSE code

\* MoneyAmount::parse of a decimal string; other types do not get this far, and what is no number
\* fares as one beyond i64.
Amount(text) ==
  IF text \in MinAmount..MaxAmount THEN Ok(text)
  ELSE Err([is |-> "MoneyOutOfRange", source |-> Unknown("money_out_of_range", text)])

\* map_localized_error, and map_err of TryFrom<GqlMoneyInput>
GqlValueError(e) ==
  [is |-> CASE e.code = "locale_unknown" -> "LocaleUnknown"
            [] e.code = "localized_primary_missing" -> "PrimaryContentMissing"
            [] OTHER -> "ValueRejected",
   source |-> e]

Refused(result) == IF result.ok THEN result ELSE Err(GqlValueError(result.is))

\* GqlLocalizedInput::into_localized; Money of a GqlMoneyInput, whose amount is an i64 already.
FromInput(input) ==
  IF input.kind = "localized"
    THEN Refused(ReadLocalized(product.from_wire, input.primary, input.entries))
  ELSE LET currency == Refused(Currency(input.currency)) IN
       IF currency.ok THEN Ok(Money(input.amount, currency.is)) ELSE currency

\* GqlMoney, GqlLocalized: the form that an input would have.
Output(v) ==
  CASE v.kind = "localized" -> Written(product.as_wire, v)
    [] v.kind = "content" -> Written(product.as_wire, v.body)
    [] OTHER -> v

-----------------------------------------------------------------------------
(* Errors at the edge *)

\* GqlValueError::reason_code
ReasonCode(e) ==
  CASE e.is = "LocaleUnknown" -> "locale_unknown"
    [] e.is = "MoneyOutOfRange" -> "money_out_of_range"
    [] e.is = "PrimaryContentMissing" -> "primary_content_missing"
    [] e.is = "ValueRejected" -> e.source.code

EdgeError(code, reason, params, detail) ==
  [code |-> code, reason |-> reason, params |-> params, detail |-> detail]

\* From<GqlValueError> for EdgeError: a rejected value is named by its code.  An amount out of range
\* has its arm too, but no conversion makes one: its scalar has refused it before.
EdgeOf(e) ==
  EdgeError("BAD_USER_INPUT", {ReasonCode(e)},
            CASE e.is = "LocaleUnknown" -> <<Field("value", e.source.value)>>
              [] e.is = "MoneyOutOfRange" -> <<Field("amount", e.source.value)>>
              [] e.is = "PrimaryContentMissing" -> <<>>
              [] e.is = "ValueRejected" -> <<Field("value", e.source.code)>>, {})

HttpStatus == [UNAUTHENTICATED |-> 401, FORBIDDEN |-> 403, NOT_FOUND |-> 404, CONFLICT |-> 409,
               BAD_USER_INPUT |-> 400, INVALID_STATE |-> 422, INTERNAL |-> 500]

\* EdgeError::into_gql: its message is the code, the rest are extensions.
IntoGql(e) ==
  [message |-> e.code, extensions |-> {[code |-> e.code, reason |-> e.reason, params |-> e.params]}]

\* InputValueError::custom: the scalar's refusal is a message and nothing else.
ScalarRefusal(e) == [message |-> ReasonCode(e), extensions |-> {}]

\* mutant: the detail goes out as a parameter
IntoResponseTalks(e) ==
  [status |-> HttpStatus[e.code],
   error |-> [code |-> e.code, reason |-> e.reason, params |-> e.params \o SetToSeq(e.detail)]]

\* IntoResponse for EdgeError
IntoResponse(e) ==
  [status |-> HttpStatus[e.code],
   error |-> [code |-> e.code, reason |-> e.reason, params |-> e.params]]

-----------------------------------------------------------------------------
(* The service *)

Init ==
  /\ product \in {p \in Products : Conforms(p)}
  /\ stage = "idle"
  /\ value = {} /\ stored = {} /\ shown = {} /\ refusal = {} /\ answers = {}

\* The amount of money is parsed before a resolver sees its input.
Parses(input) == input.kind = "money" => Amount(input.amount).ok

Receive(input) ==
  /\ stage = "idle" /\ stored = {}
  /\ Parses(input)
  /\ LET result == FromInput(input) IN
     IF result.ok THEN stage' = "held" /\ value' = {result.is} /\ UNCHANGED refusal
                  ELSE stage' = "refused" /\ refusal' = {result.is} /\ UNCHANGED value
  /\ UNCHANGED <<product, stored, shown, answers>>

\* A document that does not read is no value: the service has what it had.
Load(doc) ==
  /\ stage = "idle" /\ stored \subseteq {doc}
  /\ LET result == Deserialized(doc) IN
     /\ result.ok
     /\ value' = {result.is}
  /\ stage' = "held" /\ stored' = {}
  /\ UNCHANGED <<product, shown, refusal, answers>>

Translate(locale, content) ==
  /\ stage = "held"
  /\ \E v \in value : v.kind = "localized" /\ value' = {SetEntry(v, locale, content)}
  /\ UNCHANGED <<product, stage, stored, shown, refusal, answers>>

\* LocalizedContent::md, html
Wrap(format) ==
  /\ stage = "held"
  /\ \E v \in value : v.kind = "localized" /\ value' = {[kind |-> "content", format |-> format, body |-> v]}
  /\ UNCHANGED <<product, stage, stored, shown, refusal, answers>>

\* The value is stored, and is another process's to load.
Persist ==
  /\ stage = "held"
  /\ stored' = {Serialized(v) : v \in value}
  /\ stage' = "idle" /\ value' = {}
  /\ UNCHANGED <<product, shown, refusal, answers>>

Query ==
  /\ stage = "held"
  /\ shown' = {Output(v) : v \in value}
  /\ stage' = "answered"
  /\ UNCHANGED <<product, value, stored, refusal, answers>>

\* An EdgeError, as a resolver or a handler returns it.
Answer(edge) ==
  /\ stage' = "answered"
  /\ answers' = {[gql |-> IntoGql(edge), rest |-> {IntoResponse(edge)},
                  logged |-> IF edge.code = "INTERNAL" THEN edge.detail ELSE {}]}
  /\ UNCHANGED <<product, value, stored, shown, refusal>>

\* An amount that does not parse is answered by async-graphql, and there is no such input of REST.
RefuseAmount(input) ==
  /\ stage = "idle" /\ stored = {}
  /\ ~Parses(input)
  /\ stage' = "answered"
  /\ answers' = {[gql |-> ScalarRefusal(Amount(input.amount).is), rest |-> {}, logged |-> {}]}
  /\ UNCHANGED <<product, value, stored, shown, refusal>>

\* The refusal of an input that parsed.
Reject == stage = "refused" /\ \E e \in refusal : Answer(EdgeOf(e))

\* What the domain makes of a request: a fault (EdgeError::internal), or a rule that it breaks.
Fail ==
  /\ stage = "held"
  /\ \/ Answer(EdgeError("INTERNAL", {}, <<>>, {Field("detail", "sql")}))
     \/ \E code \in DOMAIN HttpStatus \ {"INTERNAL"} : Answer(EdgeError(code, {"rule"}, <<>>, {}))

Next ==
  \/ \E input \in Inputs : Receive(input) \/ RefuseAmount(input)
  \/ \E doc \in Documents \cup stored : Load(doc)
  \/ \E locale \in product.locales, content \in Edits : Translate(locale, content)
  \/ \E format \in {"md", "html"} : Wrap(format)
  \/ Persist \/ Query \/ Reject \/ Fail

Spec == Init /\ [][Next]_vars

-----------------------------------------------------------------------------
(* Properties *)

TypeOK ==
  /\ product \in Products
  /\ stage \in {"idle", "held", "refused", "answered"}
  /\ \A n \in 1..5 : Cardinality(<<value, stored, shown, refusal, answers>>[n]) <= 1
  /\ stage = "held" => value # {} /\ stored = {}

WellFormed(v) ==
  CASE v.kind = "money" -> v.amount \in MinAmount..MaxAmount /\ v.currency \in Currencies
    [] v.kind = "country" -> v.code \in Countries
    [] v.kind = "content" -> v.body.kind = "localized"
    [] v.kind = "localized" ->
         /\ Cardinality({n \in DOMAIN v.entries : v.entries[n].locale = v.primary}) = 1
         /\ Cardinality({v.entries[n].locale : n \in DOMAIN v.entries}) = Len(v.entries)
         /\ \A n \in DOMAIN v.entries : Trim(v.entries[n].content) = v.entries[n].content

\* A product's codec reads what it writes: README.md:126-148 of br-core-values asks for one mapping in
\* both directions, and nothing checks it.
CodecReturns(p) ==
  \A locale \in p.locales :
    p.as_wire[locale] \in DOMAIN p.from_wire /\ p.from_wire[p.as_wire[locale]] = locale

\* README.md:47-66 and :170-179 of br-core-values: whatever was received, loaded and edited, the
\* value is well formed and it comes back from its document as it is; and what a query shows of it is
\* an input that yields it again, of money always, of text where the codec reads what it writes.
ValuesSurvive ==
  \A v \in value :
    /\ WellFormed(v)
    /\ v.kind = "content" => WellFormed(v.body)
    /\ Deserialized(Serialized(v)) = Ok(v)
    /\ v.kind = "money" => Parses(Output(v)) /\ FromInput(Output(v)) = Ok(v)
    /\ v.kind = "localized" /\ CodecReturns(product) => FromInput(Output(v)) = Ok(v)

\* README.md:50-58 and :164-172 of br-util-graphql: both edges tell a client the same and never the
\* detail of a fault, which is logged; and where there is no structure to tell it in, the message
\* holds the one reason that has none.
Honest(a) ==
  /\ {response.error : response \in a.rest} = a.gql.extensions
  /\ a.gql.extensions = {} => a.gql.message = "money_out_of_range"
  /\ \A said \in a.gql.extensions :
       said.code = "INTERNAL" => a.logged # {} /\ said.params = <<>>

\* README.md:136-139 of br-util-graphql: the offending value goes out as a parameter.
Offending(e) == IF e.source.code \in WithValue THEN <<Field("value", e.source.value)>> ELSE <<>>

\* Where the code disagrees with that, and there only: of a rejected value the parameter is the
\* reason once more (values/error.rs:40), so an unknown currency is not named, and where there is no
\* value at all there is a parameter all the same.
Tells(e, a) ==
  a.gql.extensions =
    {[code |-> "BAD_USER_INPUT", reason |-> {ReasonCode(e)},
      params |-> IF e.is = "ValueRejected" THEN <<Field("value", ReasonCode(e))>> ELSE Offending(e)]}

\* A refusal is told as it should be, survives its own wire, and an unknown locale is one that the
\* product's clients cannot write.
RefusalsTell ==
  /\ \A a \in answers : Honest(a)
  /\ \A e \in refusal :
       /\ ErrorFromWire(ErrorToWire(e.source)) = {e.source}
       /\ ReasonCode(e) \in KnownCodes \cup {"primary_content_missing"}
       /\ e.is = "LocaleUnknown" => e.source.value \notin DOMAIN product.from_wire
       /\ \A a \in answers : Tells(e, a)

ValuesHold == ValuesSurvive /\ RefusalsTell

-----------------------------------------------------------------------------
(* The inductive invariant *)

\* Localized text of a product, as the constructors leave it
IsText(p, v) ==
  /\ v.kind = "localized" /\ v = Localized(v.primary, v.entries)
  /\ v.entries \in Seq([locale : p.locales, content : Seq(STRING)])
  /\ \E n \in DOMAIN v.entries : v.entries[n].locale = v.primary
  /\ \A n, m \in DOMAIN v.entries : v.entries[n].locale = v.entries[m].locale => n = m
  /\ \A n \in DOMAIN v.entries : Trim(v.entries[n].content) = v.entries[n].content

IsValue(p, v) ==
  \/ IsText(p, v)
  \/ /\ v.kind = "content" /\ v = [kind |-> "content", format |-> v.format, body |-> v.body]
     /\ IsText(p, v.body)
  \/ /\ v.kind = "money" /\ v = Money(v.amount, v.currency)
     /\ v.amount \in MinAmount..MaxAmount /\ v.currency \in Currencies
  \/ v.kind = "country" /\ v = [kind |-> "country", code |-> v.code] /\ v.code \in Countries

\* An error holds what its code has, and nothing else.
IsError(e) ==
  /\ e = ValueError(e.code, e.value, e.len) /\ e.code \in KnownCodes
  /\ e.code \notin WithValue => e.value = <<>>
  /\ e.code # "malformed_code" => e.len = 0

\* A locale that is unknown is not one of the codec's.
Unread(known, e) == e.code = "locale_unknown" => e.value \notin DOMAIN known

IsRefusal(p, e) ==
  IsError(e.source) /\ e = GqlValueError(e.source) /\ Unread(p.from_wire, e.source)

AtMostOne(held) == \A this, that \in held : this = that

\* What is held, stored or refused was made by the constructors.
Inv ==
  /\ product \in Products /\ Conforms(product)
  /\ stage \in {"idle", "held", "refused", "answered"}
  /\ AtMostOne(value) /\ AtMostOne(stored) /\ AtMostOne(shown) /\ AtMostOne(refusal) /\ AtMostOne(answers)
  /\ stage = "held" => value # {} /\ stored = {}
  /\ \A v \in value : IsValue(product, v)
  /\ \A doc \in stored : Deserialized(doc).ok /\ IsValue(product, Deserialized(doc).is)
  /\ refusal # {} => stage \in {"refused", "answered"}
  /\ answers # {} => stage = "answered"
  /\ \A e \in refusal : IsRefusal(product, e)
  /\ \A a \in answers : Honest(a) /\ \A e \in refusal : Tells(e, a)

\* A product reads its wire forms as locales of its own.
IsProduct(p) ==
  /\ \A text \in DOMAIN p.reads : p.reads[text] \in p.locales
  /\ \A text \in DOMAIN p.from_wire : p.from_wire[text] \in p.locales

\* Localized text as a client sends it, or a document has it
AreEntries(entries) == entries \in Seq([locale : STRING, content : Seq(STRING)])

IsInput(input) ==
  input.kind = "money" \/ (input.kind = "localized" /\ AreEntries(input.entries))

\* An amount is an i64 before it is one of a document, or of a GqlMoneyInput.
IsDocument(doc) ==
  \/ doc.kind \in {"localized", "content"} /\ AreEntries(doc.body.entries)
  \/ doc.kind = "money" /\ doc.amount \in MinAmount..MaxAmount
  \/ doc.kind = "country"
=============================================================================
