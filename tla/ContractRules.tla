---------------------------- MODULE ContractRules -----------------------------
(* What ContractValidationEngine.validate, src/src/contracts.py, makes of a    *)
(* payload.  A value is its Python kind and its size: the length of a string   *)
(* or list, the value of a number.  A regex pattern is the set of the strings  *)
(* it matches, or one that re cannot compile; an error is its field and the    *)
(* rule that was broken, its wording is left out.  Which schema a name stands  *)
(* for is in Contracts.                                                        *)
EXTENDS Integers

CONSTANTS
  FieldNames,   \* declared or not
  Fields,       \* the field definitions that schemas are made of
  Values,       \* the values that payloads are made of
  StrictMode,   \* strict_mode, for the schemas that do not say
  None,         \* None: a bound, pattern, list of values or strictness not given
  Absent,       \* the field is not there
  Malformed,    \* a pattern that no regex is written like
  NaN           \* the size of the float nan, which compares with nothing

NoneValue == [kind |-> "NoneType", size |-> 0]

Kinds == {"str", "int", "float", "bool", "list", "dict"}

SupportedTypes == {"string", "integer", "number", "boolean", "array", "object"}

Field == [type : SupportedTypes, required : BOOLEAN,
          minLength : Int \cup {None}, maxLength : Int \cup {None},
          minValue : Int \cup {None}, maxValue : Int \cup {None},
          pattern : (SUBSET Values) \cup {None, Malformed},
          allowed : (SUBSET Values) \cup {None}]

\* What the constants are, assumed by the modules that use this one.
RulesAssumption ==
  /\ Fields \subseteq Field
  /\ NoneValue \in Values
  /\ Values \ {NoneValue} \subseteq [kind : Kinds, size : Int \cup {NaN}]
  /\ StrictMode \in BOOLEAN
  /\ {None, NaN} \cap Int = {} /\ None # {} /\ Malformed # None
  /\ \A strings \in SUBSET Values : Malformed # strings
  /\ Absent \notin Values \cup Fields

VARIABLES
  fields,    \* fields of the schema, Absent where it declares none
  strict,    \* strict of the schema
  payload,   \* the payload validated last, Absent where it has no such key
  errors     \* what validate said of it: pairs of a field name and a rule, or None
             \* when it has said nothing, or has raised

vars == <<fields, strict, payload, errors>>

Rules == {"missing", "type", "minimum", "maximum", "pattern", "allowed", "extraneous"}

-------------------------------------------------------------------------------
(* The rules for one field                                                     *)

\* Mutant: a bool passes for an int, as isinstance alone has it.
AcceptedWithBool(type) ==
  CASE type = "string"  -> {"str"}
    [] type = "integer" -> {"int", "bool"}
    [] type = "number"  -> {"int", "bool", "float"}
    [] type = "boolean" -> {"bool"}
    [] type = "array"   -> {"list"}
    [] type = "object"  -> {"dict"}

Accepted(type) ==
  CASE type = "string"  -> {"str"}
    [] type = "integer" -> {"int"}
    [] type = "number"  -> {"int", "float"}
    [] type = "boolean" -> {"bool"}
    [] type = "array"   -> {"list"}
    [] type = "object"  -> {"dict"}

Below(v, bound) == bound # None /\ v.size # NaN /\ v.size < bound

\* Mutant: any bound is taken for a lower one.
FallsShort(v, bound) == bound # None /\ v.size # NaN /\ v.size < bound

Exceeds(v, bound) == bound # None /\ v.size # NaN /\ v.size > bound

\* The bounds that the type heeds.
Lower(spec) ==
  CASE spec.type \in {"string", "array"}   -> spec.minLength
    [] spec.type \in {"integer", "number"} -> spec.minValue
    [] OTHER -> None

Upper(spec) ==
  CASE spec.type \in {"string", "array"}   -> spec.maxLength
    [] spec.type \in {"integer", "number"} -> spec.maxValue
    [] OTHER -> None

\* Mutant: a value is allowed only in the kind it is listed in.
SameKind(v, w) == v.size = w.size /\ v.kind = w.kind

\* What == makes of two values that are not both None: 1, 1.0 and True are equal.
Numeric == {"int", "float", "bool"}
Equal(v, w) == v.size = w.size /\ (v.kind = w.kind \/ {v.kind, w.kind} \subseteq Numeric)

\* The constraints, looked at only when the type is right.
Broken(spec, v) ==
  {r \in Rules :
     \/ r = "minimum" /\ Below(v, Lower(spec))
     \/ r = "maximum" /\ Exceeds(v, Upper(spec))
     \/ r = "pattern" /\ spec.type = "string" /\ spec.pattern # None /\ v \notin spec.pattern
     \/ r = "allowed" /\ spec.type \in {"string", "integer"}
                      /\ spec.allowed # None /\ \A w \in spec.allowed : ~Equal(v, w)}

Given(v) == v \notin {Absent, NoneValue}

FieldErrors(spec, v) ==
  CASE ~Given(v)                         -> IF spec.required THEN {"missing"} ELSE {}
    [] Given(v) /\ v.kind \notin Accepted(spec.type) -> {"type"}
    [] OTHER                             -> Broken(spec, v)

Extraneous(F, p) == {f \in FieldNames : F[f] = Absent /\ p[f] # Absent}

\* validate
Errors(F, isStrict, p) ==
  (UNION {{f} \X FieldErrors(F[f], p[f]) : f \in {g \in FieldNames : F[g] # Absent}})
    \cup (IF isStrict THEN Extraneous(F, p) \X {"extraneous"} ELSE {})

\* A pattern is compiled when a string is matched against it, not before.
Raises(F, p) ==
  \E f \in FieldNames :
    /\ F[f] # Absent /\ F[f].type = "string" /\ F[f].pattern = Malformed
    /\ Given(p[f]) /\ p[f].kind = "str"

Verdict(F, isStrict, p) == IF Raises(F, p) THEN None ELSE Errors(F, isStrict, p)

-------------------------------------------------------------------------------
Schemas == [FieldNames -> Fields \cup {Absent}]
Payloads == [FieldNames -> Values \cup {Absent}]

\* register_schema: strict given, or the default of the engine.
IsStrict(asked) == IF asked = None THEN StrictMode ELSE asked

\* A schema is registered and nothing is validated yet.
Init ==
  /\ fields \in Schemas
  /\ \E asked \in BOOLEAN \cup {None} : strict = IsStrict(asked)
  /\ payload = [f \in FieldNames |-> Absent]
  /\ errors = None

Validate(p) ==
  /\ payload' = p
  /\ errors' = Verdict(fields, strict, p)
  /\ UNCHANGED <<fields, strict>>

Next == \E p \in Payloads : Validate(p)

Spec == Init /\ [][Next]_vars

-------------------------------------------------------------------------------
TypeOK ==
  /\ fields \in Schemas
  /\ strict \in BOOLEAN
  /\ payload \in Payloads
  /\ errors \in (SUBSET (FieldNames \X Rules)) \cup {None}

(* What a field definition permits, read off its declaration: a set of values. *)
OfType(type) ==
  {v \in Values \ {NoneValue} :
     <<v.kind, type>> \in
       {<<"str", "string">>, <<"int", "integer">>, <<"int", "number">>, <<"float", "number">>,
        <<"bool", "boolean">>, <<"list", "array">>, <<"dict", "object">>}}

Within(low, high) ==
  {v \in Values \ {NoneValue} :
     v.size = NaN \/ ((low = None \/ low <= v.size) /\ (high = None \/ v.size <= high))}

Permitted(spec) ==
  {v \in OfType(spec.type) :
     /\ spec.type \in {"string", "array"} => v \in Within(spec.minLength, spec.maxLength)
     /\ spec.type \in {"integer", "number"} => v \in Within(spec.minValue, spec.maxValue)
     /\ (spec.type = "string" /\ spec.pattern \notin {None, Malformed}) => v \in spec.pattern
     /\ (spec.type = "string" /\ spec.allowed # None) => v \in spec.allowed
     /\ (spec.type = "integer" /\ spec.allowed # None)
          => v.size \in {w.size : w \in {x \in spec.allowed : x.kind \in Numeric}}}
  \cup (IF spec.required THEN {} ELSE {NoneValue, Absent})

\* validate, unless it raises, finds no error exactly in the payloads whose declared fields have
\* permitted values and that, if the schema is strict, have no others: the order of
\* its tests, null values, booleans (which are ints to isinstance) and values on a
\* bound do not change that.  A nan is within any bounds.
VerdictIsReference ==
  errors # None =>
    (errors = {} <=>
       \A f \in FieldNames :
         IF fields[f] = Absent
         THEN strict => payload[f] = Absent
         ELSE payload[f] \in Permitted(fields[f]))

\* A definition that asks for less: a number instead of an integer, wider bounds,
\* more matches, more allowed values, not required.
AsksForLess(t, s) ==
  /\ t.type = s.type \/ (t.type = "number" /\ s.type = "integer")
  /\ t.required => s.required
  /\ \A low \in {"minLength", "minValue"} : t[low] = None \/ (s[low] # None /\ t[low] <= s[low])
  /\ \A high \in {"maxLength", "maxValue"} : t[high] = None \/ (s[high] # None /\ t[high] >= s[high])
  /\ \A listing \in {"pattern", "allowed"} :
       t[listing] = None
         \/ ({s[listing], t[listing]} \cap {None, Malformed} = {} /\ s[listing] \subseteq t[listing])

\* A payload that validate accepts stays valid, and validate does not raise, when a
\* later version of the schema asks for less of a declared field.
RelaxedAccepts ==
  \A f \in FieldNames, t \in Fields :
    (errors = {} /\ fields[f] # Absent /\ AsksForLess(t, fields[f]))
      => Verdict([fields EXCEPT ![f] = t], strict, payload) = {}
===============================================================================
