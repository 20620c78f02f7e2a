----------------------------- MODULE MCRegistries -----------------------------
(* Instances of Registries: ids and names are model values; field definitions  *)
(* and payloads have values of every kind on, below and above the bounds.      *)
EXTENDS Registries, Integers, TLC

CONSTANTS
  p, s1, s2, s3, s4, n1, n2, v1, v2, f1, f2,
  admin, user, read, doc, env, prod, dark, ann, bob

\* Ann is among the first to get a rollout, Bob among the last.
MCBucket == [x \in Flags \X Users |-> IF x[2] = ann THEN 0 ELSE 99]

\* On, inside and outside the bounds.
MCRollouts == {-1, 0, 1, 50, 100, 101}

Value(kind, size) == [kind |-> kind, size |-> size]

MCValues ==
  {Value("NoneType", 0), Value("str", 1), Value("str", 2), Value("int", 1), Value("int", 2),
   Value("float", 2), Value("float", NaN), Value("bool", 1), Value("list", 2), Value("dict", 0)}

Plain(type) ==
  [type |-> type, required |-> TRUE, minLength |-> None, maxLength |-> None,
   minValue |-> None, maxValue |-> None, pattern |-> None, allowed |-> None]

MCFields ==
  {Plain("boolean"), Plain("object"), Plain("number"), Plain("integer"),
   [Plain("string") EXCEPT !.minLength = 2, !.allowed = {Value("str", 1)}],
   [Plain("string") EXCEPT !.pattern = {Value("str", 1)}, !.required = FALSE],
   [Plain("string") EXCEPT !.pattern = Malformed, !.minLength = 2],
   [Plain("array") EXCEPT !.maxLength = 1, !.maxValue = 2],
   [Plain("array") EXCEPT !.maxLength = 2, !.required = FALSE],
   [Plain("integer") EXCEPT !.maxValue = 1, !.allowed = {Value("bool", 1), Value("int", 2)}],
   [Plain("integer") EXCEPT !.maxValue = 2, !.required = FALSE],
   [Plain("number") EXCEPT !.minValue = 2, !.minLength = 5],
   [Plain("number") EXCEPT !.minValue = 1, !.maxValue = 2]}

\* Every choice of roles and actions, for all resources or for those named.
MCAskings ==
  [roles : SUBSET (Roles \cup {Star}), actions : SUBSET (Actions \cup {Star}),
   resources : SUBSET Resources]

RegistriesSymmetry == Permutations(FieldNames) \cup Permutations(Roles)
===============================================================================
