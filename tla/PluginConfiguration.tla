------------------------ MODULE PluginConfiguration ------------------------
(***************************************************************************)
(* The form a plugin asks the application to fill in before it opens a     *)
(* device (src/hal/device/configuration.rs): what a usable schema is, the  *)
(* empty form made from it, and the check of a filled one.                 *)
(*                                                                         *)
(* A text stands for all the texts that the same parameter kinds accept.   *)
(***************************************************************************)
EXTENDS Naturals, Sequences

CONSTANT Names   \* the names parameters and entries may have

Unset == "unset"   \* ROption::RNone
Text == {"", "true", "0", "7", "0.5", "inf", "word"}

(* validate_value: what str::parse and the list of choices accept. *)
Accepts(parameter, text) ==
    CASE parameter.kind = "string" -> TRUE
      [] parameter.kind = "boolean" -> text = "true"
      [] parameter.kind = "integer" -> text \in {"0", "7"}
      [] parameter.kind = "float" -> text \in {"0", "7", "0.5"}
      [] parameter.kind \in {"file", "directory"} -> text # ""
      [] parameter.kind = "enum" -> text \in parameter.choices

(* The checks stop at the first error: Err(i) is "ok" or that of item i. *)
FirstError(n, Err(_)) ==
    LET bad == {i \in 1..n : Err(i) # "ok"}
    IN  IF bad = {} THEN "ok" ELSE Err(CHOOSE i \in bad : \A j \in bad : i <= j)

Empty == [version |-> 1, parameters |-> <<>>]

(* PluginConfigurationSchema::parse, of a text that is a schema. *)
Mutant_Parse(schema) ==
    IF schema.version # 1 THEN "UnsupportedVersion"
    ELSE LET ps == schema.parameters
         IN  FirstError(Len(ps), LAMBDA i :
                 IF ps[i].name = "" \/ \E j \in 1..(i - 1) : ps[j].name = ps[i].name
                 THEN "DuplicateParameter" ELSE "ok")
Parse(schema) ==
    IF schema.version # 1 THEN "UnsupportedVersion"
    ELSE LET ps == schema.parameters
         IN  FirstError(Len(ps), LAMBDA i :
                 IF ps[i].name = "" \/ \E j \in 1..(i - 1) : ps[j].name = ps[i].name
                 THEN "DuplicateParameter"
                 ELSE IF ps[i].kind = "enum" /\ ps[i].choices = {}
                 THEN "InvalidSchema" ELSE "ok")

(* One unset entry for every parameter. *)
NewConfiguration(schema, serial) ==
    [serial |-> serial,
     values |-> [i \in 1..Len(schema.parameters) |->
                    [name |-> schema.parameters[i].name, value |-> Unset]]]

(* The first loop of validate: the entries in the order they were given. *)
EntryError(schema, entries, i) ==
    LET known == {p \in 1..Len(schema.parameters) :
                     schema.parameters[p].name = entries[i].name}
        parameter == schema.parameters[CHOOSE p \in known : \A q \in known : p <= q]
    IN  IF \E j \in 1..(i - 1) : entries[j].name = entries[i].name
        THEN "DuplicateValue"
        ELSE IF known = {} THEN "UnknownParameter"
        ELSE IF entries[i].value = Unset
        THEN IF parameter.required THEN "MissingRequired" ELSE "ok"
        ELSE IF Accepts(parameter, entries[i].value) THEN "ok" ELSE "InvalidValue"

(* The second: parameters for which no entry was given at all. *)
Given(entries, name) ==
    \E j \in 1..Len(entries) : entries[j].name = name /\ entries[j].value # Unset
ParameterError(schema, entries, i) ==
    IF schema.parameters[i].required /\ ~Given(entries, schema.parameters[i].name)
    THEN "MissingRequired" ELSE "ok"

Mutant_Validate(schema, configuration) ==
    LET entries == configuration.values
    IN  FirstError(Len(entries), LAMBDA i : EntryError(schema, entries, i))
Validate(schema, configuration) ==
    LET entries == configuration.values
        first == FirstError(Len(entries), LAMBDA i : EntryError(schema, entries, i))
    IN  IF first # "ok" THEN first
        ELSE FirstError(Len(schema.parameters),
                        LAMBDA i : ParameterError(schema, entries, i))

-----------------------------------------------------------------------------
(* What the checks are for, said without an order: the entries are a       *)
(* partial assignment of acceptable texts to the parameters, defined on    *)
(* the required ones.                                                      *)
Fits(schema, entries) ==
    /\ \A i, j \in 1..Len(entries) : entries[i].name = entries[j].name => i = j
    /\ \A e \in {entries[i] : i \in 1..Len(entries)} :
          \E p \in {schema.parameters[k] : k \in 1..Len(schema.parameters)} :
             p.name = e.name /\ (e.value = Unset \/ Accepts(p, e.value))
    /\ \A p \in {schema.parameters[k] : k \in 1..Len(schema.parameters)} :
          p.required => \E i \in 1..Len(entries) :
                            entries[i].name = p.name /\ entries[i].value # Unset

(* Schemas that serde_json reads, and the entries of a form; no check has  *)
(* been made of either.                                                    *)
Kinds == {"string", "boolean", "integer", "float", "file", "directory", "enum"}
SchemaParameters == Seq([name : Names, kind : Kinds, required : BOOLEAN, choices : SUBSET Text])
AnySchema == [version : Nat, parameters : SchemaParameters]
Entries == Seq([name : Names, value : Text \union {Unset}])

(* Some way to fill the form in is accepted. *)
Fillable(schema) ==
    \A p \in {schema.parameters[k] : k \in 1..Len(schema.parameters)} :
       p.required => \E t \in Text : Accepts(p, t)
=============================================================================
