------------------------------- MODULE UIRules -------------------------------
(***************************************************************************)
(* What the descriptor of a package's user interface must satisfy          *)
(* (runner/v1/ui.go), and how it must fit the configuration schema         *)
(* (decodeUIManifest of packagekit/loader.go). Of a schema's property the  *)
(* loader looks at its type and the list of its enum, which may be empty.  *)
(***************************************************************************)
EXTENDS RunnerABI, FiniteSets

CONSTANTS
    Length(_),          (* bytes of a text                                   *)
    Blank(_),           (* a text of white space only, or NoText             *)
    FieldKeys,          (* texts that uiFieldKeyPattern matches              *)
    UIFormat

(* What the JSON decoder gives of a schema's properties, and of a descriptor.*)
SchemaTyped(schema) ==
    /\ IsFiniteSet(DOMAIN schema)
    /\ \A key \in DOMAIN schema :
          LET enum == schema[key].enum IN DOMAIN enum = 1 .. Len(enum) /\ Len(enum) \in Nat

UITyped(ui) ==
    /\ DOMAIN ui.fields = 1 .. Len(ui.fields) /\ Len(ui.fields) \in Nat
    /\ \A i \in DOMAIN ui.fields :
          LET options == ui.fields[i].options IN
          DOMAIN options = 1 .. Len(options) /\ Len(options) \in Nat

Shows(text, limit) == ~Blank(text) /\ Length(text) <= limit

(* Values are compared and may be blank, but not empty.                      *)
ValueFits(text) == text # NoText /\ Length(text) <= 1000

OptionValues(field) == [i \in DOMAIN field.options |-> field.options[i].value]

(* Mutant: an option may be repeated.                                        *)
OptionsRepeat(field) ==
    /\ Len(field.options) <= 1000
    /\ \A i \in DOMAIN field.options :
          ValueFits(field.options[i].value) /\ Shows(field.options[i].label, 200)
    /\ field.kind = "select" => field.options # <<>>

OptionsValid(field) ==
    /\ Len(field.options) <= 1000
    /\ \A i \in DOMAIN field.options :
          ValueFits(field.options[i].value) /\ Shows(field.options[i].label, 200)
    /\ Distinct(OptionValues(field))
    /\ field.kind = "select" => field.options # <<>>

EditorValid(field) ==
    field.editor # Nil =>
        LET types == field.editor.types IN
        /\ field.kind = "text" /\ field.editor.kind = "column-schema"
        /\ Len(types) \in 1 .. 100
        /\ \A i \in DOMAIN types : Shows(types[i], 100)
        /\ Distinct(types)
        /\ \E i \in DOMAIN types : types[i] = field.editor.default

FieldValid(field) ==
    /\ field.key \in FieldKeys
    /\ Shows(field.label, 200) /\ Length(field.placeholder) <= 1000
    /\ Len(field.help) <= 16 /\ \A i \in DOMAIN field.help : Shows(field.help[i], 2000)
    /\ field.kind \in {"text", "url", "select", "textarea"}
    /\ OptionsValid(field)
    /\ EditorValid(field)

Keys(ui) == [i \in DOMAIN ui.fields |-> ui.fields[i].key]

(* When a field is visible depends on other fields' values.                  *)
RuleValid(ui, rule) ==
    /\ \E i \in DOMAIN ui.fields : ui.fields[i].key = rule.key
    /\ Len(rule.values) \in 1 .. 1000
    /\ \A i \in DOMAIN rule.values : ValueFits(rule.values[i])
    /\ Distinct(rule.values)

VisibilityValid(ui, field) ==
    /\ Len(field.visible_when) <= 32
    /\ Distinct([i \in DOMAIN field.visible_when |-> field.visible_when[i].key])
    /\ \A i \in DOMAIN field.visible_when : RuleValid(ui, field.visible_when[i])

HeadValid(ui) ==
    /\ ui.format = UIFormat
    /\ Shows(ui.name, 200) /\ Shows(ui.group, 100)
    /\ ~Blank(ui.glyph) /\ ui.glyph_runes <= 4
    /\ ui.order \in 0 .. 1000000

UIValid(ui) ==
    /\ HeadValid(ui)
    /\ Len(ui.fields) <= 1000
    /\ \A i \in DOMAIN ui.fields : FieldValid(ui.fields[i])
    /\ Distinct(Keys(ui))
    /\ \A i \in DOMAIN ui.fields : VisibilityValid(ui, ui.fields[i])

-----------------------------------------------------------------------------
(* The descriptor and the schema.                                            *)

Enum(schema, key) == {schema[key].enum[i] : i \in DOMAIN schema[key].enum}

FieldFits(schema, field) ==
    /\ field.key \in DOMAIN schema /\ schema[field.key].type = "string"
    /\ \A i \in DOMAIN field.options : field.options[i].value \in Enum(schema, field.key)
    /\ field.kind = "select" => Len(field.options) = Len(schema[field.key].enum)
    /\ \A i \in DOMAIN field.visible_when :
          LET rule == field.visible_when[i] IN
          rule.key \in DOMAIN schema
          /\ \A j \in DOMAIN rule.values : rule.values[j] \in Enum(schema, rule.key)

DescriptorFits(ui, schema) ==
    /\ UIValid(ui)
    /\ \A i \in DOMAIN ui.fields : FieldFits(schema, ui.fields[i])
    /\ Len(ui.fields) = Cardinality(DOMAIN schema)

(* Every property has one field, and a select field offers every value of    *)
(* its property once.                                                        *)
Presents(ui, schema) ==
    /\ {ui.fields[i].key : i \in DOMAIN ui.fields} = DOMAIN schema
    /\ \A i \in DOMAIN ui.fields :
          ui.fields[i].kind = "select" =>
             LET field == ui.fields[i] IN
             /\ {field.options[j].value : j \in DOMAIN field.options} = Enum(schema, field.key)
             /\ Len(field.options) = Cardinality(Enum(schema, field.key))
=============================================================================
