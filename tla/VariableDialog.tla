--------------------------- MODULE VariableDialog ---------------------------
(***************************************************************************)
(* The dialog that shows, adds, changes or deletes a variable.  Of a value *)
(* what matters is how it is spelled: a number of the engine or the text   *)
(* of one, a text that is empty, JSON or XML in the formatter's form or in *)
(* another.  The widths of the integers are parameters.  The tooltips and  *)
(* the downloads of bytes and files are left out.                          *)
(***************************************************************************)
EXTENDS Parts

CONSTANTS Width,         \* of Short, Integer and Long, in bits
          MaxDialogSteps \* bound of what the user does

ASSUME DialogWidths ==
  /\ Width \in [{"Short", "Integer", "Long"} -> Nat \ {0}] /\ MaxDialogSteps \in Nat
  /\ \A type \in DOMAIN Width : 2 ^ (Width[type] - 1) \in Nat \ {0} \* TLC computes it, the provers know no powers

Half(type) == 2 ^ (Width[type] - 1)
Whole == DOMAIN Width
Numeric == Whole \union {"Double"}
VariableTypes == Numeric \union {"String", "Boolean", "Date", "Json", "Xml", "Object", "Null"}
AllInts == -(Half("Long") + 1) .. Half("Long")

\* A value: how it is spelled, and the number or truth it means
Spelled(spelling, n) == [spelling |-> spelling, means |-> n]
Plain(spelling) == Spelled(spelling, 0)
NoText == Plain("empty")
Numerals == {Spelled("decimal", n) : n \in AllInts} \union
            {Spelled("hex", 1), Plain("fraction")}
FreeTexts == Numerals \union {NoText} \union
             {Plain(s) : s \in {"word", "json", "jsonFormatted", "xml", "xmlFormatted"}}
\* What the control of a type lets the user enter
Enterable(type) ==
  CASE type = "Boolean" -> {Spelled("truth", n) : n \in 0 .. 1}
    [] type = "Date" -> {NoText, Plain("date")}
    [] type = "Null" -> {}
    [] OTHER -> FreeTexts
\* What the engine has for a variable of a type; a number and a boolean are no texts
EngineValues(type) ==
  CASE type \in Whole -> {Spelled("number", n) : n \in -Half(type) .. Half(type) - 1}
    [] type = "Double" -> {Spelled("number", n) : n \in 0 .. 1}
    [] type = "Boolean" -> {Spelled("boolean", n) : n \in 0 .. 1}
    [] type = "Null" -> {Plain("null")}
    [] type = "Json" -> {Plain("json"), Plain("jsonFormatted")}
    [] type = "Xml" -> {Plain("xml"), Plain("xmlFormatted")}
    [] type = "Date" -> {Plain("date")}
    [] OTHER -> {Plain("word")}

VARIABLES
  modalType,    \* "Add", "Edit", "Delete" or "Readonly"
  variable,     \* the variable in the engine: its type, value; Absent in "Add"
  working,      \* workingCopyData, Absent once the dialog is closed
  touched,      \* whether the user entered something
  deserialized, \* "none" asked for, "asked", "loaded", "refused" or "lost"
  activeTab,
  copied,       \* what the last copy was of and what was shown, Absent
  result        \* what the dialog was closed with, Absent

dialogVars == <<modalType, variable, working, touched, deserialized, activeTab, copied, result>>

\* ToNumber, and x || '': the empty text, 0 and null stand for no text
Falsy(v) == v.spelling \in {"empty", "null"} \/ (v.spelling \in {"number", "boolean"} /\ v.means = 0)
IsNaN(v) == v.spelling \notin {"empty", "number", "boolean", "decimal", "hex", "fraction", "null"}
\* BigInt of a text: the empty one is 0
IsBigInt(v) == ~IsNaN(v) /\ v.spelling # "fraction"
ParsesAsFloat(v) == ~Falsy(v) /\ ~IsNaN(v)
\* isVariableValueValidNumber, were the bound of a type within it
IsVariableValueInBounds(type, v) ==
  /\ ~IsNaN(v)
  /\ IF type = "Double" THEN ParsesAsFloat(v)
     ELSE IsBigInt(v) /\ v.means <= Half(type) /\ v.means >= -Half(type)
\* isVariableValueValidNumber
IsVariableValueValidNumber(type, v) ==
  /\ ~IsNaN(v)
  /\ IF type = "Double" THEN ParsesAsFloat(v)
     ELSE IsBigInt(v) /\ v.means < Half(type) /\ v.means >= -Half(type)
IsJson(v) == v.spelling \in {"json", "jsonFormatted", "decimal", "fraction"}
IsXml(v) == v.spelling \in {"xml", "xmlFormatted"}
\* isVariableValueValid
IsVariableValueValid(type, v) ==
  CASE type \in Numeric -> IsVariableValueValidNumber(type, v)
    [] type = "Date" -> v = Plain("date")
    [] type = "Json" -> IsJson(v)
    [] type = "Xml" -> IsXml(v)
    [] type = "Null" -> TRUE
    [] OTHER -> ~Falsy(v)
\* formatJson, formatXML; JSON that does not parse throws and nothing happens
Formatted(type, v) ==
  CASE type = "Json" /\ v.spelling = "json" -> Plain("jsonFormatted")
    [] type = "Xml" /\ v.spelling = "xml" -> Plain("xmlFormatted")
    [] OTHER -> v
\* hasValueChanged: of the types that are formatted when the dialog opens only JSON is
\* compared with the formatted value
HasValueChanged ==
  working.value # (IF working.type = "Json" THEN Formatted("Json", variable.value)
                   ELSE variable.value)
HasValueInfoChanged == working.type = "Object" /\ working.info # "unchanged"
IsVariableValueInfoValid == working.type = "Object" => working.info # "missing"
\* canSave
CanSave ==
  CASE modalType = "Delete" -> TRUE
    [] modalType = "Add" -> working.named /\ IsVariableValueValid(working.type, working.value)
                              /\ IsVariableValueInfoValid
    [] OTHER -> /\ IsVariableValueValid(working.type, working.value) /\ IsVariableValueInfoValid
                /\ HasValueInfoChanged \/ HasValueChanged
-----------------------------------------------------------------------------
\* updateWorkingCopyData and the rest of ngOnInit: null becomes the empty text, JSON and XML
\* are formatted, an object's value is asked for
DialogOpens(mode, type, value) ==
  /\ modalType = mode
  /\ variable = IF mode = "Add" THEN Absent ELSE [type |-> type, value |-> value]
  /\ working = [type |-> type, named |-> mode # "Add",
                value |-> IF mode = "Add" \/ type = "Null" THEN NoText ELSE Formatted(type, value),
                info |-> IF mode = "Add" THEN "missing" ELSE "unchanged"]
  /\ deserialized = IF mode \in {"Readonly", "Delete"} /\ type = "Object" THEN "asked" ELSE "none"
  /\ touched = FALSE /\ activeTab = "Deserialized" /\ copied = Absent /\ result = Absent

VariableDialogInit ==
  \/ DialogOpens("Add", "String", NoText)
  \/ \E mode \in {"Edit", "Delete", "Readonly"}, type \in VariableTypes :
       \E value \in EngineValues(type) : DialogOpens(mode, type, value)

Editable == working # Absent /\ modalType \in {"Add", "Edit"}
Entered(after) ==
  /\ Editable /\ Event(MaxDialogSteps) /\ working' = after /\ touched' = TRUE
  /\ UNCHANGED <<modalType, variable, deserialized, activeTab, copied, result>>

\* typeChanged empties the value
ChooseType == modalType = "Add" /\ working # Absent /\ \E type \in VariableTypes \ {working.type} :
                Entered([working EXCEPT !.type = type, !.value = NoText])
\* A name that no variable of the list has, or one that is taken or empty
EnterName == modalType = "Add" /\ working # Absent /\ Entered([working EXCEPT !.named = ~@])
EnterValue == Editable /\ \E v \in Enterable(working.type) \ {working.value} :
                Entered([working EXCEPT !.value = v])
EnterValueInfo == Editable /\ working.type = "Object" /\ \E info \in {"missing", "changed", "unchanged"} :
                    /\ info # working.info /\ (modalType = "Edit" \/ info # "unchanged")
                    /\ Entered([working EXCEPT !.info = info])
\* handleFormat
HandleFormat == Editable /\ Formatted(working.type, working.value) # working.value
                  /\ Entered([working EXCEPT !.value = Formatted(working.type, working.value)])

\* The answer to the object's value, with an error message or without; nothing handles
\* a request that fails
DeserializedLoaded ==
  /\ deserialized = "asked" /\ working # Absent
  /\ deserialized' \in {"loaded", "refused", "lost"}
  /\ UNCHANGED <<events, modalType, variable, working, touched, activeTab, copied, result>>

UpdateActiveTab ==
  /\ working # Absent /\ modalType \in {"Readonly", "Delete"} /\ working.type = "Object"
  /\ Event(MaxDialogSteps) /\ activeTab' \in {"Deserialized", "Serialized"} \ {activeTab}
  /\ UNCHANGED <<modalType, variable, working, touched, deserialized, copied, result>>

\* What the dialog shows of a variable that can only be read
ValueShown ==
  IF deserialized = "none" \/ activeTab = "Serialized" THEN "serialized"
  ELSE CASE deserialized = "loaded" -> "deserialized"
         [] deserialized = "refused" -> "message"
         [] OTHER -> "spinner"

\* The icon beside the value is there unless the value was refused
CopyValue ==
  /\ working # Absent /\ modalType = "Readonly" /\ deserialized # "refused" /\ Event(MaxDialogSteps)
  /\ copied' = [of |-> IF activeTab = "Deserialized" /\ deserialized = "loaded"
                       THEN "deserialized" ELSE "serialized",
                shown |-> ValueShown]
  /\ UNCHANGED <<modalType, variable, working, touched, deserialized, activeTab, result>>

\* confirm
Closed(outcome) ==
  /\ working' = Absent /\ result' = outcome
  /\ UNCHANGED <<events, modalType, variable, touched, deserialized, activeTab, copied>>
ConfirmVariable ==
  Closed([type |-> working.type,
          value |-> IF working.type = "Null" THEN Plain("null") ELSE working.value])

\* The button, or Enter anywhere but in the text area: on Cancel too
SaveDialog == working # Absent /\ modalType # "Readonly" /\ CanSave /\ ConfirmVariable
\* Cancel, the cross, and Enter in a dialog that only shows
DismissDialog == working # Absent /\ Closed(Absent)

VariableDialogNext ==
  \/ ChooseType \/ EnterName \/ EnterValue \/ EnterValueInfo \/ HandleFormat
  \/ DeserializedLoaded \/ UpdateActiveTab \/ CopyValue
  \/ SaveDialog \/ DismissDialog
-----------------------------------------------------------------------------
\* What a type holds
Fits(type, v) ==
  CASE type \in Whole -> v.spelling = "decimal" /\ v.means \in -Half(type) .. Half(type) - 1
    [] type = "Double" -> v.spelling \in {"decimal", "fraction"}
    [] type = "Boolean" -> v.spelling = "truth"
    [] type = "Date" -> v.spelling = "date"
    [] type = "Json" -> IsJson(v)
    [] type = "Xml" -> IsXml(v)
    [] type = "Null" -> v.spelling = "null"
    [] OTHER -> ~Falsy(v)

\* A value the user entered and the dialog lets through is one its type holds, at the bounds
\* of the integers too; what slips through is a numeral in hexadecimal, and no text at all
\* as a whole number
SavedValueFits ==
  (result # Absent /\ modalType \in {"Add", "Edit"}) =>
    \/ Fits(result.type, result.value)
    \/ result.type \in Numeric /\ result.value.spelling = "hex"
    \/ result.type \in Whole /\ result.value = NoText

\* A dialog nobody entered anything in saves nothing, unless its XML was not formatted or
\* there was no value
UntouchedSavesNothing ==
  (working # Absent /\ modalType = "Edit" /\ ~touched) =>
    (CanSave => variable.value.spelling \in {"xml", "null"})

\* What is copied is what is shown, or stands in for what is still being read
CopiesWhatItShows == copied # Absent => copied.of = copied.shown \/ copied.shown = "spinner"

VariableDialogIsTrue == SavedValueFits /\ UntouchedSavesNothing /\ CopiesWhatItShows
=============================================================================
