--------------------------- MODULE DocumentTemplates ---------------------------
(***************************************************************************)
(* The layouts of the invoice documents (InvoiceDocumentTemplatesService). *)
(* A template belongs to a scope, one invoice type or all of them, and at  *)
(* most one template of a scope should be its default.  One administrator  *)
(* at a time edits them: a call reads the template, then runs one          *)
(* transaction, and nothing comes in between.                              *)
(***************************************************************************)
EXTENDS FiniteSets, Naturals

CONSTANTS
    Template,       \* identifiers
    InvoiceType,    \* types an invoice may have
    AllTypes,       \* the scope of a template without a type (invoiceType null)
    MaxCalls        \* bound: calls of the administrator

ASSUME TemplateAssumption == AllTypes \notin InvoiceType /\ MaxCalls \in Nat

VARIABLES template, calls

templateVars == <<template, calls>>

Scope == InvoiceType \cup {AllTypes}
TemplateRow == [present : BOOLEAN, scope : Scope, isDefault : BOOLEAN]
NoTemplate == [present |-> FALSE, scope |-> AllTypes, isDefault |-> FALSE]

TemplatesInit ==
    /\ template = [t \in Template |-> NoTemplate]
    /\ calls = 0

CountCall == calls < MaxCalls /\ calls' = calls + 1

DefaultsOf(scope) ==
    {t \in Template : template[t].present /\ template[t].scope = scope /\ template[t].isDefault}

\* The other defaults of a scope stop being so.
ClearDefaultInScope(scope, except) ==
    [t \in Template |->
        IF t \in DefaultsOf(scope) \ {except}
        THEN [template[t] EXCEPT !.isDefault = FALSE]
        ELSE template[t]]

CreateTemplate(t, scope, isDefault) ==
    /\ CountCall
    /\ ~template[t].present
    /\ template' = [IF isDefault THEN ClearDefaultInScope(scope, t) ELSE template
                       EXCEPT ![t] = [present |-> TRUE, scope |-> scope,
                                      isDefault |-> isDefault]]

\* Mutant: a template that changes scope keeps the default of the new one.
UpdateOnlyWhenAsked(t, scopes, defaults) ==
    /\ CountCall
    /\ template[t].present
    /\ \E scope \in scopes, isDefault \in defaults :
          template' = [IF isDefault /\ defaults # {template[t].isDefault}
                       THEN ClearDefaultInScope(scope, t) ELSE template
                          EXCEPT ![t].scope = scope, ![t].isDefault = isDefault]

\* PATCH: a scope or a flag that is not sent keeps the value just read, and a
\* template that stays the default while it changes scope clears the new one.
UpdateTemplate(t, scopes, defaults) ==
    /\ CountCall
    /\ template[t].present
    /\ \E scope \in scopes, isDefault \in defaults :
          template' = [IF isDefault THEN ClearDefaultInScope(scope, t) ELSE template
                          EXCEPT ![t].scope = scope, ![t].isDefault = isDefault]

SetDefaultTemplate(t) ==
    /\ CountCall
    /\ template[t].present
    /\ template' = [ClearDefaultInScope(template[t].scope, t) EXCEPT ![t].isDefault = TRUE]

RemoveTemplate(t) ==
    /\ CountCall
    /\ template[t].present
    /\ template' = [template EXCEPT ![t] = NoTemplate]

\* The scope and the flag of a PATCH, each sent or left as it is.
Sent(values, old) == {{v} : v \in values} \cup {{old}}

TemplateNext ==
    \E t \in Template :
       \/ \E scope \in Scope, isDefault \in BOOLEAN : CreateTemplate(t, scope, isDefault)
       \/ \E scopes \in Sent(Scope, template[t].scope),
             defaults \in Sent(BOOLEAN, template[t].isDefault) :
             UpdateTemplate(t, scopes, defaults)
       \/ SetDefaultTemplate(t)
       \/ RemoveTemplate(t)

\* The templates the document of a type may be laid out with: the default of its
\* type, else the default of all types, else none (the layout of the program).
ResolvedTemplates(type) ==
    IF DefaultsOf(type) # {} THEN DefaultsOf(type) ELSE DefaultsOf(AllTypes)

-----------------------------------------------------------------------------
\* The layout of an invoice document is determined: findFirst never has two
\* defaults to choose between, whatever scopes templates have moved through.
OneLayout == \A type \in InvoiceType : Cardinality(ResolvedTemplates(type)) <= 1
===============================================================================
