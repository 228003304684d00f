---------------------------- MODULE CompanySettings ----------------------------
(***************************************************************************)
(* The company that issues the documents (CompanySettingsService): its     *)
(* settings row, its profiles, the logos and their stored objects, and the *)
(* response kept in the cache of the process.                              *)
(*                                                                         *)
(* One administrator at a time writes; a write is a transaction followed   *)
(* by its consequences in other statements (objects removed, the settings  *)
(* copied from the default profile, the cache emptied).  Between them any  *)
(* number of readers get the settings or preview a document, and each of   *)
(* them may fail, in which case the ones after it are never done.  The     *)
(* first read of an empty base, which creates the settings and the first   *)
(* profile, is the initial state.                                          *)
(***************************************************************************)
EXTENDS DocumentTemplates, SequencesExt

CONSTANTS
    Name,           \* identities a profile or the settings may carry
    MaxProfile,     \* bound: profiles ever created, in order of createdAt
    Kind, Primary,  \* kinds of logo slots; every kind falls back to Primary
    Reader, None

\* The initial state has a first profile; the absence of a value is no value.
ASSUME SettingsAssumption ==
    /\ Primary \in Kind
    /\ MaxProfile \in Nat \ {0}
    /\ None \notin BOOLEAN
    /\ None \notin [of : {"slot"}, id : Kind, path : Nat]

VARIABLES
    settings,       \* identity in the settings row, and whether since it was last
                    \* copied from a profile it was edited there, or a copy failed
                    \* to come (history)
    profile,        \* rows: presence, name, isDefault, path of the logo
    slot,           \* CompanyLogo: path by kind, 0 when there is none
    object,         \* logo objects in the store
    harmed,         \* logos lost or left in the store by a failed write (history)
    todo,           \* what the write under way has still to do
    cache,          \* the cached response, or None
    reader          \* requests that read

settingsVars == <<settings, profile, slot, object, harmed, todo, cache, reader>>

Profiles == 1..MaxProfile
ProfileRow == [state : {"none", "present", "gone"}, name : Name, isDefault : BOOLEAN,
               logo : Nat]
Present(p) == profile[p].state = "present"
ProfileKey(p, path) == [of |-> "profile", id |-> p, path |-> path]
SlotKey(k, path) == [of |-> "slot", id |-> k, path |-> path]

\* The default profile among a list, else the first one.
IdentityOf(rows) ==
    LET present == {p \in Profiles : rows[p].state = "present"}
        default == {p \in present : rows[p].isDefault}
        Oldest(S) == CHOOSE p \in S : \A q \in S : p <= q
    IN  IF default # {} THEN Oldest(default) ELSE Oldest(present)

\* What each slot shows: its own logo, else the primary one.
Shown(rows) ==
    [k \in Kind |-> IF rows[k] > 0 THEN SlotKey(k, rows[k])
                    ELSE IF rows[Primary] > 0 THEN SlotKey(Primary, rows[Primary])
                    ELSE None]

NotReading == [at |-> "idle", quiet |-> TRUE, name |-> None, logos |-> None, rows |-> None]

SettingsInit ==
    /\ TemplatesInit
    /\ \E n \in Name :
          /\ settings = [name |-> n, apart |-> FALSE]
          /\ profile = [p \in Profiles |->
                [state |-> IF p = 1 THEN "present" ELSE "none", name |-> n,
                 isDefault |-> p = 1, logo |-> 0]]
    /\ slot = [k \in Kind |-> 0]
    /\ object = {}
    /\ harmed = {}
    /\ todo = <<>>
    /\ cache = None
    /\ reader = [r \in Reader |-> NotReading]

-----------------------------------------------------------------------------
(* Writes.  The first step of each commits; "todo" lists the later ones.   *)

Unlink(key) == [do |-> "remove", key |-> key]
Put(key) == [do |-> "put", key |-> key]
Point(key) == [do |-> "point", key |-> key]
Unpoint(key) == [do |-> "unpoint", key |-> key]
Sync(p) == [do |-> "sync", key |-> ProfileKey(p, 0)]
Invalidate == [do |-> "invalidate", key |-> None]

\* A write begins when no other is under way; a request that is reading is no
\* longer undisturbed (history).
BeginWrite(steps) ==
    /\ CountCall
    /\ todo = <<>>
    /\ todo' = steps
    /\ reader' = [r \in Reader |-> [reader[r] EXCEPT !.quiet = FALSE]]
    /\ UNCHANGED <<template, cache, harmed>>

\* PATCH of the settings, with a name or with other fields only.
UpdateSettings(n) ==
    /\ BeginWrite(<<Invalidate>>)
    /\ settings' = [name |-> n, apart |-> TRUE]
    /\ UNCHANGED <<profile, slot, object>>

ClearDefaults(except) ==
    [p \in Profiles |-> IF p = except THEN profile[p]
                        ELSE [profile[p] EXCEPT !.isDefault = FALSE]]

CreateProfile(p, n, asked) ==
    LET hasDefault == \E q \in Profiles : Present(q) /\ profile[q].isDefault
        makeDefault == asked \/ ~hasDefault
    IN  /\ profile[p].state = "none" /\ \A q \in 1..(p - 1) : profile[q].state # "none"
        /\ BeginWrite((IF makeDefault THEN <<Sync(p)>> ELSE <<>>) \o <<Invalidate>>)
        /\ profile' = [IF makeDefault THEN ClearDefaults(p) ELSE profile
                          EXCEPT ![p] = [state |-> "present", name |-> n,
                                         isDefault |-> makeDefault, logo |-> 0]]
        /\ UNCHANGED <<settings, slot, object>>

\* PATCH of a profile; "flag" is the isDefault it sends, or None.
UpdateProfile(p, n, flag) ==
    /\ Present(p)
    /\ ~(flag = FALSE /\ profile[p].isDefault)
    /\ LET isDefault == IF flag = None THEN profile[p].isDefault ELSE flag
       IN  /\ BeginWrite((IF isDefault THEN <<Sync(p)>> ELSE <<>>) \o <<Invalidate>>)
           /\ profile' = [IF flag = TRUE THEN ClearDefaults(p) ELSE profile
                             EXCEPT ![p].name = n, ![p].isDefault = isDefault]
    /\ UNCHANGED <<settings, slot, object>>

SetDefaultProfile(p) ==
    /\ Present(p)
    /\ BeginWrite(<<Sync(p), Invalidate>>)
    /\ profile' = [ClearDefaults(p) EXCEPT ![p].isDefault = TRUE]
    /\ UNCHANGED <<settings, slot, object>>

LogoKeys(p) == IF profile[p].logo > 0 THEN {ProfileKey(p, profile[p].logo)} ELSE {}

\* Mutant: deleting the default profile leaves the settings as they are.
DeleteUnsynced(p) ==
    LET others == {q \in Profiles \ {p} : Present(q)}
        oldest == CHOOSE q \in others : \A r \in others : q <= r
    IN  /\ Present(p) /\ others # {}
        /\ BeginWrite(SetToSeq({Unlink(key) : key \in LogoKeys(p)}) \o <<Invalidate>>)
        /\ profile' = [profile EXCEPT
              ![p].state = "gone", ![p].isDefault = FALSE, ![p].logo = 0,
              ![oldest].isDefault = @ \/ profile[p].isDefault]
        /\ UNCHANGED <<settings, slot, object>>

\* The last profile stays; the oldest other one replaces the default.
DeleteProfile(p) ==
    LET others == {q \in Profiles \ {p} : Present(q)}
        oldest == CHOOSE q \in others : \A r \in others : q <= r
    IN  /\ Present(p) /\ others # {}
        /\ BeginWrite(SetToSeq({Unlink(key) : key \in LogoKeys(p)})
                         \o (IF profile[p].isDefault THEN <<Sync(oldest)>> ELSE <<>>)
                         \o <<Invalidate>>)
        /\ profile' = [profile EXCEPT
              ![p].state = "gone", ![p].isDefault = FALSE, ![p].logo = 0,
              ![oldest].isDefault = @ \/ profile[p].isDefault]
        /\ UNCHANGED <<settings, slot, object>>

\* The path of an object ends with the time and a random suffix: no two objects
\* ever have the same one, whatever their version.
NewPath == calls + 1

\* Mutant: the object the row had is left in the store.
UpsertOnly(old, new) ==
    /\ BeginWrite(<<Put(new), Point(new), Invalidate>>)
    /\ UNCHANGED <<settings, profile, slot, object>>

\* Upload: the new object is put, then the one the row had is removed, then the
\* row points to the new one.
UpsertLogo(old, new) ==
    /\ BeginWrite(<<Put(new)>> \o SetToSeq({Unlink(key) : key \in old})
                     \o <<Point(new), Invalidate>>)
    /\ UNCHANGED <<settings, profile, slot, object>>

DeleteLogo(old) ==
    /\ BeginWrite(<<Unlink(old), Unpoint(old), Invalidate>>)
    /\ UNCHANGED <<settings, profile, slot, object>>

UpsertProfileLogo(p) ==
    Present(p) /\ UpsertLogo(LogoKeys(p), ProfileKey(p, NewPath))

DeleteProfileLogo(p) ==
    Present(p) /\ profile[p].logo > 0 /\ DeleteLogo(ProfileKey(p, profile[p].logo))

SlotKeys(k) == IF slot[k] > 0 THEN {SlotKey(k, slot[k])} ELSE {}
UpsertSlotLogo(k) == UpsertLogo(SlotKeys(k), SlotKey(k, NewPath))
DeleteSlotLogo(k) == slot[k] > 0 /\ DeleteLogo(SlotKey(k, slot[k]))

-----------------------------------------------------------------------------
(* The later steps of a write *)

Step(do) == todo # <<>> /\ Head(todo).do = do /\ todo' = Tail(todo)
Key == Head(todo).key

PutObject ==
    /\ Step("put")
    /\ object' = object \cup {Key}
    /\ UNCHANGED <<templateVars, settings, profile, slot, cache, harmed, reader>>

RemoveObject ==
    /\ Step("remove")
    /\ object' = object \ {Key}
    /\ UNCHANGED <<templateVars, settings, profile, slot, cache, harmed, reader>>

\* The row of the logo is written or deleted.
SetLogoRow(path) ==
    /\ IF Key.of = "slot"
       THEN slot' = [slot EXCEPT ![Key.id] = path] /\ UNCHANGED profile
       ELSE profile' = [profile EXCEPT ![Key.id].logo = path] /\ UNCHANGED slot
    /\ UNCHANGED <<templateVars, settings, object, cache, harmed, reader>>

PointRow == Step("point") /\ SetLogoRow(Key.path)
UnpointRow == Step("unpoint") /\ SetLogoRow(0)

SyncDefaultProfile ==
    /\ Step("sync")
    /\ settings' = [name |-> profile[Key.id].name, apart |-> FALSE]
    /\ UNCHANGED <<templateVars, profile, slot, object, cache, harmed, reader>>

\* Mutant: the cache keeps the old response until it expires.
LeaveCache ==
    /\ Step("invalidate")
    /\ UNCHANGED <<templateVars, settings, profile, slot, object, cache, harmed, reader>>

InvalidateSettingsCache ==
    /\ Step("invalidate")
    /\ cache' = None
    /\ UNCHANGED <<templateVars, settings, profile, slot, object, harmed, reader>>

\* The logos the rows point to.
RowKeys == UNION ({LogoKeys(p) : p \in Profiles} \cup {SlotKeys(k) : k \in Kind})
SameLogo(key) == key.of = Key.of /\ key.id = Key.id

\* What a failure of the next step does to the logo it is about: its row keeps
\* pointing to an object that was removed, or an object stays that no row has.
Harm ==
    {key \in RowKeys \ object : Head(todo).do \in {"point", "unpoint"} /\ SameLogo(key)}
    \cup {key \in object \ RowKeys : Head(todo).do \in {"remove", "point"} /\ SameLogo(key)}

\* The store, the base or the audit throws: the request ends with an error, what
\* was done stays done, and neither the copy to the settings nor the cache follows.
FailStep ==
    /\ todo # <<>>
    /\ todo' = <<>>
    /\ harmed' = harmed \cup Harm
    /\ settings' = [settings EXCEPT
                      !.apart = @ \/ \E i \in DOMAIN todo : todo[i].do = "sync"]
    /\ cache' = IF cache = None THEN None ELSE [cache EXCEPT !.quiet = FALSE]
    /\ UNCHANGED <<templateVars, profile, slot, object, reader>>

-----------------------------------------------------------------------------
(* Readers *)

ReadersUnchanged ==
    UNCHANGED <<templateVars, settings, profile, slot, object, harmed, todo>>

\* GET of the settings: the cached response, or the three reads that make one.
BeginRead(r) ==
    /\ reader[r].at = "idle"
    /\ reader' = [reader EXCEPT ![r] =
          IF cache # None THEN [cache EXCEPT !.at = "answered",
                                             !.quiet = cache.quiet /\ todo = <<>>]
          ELSE [NotReading EXCEPT !.at = "logos", !.quiet = (todo = <<>>), !.name = settings.name]]
    /\ UNCHANGED cache /\ ReadersUnchanged

ReadLogos(r) ==
    /\ reader[r].at = "logos"
    /\ reader' = [reader EXCEPT ![r].at = "profiles", ![r].logos = Shown(slot)]
    /\ UNCHANGED cache /\ ReadersUnchanged

ListProfiles(r) ==
    /\ reader[r].at = "profiles"
    /\ reader' = [reader EXCEPT ![r].at = "fill", ![r].rows = profile]
    /\ UNCHANGED cache /\ ReadersUnchanged

FillCache(r) ==
    /\ reader[r].at = "fill"
    /\ cache' = [reader[r] EXCEPT !.at = "idle"]
    /\ reader' = [reader EXCEPT ![r].at = "answered"]
    /\ ReadersUnchanged

\* Mutant: a response is kept without a time to live.
KeepResponse == cache # None /\ UNCHANGED <<templateVars, settingsVars>>

\* The response expires with its time to live.
ExpireCache ==
    /\ cache # None
    /\ cache' = None
    /\ UNCHANGED reader /\ ReadersUnchanged

Answer(r) ==
    /\ reader[r].at = "answered"
    /\ reader' = [reader EXCEPT ![r] = NotReading]
    /\ UNCHANGED cache /\ ReadersUnchanged

\* A logo is read from its object; nothing is read when the object is gone.
ReadLogo(key) == {key} \cap object

\* The profile's own logo, which falls back on nothing.
ReadProfileLogo(p) ==
    IF profile[p].logo = 0 THEN {} ELSE ReadLogo(ProfileKey(p, profile[p].logo))

\* The logo in effect for a slot: its own if there is a row for it, even one whose
\* object is gone, else the primary one.
ResolveLogo(k) ==
    IF slot[k] > 0 THEN ReadLogo(SlotKey(k, slot[k]))
    ELSE IF slot[Primary] > 0 THEN ReadLogo(SlotKey(Primary, slot[Primary]))
    ELSE {}

\* The logo of the default profile when its object can be read, else the slot of
\* the invoices, else none.
OfficialLogo ==
    LET own == ReadProfileLogo(IdentityOf(profile))
    IN  IF own # {} \/ "invoice" \notin Kind THEN own ELSE ResolveLogo("invoice")

-----------------------------------------------------------------------------
Write ==
    \/ \E n \in Name : UpdateSettings(n)
    \/ \E p \in Profiles :
          \/ \E n \in Name, asked \in BOOLEAN : CreateProfile(p, n, asked)
          \/ \E n \in Name, flag \in {TRUE, FALSE, None} : UpdateProfile(p, n, flag)
          \/ SetDefaultProfile(p)
          \/ DeleteProfile(p)
          \/ UpsertProfileLogo(p)
          \/ DeleteProfileLogo(p)
    \/ \E k \in Kind : UpsertSlotLogo(k) \/ DeleteSlotLogo(k)

LaterStep ==
    \/ PutObject \/ RemoveObject \/ PointRow \/ UnpointRow
    \/ SyncDefaultProfile \/ InvalidateSettingsCache

Read(r) ==
    \/ BeginRead(r) \/ ReadLogos(r) \/ ListProfiles(r) \/ FillCache(r)
    \/ Answer(r)

SettingsNext ==
    \/ Write
    \/ LaterStep
    \/ FailStep
    \/ ExpireCache
    \/ \E r \in Reader : Read(r)
    \/ TemplateNext /\ todo = <<>> /\ UNCHANGED settingsVars

SettingsSpec == SettingsInit /\ [][SettingsNext]_<<templateVars, settingsVars>>

\* A write and a request that has begun go on to their end, and the cache forgets
\* a response after its time to live; nobody has to write or to read.
FairSettingsSpec ==
    /\ SettingsSpec
    /\ WF_<<templateVars, settingsVars>>(LaterStep \/ FailStep)
    /\ WF_<<templateVars, settingsVars>>(ExpireCache)
    /\ \A r \in Reader : WF_<<templateVars, settingsVars>>(reader[r].at # "idle" /\ Read(r))

-----------------------------------------------------------------------------
\* The state has the shape the services rely on.
SettingsTypeOK ==
    /\ template \in [Template -> TemplateRow]
    /\ settings \in [name : Name, apart : BOOLEAN]
    /\ profile \in [Profiles -> ProfileRow]
    /\ slot \in [Kind -> Nat]
    /\ \A r \in Reader : reader[r].at \in {"idle", "logos", "profiles", "fill", "answered"}

\* One profile is the default at any time, and between two writes the settings
\* carry its identity, unless they were edited by themselves since or a write
\* failed before the copy it had to make (an object of the deleted profile that
\* the store refuses to remove is enough).
DefaultIsMirrored ==
    \E p \in Profiles :
       /\ {q \in Profiles : Present(q) /\ profile[q].isDefault} = {p}
       /\ todo = <<>> => settings.apart \/ settings.name = profile[p].name

\* Between two writes the stored logos are those the rows point to, but for what
\* failed writes have harmed: a write that ends well leaves no object behind and
\* takes none that is used, a failed one does so to the logo it was about only,
\* and only a replacement or a deletion of that very logo can lose it.
LogosMatchObjects ==
    todo = <<>> => /\ RowKeys \ object \subseteq harmed
                   /\ object \ RowKeys \subseteq harmed

\* A response is the one the rows give: each logo it lists is the one in effect,
\* and can be downloaded unless a failed write has lost it.
Current(response) ==
    /\ response.name = settings.name /\ response.rows = profile
    /\ \A k \in Kind : ResolveLogo(k) = {response.logos[k]} \ ({None} \cup harmed)

\* A cached response that was built while no write was under way is current,
\* until a write has begun that has still to empty the cache, or has failed to.
CacheIsFresh == cache # None /\ cache.quiet /\ todo = <<>> => Current(cache)

\* The company a preview names, and the logo it shows, for a response it got.
Heading(response) ==
    [of |-> IdentityOf(response.rows), row |-> response.rows[IdentityOf(response.rows)],
     logo |-> OfficialLogo]

\* The logo shown is the one of the company named, when it has one.
OneCompany(heading) ==
    LET key == ProfileKey(heading.of, heading.row.logo)
    IN  heading.row.logo > 0 /\ key \notin harmed => heading.logo = {key}

Responses == ({cache} \ {None}) \cup {reader[r] : r \in {q \in Reader : reader[q].at = "answered"}}

\* Once the administrator has stopped writing, the responses the server gives, from
\* the cache or not, become current and the previews made of them show the name
\* and the logo of one company, for good: a reader that refilled the cache with
\* what it had read before a write, or a write that failed before it emptied the
\* cache, is forgotten.
ResponsesCatchUp ==
    <>[](\A response \in Responses : Current(response) /\ OneCompany(Heading(response)))
===============================================================================
