-------------------------------- MODULE Theme --------------------------------
(***************************************************************************)
(* The appearance settings (renderer.ts, parseTheme of modules/theme.ts).  *)
(* The theme is in five places: the variable, the page's style, which a    *)
(* frame brings up to date, its mirror in localStorage, read before the    *)
(* first frame of the next launch, the settings file, written half a       *)
(* second after the last change, and the controls.  Controls that are      *)
(* being dragged or typed in are not drawn anew under the user's hand, so  *)
(* each handler brings the others in line itself.                          *)
(*                                                                         *)
(* Module Palette has the colours that are derived of a theme, module      *)
(* Settings the way of a save.                                             *)
(***************************************************************************)
EXTENDS Naturals, Sequences

CONSTANTS
    Colours,     \* codes of six digits
    Short,       \* a code of three, which a colour well cannot show
    Unfinished,  \* what is not a code yet
    Black,       \* what a well shows instead
    Presets,     \* PRESETS
    Default,     \* DEFAULT_THEME
    NoTheme,     \* nothing that parseTheme takes
    MaxChanges   \* bound

Codes == Colours \cup {Short}
Schemes == {"dark", "light"}
Modes == {"solid", "linear", "radial"}
Angles == {0, 90}
Stops == UNION {[1..n -> Colours] : n \in 1..3}
ThemeSpec == [scheme: Schemes, accent: Codes, mode: Modes, angle: Angles, stops: Stops]

ThemeAssumption ==
    /\ Black \in Colours /\ Default \in Presets /\ Presets \subseteq ThemeSpec
    /\ Short \notin Colours /\ NoTheme \notin ThemeSpec /\ MaxChanges \in Nat

VARIABLES
    currentTheme,
    themeFrame,     \* the theme the next frame applies, or NoTheme
    page,           \* the style of the document
    mirror,         \* localStorage
    themeSaveTimer, \* is set
    file,           \* the theme in settings.json
    ready,          \* init() has read the settings
    controls,       \* what the controls show
    hex,            \* the text in the accent's field
    typing,         \* which has the focus
    chosen,         \* history: the theme the user made last
    changes,        \* bounded counter
    mishaps         \* history

vars == <<currentTheme, themeFrame, page, mirror, themeSaveTimer, file, ready, controls,
          hex, typing, chosen, changes, mishaps>>

Mishaps == {"early",  \* the user changed the theme before the settings were read
            "lost",   \* the page went away within the half second
            "other"}  \* the file was replaced by an import

Controls == [well: Colours, scheme: Schemes, mode: Modes, angle: Angles,
             stops: Stops \cup {<<>>}, canAdd: BOOLEAN, canRemove: BOOLEAN,
             marked: SUBSET Presets]

TypeOK ==
    /\ currentTheme \in ThemeSpec /\ page \in ThemeSpec
    /\ themeFrame \in ThemeSpec \cup {NoTheme}
    /\ mirror \in ThemeSpec \cup {NoTheme} /\ file \in ThemeSpec \cup {NoTheme}
    /\ themeSaveTimer \in BOOLEAN /\ ready \in BOOLEAN /\ typing \in BOOLEAN
    /\ controls \in Controls /\ hex \in Codes \cup {Unfinished}
    /\ chosen \in ThemeSpec \cup {NoTheme}
    /\ changes \in 0..MaxChanges /\ mishaps \subseteq Mishaps

(* A well takes codes of six digits only, and shows black for any other.   *)
Well(code) == IF code = Short THEN Black ELSE code

(* Which wells and buttons there are: one stop is shown of a solid         *)
(* background, and the others are kept.                                    *)
renderThemeStops(t) == IF t.mode = "solid" THEN <<t.stops[1]>> ELSE t.stops
renderThemeControls(t, c) ==
    [c EXCEPT !.well = Well(t.accent), !.scheme = t.scheme, !.mode = t.mode, !.angle = t.angle,
              !.stops = renderThemeStops(t),
              !.canAdd = Len(t.stops) < 3 /\ t.mode # "solid",
              !.canRemove = Len(t.stops) > 1]
sameTheme(a, b) == a = b
markActivePreset(t, c) == [c EXCEPT !.marked = {p \in Presets : sameTheme(p, t)}]

-----------------------------------------------------------------------------
(* The page of index.html, before anything is drawn.                       *)
Blank == [well |-> Black, scheme |-> "dark", mode |-> "linear", angle |-> 90, stops |-> <<>>,
          canAdd |-> TRUE, canRemove |-> TRUE, marked |-> {}]
Mirrored(m) == IF m = NoTheme THEN Default ELSE m

Init ==
    /\ file \in {NoTheme} \cup Presets
    /\ mirror \in {NoTheme, file}
    /\ currentTheme = Mirrored(mirror) /\ page = currentTheme /\ themeFrame = NoTheme
    /\ themeSaveTimer = FALSE /\ ready = FALSE /\ typing = FALSE
    /\ controls = Blank /\ hex = Unfinished
    /\ chosen = file /\ changes = 0 /\ mishaps = {}

(* A frame: the last theme asked for is applied, and mirrored.             *)
applyTheme(t) == page' = t
applyPendingTheme ==
    /\ themeFrame # NoTheme /\ themeFrame' = NoTheme
    /\ currentTheme' = themeFrame /\ applyTheme(themeFrame) /\ mirror' = themeFrame
    /\ UNCHANGED <<themeSaveTimer, file, ready, controls, hex, typing, chosen, changes, mishaps>>

(* setTheme with its controls drawn anew, or with those the handler shows  *)
(* itself; the field that has the focus is left as it is.                  *)
(* Mutant: a frame that is due is not given the newer theme.                *)
AskedOnce(t) ==
    /\ currentTheme' = t /\ themeFrame' = (IF themeFrame = NoTheme THEN t ELSE themeFrame)
    /\ UNCHANGED <<page, mirror, file, ready>>
Asked(t) == currentTheme' = t /\ themeFrame' = t /\ UNCHANGED <<page, mirror, file, ready>>
ByUser(t) ==
    /\ changes < MaxChanges /\ changes' = changes + 1
    /\ Asked(t) /\ themeSaveTimer' = TRUE /\ chosen' = t
    /\ mishaps' = IF ready THEN mishaps ELSE mishaps \cup {"early"}
setTheme(t) ==
    /\ ~typing /\ ByUser(t)
    /\ controls' = markActivePreset(t, renderThemeControls(t, controls))
    /\ hex' = t.accent /\ UNCHANGED typing
setThemeInPlace(t, shown) ==
    /\ ByUser(t) /\ controls' = markActivePreset(t, shown)

PickAccent(c) ==
    /\ ~typing
    /\ setThemeInPlace([currentTheme EXCEPT !.accent = c], [controls EXCEPT !.well = c])
    /\ hex' = c /\ UNCHANGED typing
PickStop(i, c) ==
    /\ ~typing /\ i \in DOMAIN controls.stops
    /\ setThemeInPlace([currentTheme EXCEPT !.stops[i] = c], [controls EXCEPT !.stops[i] = c])
    /\ UNCHANGED <<hex, typing>>
SetAngle(a) ==
    /\ ~typing /\ controls.mode = "linear"
    /\ setThemeInPlace([currentTheme EXCEPT !.angle = a], [controls EXCEPT !.angle = a])
    /\ UNCHANGED <<hex, typing>>
SetScheme(s) == setTheme([currentTheme EXCEPT !.scheme = s])
SetMode(m) == setTheme([currentTheme EXCEPT !.mode = m])
(* A new stop is a copy of the last, which changes nothing on the screen.  *)
AddStop ==
    /\ controls.canAdd /\ Len(currentTheme.stops) < 3
    /\ setTheme([currentTheme EXCEPT !.stops = Append(@, @[Len(@)])])
RemoveStop ==
    /\ controls.canRemove /\ Len(currentTheme.stops) > 1
    /\ setTheme([currentTheme EXCEPT !.stops = SubSeq(@, 1, Len(@) - 1)])
PickPreset(p) == controls.stops # <<>> /\ setTheme(p)
Reset == setTheme(Default)

(* The code is typed; what is not one yet changes nothing but the field,   *)
(* which shows the accent again when it is left.                           *)
TypeUnfinished ==
    /\ typing' = TRUE /\ hex' = Unfinished
    /\ UNCHANGED <<currentTheme, themeFrame, page, mirror, themeSaveTimer, file, ready,
                   controls, chosen, changes, mishaps>>
TypeCode(code) ==
    /\ typing' = TRUE /\ hex' = code
    /\ setThemeInPlace([currentTheme EXCEPT !.accent = code], [controls EXCEPT !.well = Well(code)])
LeaveField ==
    /\ typing /\ typing' = FALSE
    /\ hex' = currentTheme.accent /\ controls' = renderThemeControls(currentTheme, controls)
    /\ UNCHANGED <<currentTheme, themeFrame, page, mirror, themeSaveTimer, file, ready,
                   chosen, changes, mishaps>>

(* The half second is over: the settings are saved with the theme of now.  *)
SaveTimer ==
    /\ themeSaveTimer /\ themeSaveTimer' = FALSE
    /\ file' = currentTheme
    /\ UNCHANGED <<currentTheme, themeFrame, page, mirror, ready, controls, hex, typing,
                   chosen, changes, mishaps>>

(* init(): the file is right where the mirror differs; the language is     *)
(* applied and everything drawn.  A timer the user set goes on.            *)
ReadSettings ==
    /\ ~ready /\ ready' = TRUE
    /\ IF file = NoTheme THEN UNCHANGED <<currentTheme, themeFrame>>
       ELSE currentTheme' = file /\ themeFrame' = file
    /\ controls' = markActivePreset(currentTheme', renderThemeControls(currentTheme', controls))
    /\ hex' = IF typing THEN hex ELSE currentTheme'.accent
    /\ UNCHANGED <<page, mirror, themeSaveTimer, file, typing, chosen, changes, mishaps>>

(* The page goes away, by a reload or with the process, and comes back.    *)
Loaded ==
    /\ currentTheme' = Mirrored(mirror) /\ page' = currentTheme' /\ themeFrame' = NoTheme
    /\ themeSaveTimer' = FALSE /\ ready' = FALSE /\ typing' = FALSE
    /\ controls' = Blank /\ hex' = Unfinished /\ UNCHANGED mirror
Relaunch ==
    /\ changes < MaxChanges /\ changes' = changes + 1
    /\ Loaded /\ UNCHANGED <<file, chosen>>
    /\ mishaps' = IF themeSaveTimer THEN mishaps \cup {"lost"} ELSE mishaps
(* An import has written another theme before the page is loaded anew.     *)
Import(t) ==
    /\ changes < MaxChanges /\ changes' = changes + 1 /\ ready
    /\ Loaded /\ file' = t /\ UNCHANGED chosen /\ mishaps' = mishaps \cup {"other"}

Next ==
    \/ applyPendingTheme \/ SaveTimer \/ ReadSettings
    \/ \E c \in Colours : PickAccent(c) \/ \E i \in 1..3 : PickStop(i, c)
    \/ \E a \in Angles : SetAngle(a)
    \/ \E s \in Schemes : SetScheme(s)
    \/ \E m \in Modes : SetMode(m)
    \/ \E p \in Presets : PickPreset(p) \/ Import(p)
    \/ AddStop \/ RemoveStop \/ Reset
    \/ TypeUnfinished \/ \E code \in Codes : TypeCode(code)
    \/ LeaveField \/ Relaunch

Spec == Init /\ [][Next]_vars

-----------------------------------------------------------------------------
AtRest == ready /\ themeFrame = NoTheme /\ ~themeSaveTimer

(* When nothing is pending, the page, its mirror and the file have the     *)
(* theme of the settings tab, whatever was dragged, typed, imported or     *)
(* lost on the way: the last frame and the last save carry the last theme. *)
ThemeIsOne ==
    AtRest /\ file # NoTheme => page = currentTheme /\ mirror = currentTheme /\ file = currentTheme

(* And it is the one the user made, unless he was at it before the         *)
(* settings were read or the page went away before they were saved.        *)
ChoiceStays == AtRest /\ mishaps = {} /\ chosen # NoTheme => currentTheme = chosen

(* The controls show the theme in every state, though most handlers draw   *)
(* none of them: a drag of one leaves the others, the mark on the preset   *)
(* and the code true.  A well cannot show a short code.                    *)
ControlsAreHonest ==
    ready =>
        /\ controls = markActivePreset(currentTheme, renderThemeControls(currentTheme, controls))
        /\ ~typing => hex = currentTheme.accent
        /\ currentTheme.accent # Short => controls.well = currentTheme.accent

(* What the code does not hold: the stops a solid background hides are     *)
(* there when the user comes back to a gradient (renderer.ts:4195); the    *)
(* button that removes a stop stays enabled and takes a hidden one.        *)
HiddenStopsStay ==
    currentTheme.mode = "solid" /\ currentTheme'.mode = "solid" /\ ready' /\ ready
        => Len(currentTheme'.stops) >= Len(currentTheme.stops)
=============================================================================
