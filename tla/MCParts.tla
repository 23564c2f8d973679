------------------------------ MODULE MCParts -------------------------------
(***************************************************************************)
(* Instances for TLC of the parts of NeoBox that keep their own state and  *)
(* meet the others only where their modules say.  A behaviour is that of   *)
(* one part, which PartsInit chooses from Parts; every part has variables  *)
(* of its own, which rest as at a launch where another part is chosen.     *)
(* The QR reader and the palette have no state: v1 is the symbol, picture  *)
(* or theme they are given, v2 and v3 are the palette and the tokens.      *)
(***************************************************************************)
EXTENDS QRPicture, SystemProxy, Traffic, PageParts, PageLists

CONSTANT Parts

VARIABLES part, v1, v2, v3

(* Two sites under one suffix of two labels, and a name below one of them, *)
(* reached by one program and one that is not known.                      *)
Hosts == <<<<"x", "co", "uk">>, <<"y", "co", "uk">>, <<"a", "x", "co", "uk">>>>
Programs == <<<<<<"a">>>>, <<<<"a">>>>, <<>>>>
TwoLabels == {<<"co", "uk">>}
Alphabet == {<<<<<<"x", "co", "uk">>>>, <<<<"y", "co", "uk">>>>>>}

(* Two themes the program brings, and what is none.                        *)
World == [scheme |-> "dark", accent |-> "c1", mode |-> "linear", angle |-> 90,
          stops |-> <<"c1", "c2">>]
Paper == [World EXCEPT !.scheme = "light", !.accent = "c2", !.mode = "solid"]
TwoThemes == {World, Paper}
Themeless == [scheme |-> "no"]

(* No subscriptions, and two that share a link.                            *)
TwoSubs == <<"s", "t">>
NoLists == [s |-> <<>>, t |-> <<>>]
TwoLists == {NoLists, [s |-> <<2, 1>>, t |-> <<2>>]}
Names == <<2, 1>>
Protocols == <<1, 1>>

Pal == INSTANCE Palette

(***************************************************************************)
(* Symbols: every mode and mask shape, one and several blocks, sizes with  *)
(* and without an alignment pattern and a version code, up to as many hurt *)
(* codewords and wrong bits as a block and a code may have, in a mirror.   *)
(* Pictures: turned, scaled, shaded, inverted.                             *)
(***************************************************************************)
Digits(n)  == [i \in 1..n |-> 48 + (i % 10)]
Letters(n) == [i \in 1..n |-> 65 + (i % 26)]
In(mode, chars) == [mode |-> mode, chars |-> chars]
Plain == [version |-> 1, level |-> 0, mask |-> 0, segments |-> <<In(1, Digits(41))>>,
          hurt |-> 0, wrong |-> {}, mirror |-> FALSE, eci |-> FALSE]
Symbols == <<
    Plain,
    [Plain EXCEPT !.hurt = 3, !.wrong = {1, 7, 15}],
    [Plain EXCEPT !.mirror = TRUE, !.mask = 6],
    [Plain EXCEPT !.eci = TRUE, !.segments = <<In(4, <<1071, 8364>>)>>, !.mask = 7],
    [Plain EXCEPT !.version = 2, !.mask = 3, !.level = 1],
    [Plain EXCEPT !.version = 7, !.level = 3, !.mask = 5, !.hurt = 13, !.wrong = {2, 3, 4},
        !.segments = <<In(4, <<1071, 8364, 128512, 65>>), In(8, <<33089, 60000>>),
                       In(2, Letters(11))>>],
    [Plain EXCEPT !.version = 10, !.level = 2, !.mask = 4, !.hurt = 2,
        !.segments = <<In(4, Letters(100))>>] >>
Straight == [symbol |-> Plain, a |-> 3, b |-> 0, width |-> 90, height |-> 88,
             origin |-> <<24, 24>>, dark |-> 20, light |-> 90, shade |-> 1, inverted |-> FALSE]
Pictures == <<
    Straight,
    [Straight EXCEPT !.inverted = TRUE],
    [Straight EXCEPT !.b = 1, !.width = 107, !.height = 107, !.origin = <<60, 20>>],
    [Straight EXCEPT !.dark = 60, !.light = 130, !.shade = 4, !.symbol.hurt = 3,
        !.symbol.wrong = {1, 2}],
    [Straight EXCEPT !.a = 2, !.b = 2, !.symbol.mirror = TRUE, !.height = 120, !.width = 125,
        !.origin = <<120, 8>>],
    [Straight EXCEPT !.symbol.version = 2, !.shade = 2, !.width = 100] >>

(* Themes: those the program brings, and both schemes over every pair of   *)
(* black, white, grey and strong colours.                                  *)
Strong == {Pal!Hex(0, 0, 0), Pal!Hex(255, 255, 255), Pal!Hex(128, 128, 128),
           Pal!Hex(0, 255, 0), Pal!Hex(128, 0, 128), Pal!Hex(0, 0, 255)}
Themes == {Pal!PRESETS[n] : n \in DOMAIN Pal!PRESETS}
          \cup [scheme: {"dark", "light"}, mode: {"linear"}, stops: Strong \X Strong,
                accent: {Pal!Hex(255, 255, 255), Pal!Hex(128, 0, 0)}]

PartsInit ==
    /\ part \in Parts
    /\ Init /\ (part = "proxy" \/ users = None)
    /\ TrafficInit
    /\ Hot!Init /\ (part # "hotkeys" => ~tick /\ others = {} /\ fields = <<Unusable, Unusable>>)
    /\ Bdg!Init /\ (part # "badges" => ~stuck /\ ~box)
    /\ Adr!Init
    /\ Dns!Init /\ (part # "dns" => dnsSaved = DefaultResolver)
    /\ Dia!Init /\ (part # "dialogs" => focus = "body")
    /\ Cam!Init
    /\ His!Init /\ (part # "history" => legacy = {} /\ historyFile = {})
    /\ Scr!Init /\ (part # "screen" => goVisible)
    /\ Sav!Init
    /\ Thm!Init /\ (part # "theme" => themeFile = NoTheme)
    /\ Log!Init
    /\ Con!Init
    /\ Srv!Init /\ (part # "servers" => subscriptions = NoLists /\ favoriteLinks = {}
                                        /\ activeServerLink = NoLink)
    /\ \/ part = "qr" /\ v1 \in 1..(Len(Symbols) + Len(Pictures)) /\ v2 = 0 /\ v3 = 0
       \/ part = "palette" /\ v1 \in Themes
          /\ v2 = Pal!buildPalette(v1) /\ v3 = Pal!deriveTokens(v1, v2)
       \/ part \notin {"qr", "palette"} /\ v1 = 0 /\ v2 = 0 /\ v3 = 0

OwnVars == <<part, v1, v2, v3>>
BackEndVars == <<vars, trafficVars>>
PageVars == <<hotVars, bdgVars, adrVars, dnsVars, diaVars, camVars, hisVars, scrVars,
             savVars, thmVars, logVars, conVars, srvVars>>
allVars == <<OwnVars, BackEndVars, PageVars>>
PartsNext ==
    \/ part = "proxy" /\ Next /\ UNCHANGED <<OwnVars, trafficVars, PageVars>>
    \/ part = "traffic" /\ TrafficNext /\ UNCHANGED <<OwnVars, vars, PageVars>>
    \/ /\ UNCHANGED <<OwnVars, BackEndVars>>
       /\ \/ /\ part = "hotkeys" /\ Hot!Next
             /\ UNCHANGED <<bdgVars, adrVars, dnsVars, diaVars, camVars, hisVars, scrVars,
                        savVars, thmVars, logVars, conVars, srvVars>>
          \/ /\ part = "badges" /\ Bdg!Next
             /\ UNCHANGED <<hotVars, adrVars, dnsVars, diaVars, camVars, hisVars, scrVars,
                        savVars, thmVars, logVars, conVars, srvVars>>
          \/ /\ part = "address" /\ Adr!Next
             /\ UNCHANGED <<hotVars, bdgVars, dnsVars, diaVars, camVars, hisVars, scrVars,
                        savVars, thmVars, logVars, conVars, srvVars>>
          \/ /\ part = "dns" /\ Dns!Next
             /\ UNCHANGED <<hotVars, bdgVars, adrVars, diaVars, camVars, hisVars, scrVars,
                        savVars, thmVars, logVars, conVars, srvVars>>
          \/ /\ part = "dialogs" /\ Dia!Next
             /\ UNCHANGED <<hotVars, bdgVars, adrVars, dnsVars, camVars, hisVars, scrVars,
                        savVars, thmVars, logVars, conVars, srvVars>>
          \/ /\ part = "camera" /\ Cam!Next
             /\ UNCHANGED <<hotVars, bdgVars, adrVars, dnsVars, diaVars, hisVars, scrVars,
                        savVars, thmVars, logVars, conVars, srvVars>>
          \/ /\ part = "history" /\ His!Next
             /\ UNCHANGED <<hotVars, bdgVars, adrVars, dnsVars, diaVars, camVars, scrVars,
                        savVars, thmVars, logVars, conVars, srvVars>>
          \/ /\ part = "screen" /\ Scr!Next
             /\ UNCHANGED <<hotVars, bdgVars, adrVars, dnsVars, diaVars, camVars, hisVars,
                        savVars, thmVars, logVars, conVars, srvVars>>
          \/ /\ part = "settings" /\ Sav!Next
             /\ UNCHANGED <<hotVars, bdgVars, adrVars, dnsVars, diaVars, camVars, hisVars,
                        scrVars, thmVars, logVars, conVars, srvVars>>
          \/ /\ part = "theme" /\ Thm!Next
             /\ UNCHANGED <<hotVars, bdgVars, adrVars, dnsVars, diaVars, camVars, hisVars,
                        scrVars, savVars, logVars, conVars, srvVars>>
          \/ /\ part = "log" /\ Log!Next
             /\ UNCHANGED <<hotVars, bdgVars, adrVars, dnsVars, diaVars, camVars, hisVars,
                        scrVars, savVars, thmVars, conVars, srvVars>>
          \/ /\ part = "connections" /\ Con!Next
             /\ UNCHANGED <<hotVars, bdgVars, adrVars, dnsVars, diaVars, camVars, hisVars,
                        scrVars, savVars, thmVars, logVars, srvVars>>
          \/ /\ part = "servers" /\ Srv!Next
             /\ UNCHANGED <<hotVars, bdgVars, adrVars, dnsVars, diaVars, camVars, hisVars,
                        scrVars, savVars, thmVars, logVars, conVars>>

PartsSpec == PartsInit /\ [][PartsNext]_allVars

(***************************************************************************)
(* Properties, each with its name in the module that states it.            *)
(***************************************************************************)
(* Whatever theme is picked, the texts drawn in its colours can be read    *)
(* and colours keep their hue, and the themes the program brings are drawn *)
(* as they are (buildPalette, deriveTokens).                               *)
PaletteIsLegible ==
    part = "palette" => /\ Pal!Legible(v1, v2, v3) /\ Pal!HueKept(v1, v2)
                        /\ Pal!PresetsAreThemselves(v1, v2, v3)
(* Every symbol within the tolerance of its codes is read as it was        *)
(* written (jsQR.js).                                                      *)
SymbolsAreRead ==
    part = "qr" =>
        IF v1 \in DOMAIN Symbols
        THEN decode(Written(Symbols[v1])) = TextWritten(Symbols[v1])
        ELSE LET picture == Pictures[v1 - Len(Symbols)]
             IN  Read(picture) = TextWritten(picture.symbol)
=============================================================================
