------------------------------- MODULE Palette -------------------------------
(***************************************************************************)
(* The colours the window derives from a theme (modules/theme.ts and       *)
(* color.ts): the user's background is made dark or light enough for the   *)
(* text of its scheme, and every role that is read is moved in lightness   *)
(* until it stands out from the worst of the background.  The report in    *)
(* the settings tells the user of both.                                    *)
(*                                                                         *)
(* A colour is its three channels in 64ths of a byte, so that the films    *)
(* and the searches of lightness, which are fractions in the code, have a  *)
(* value; luminance is in millionths, a ratio of contrast in thousandths.  *)
(* The panels' tint (backgroundHue, trigonometry) carries no text that is  *)
(* measured and is left out.  Only TLC evaluates this module.              *)
(***************************************************************************)
EXTENDS Integers, Sequences, SequencesExt

Unit == 64
White == 255 * Unit

Tuple(f, n) == SubSeq(f, 1, n)   \* evaluated once by TLC
Hex(r, g, b) == <<r * Unit, g * Unit, b * Unit>>
MaxOf(c) == IF c[1] >= c[2] /\ c[1] >= c[3] THEN c[1] ELSE IF c[2] >= c[3] THEN c[2] ELSE c[3]
MinOf(c) == IF c[1] <= c[2] /\ c[1] <= c[3] THEN c[1] ELSE IF c[2] <= c[3] THEN c[2] ELSE c[3]
Clamp(v, lo, hi) == IF v < lo THEN lo ELSE IF v > hi THEN hi ELSE v

-----------------------------------------------------------------------------
(* color.ts                                                                *)
byteOf(v) == Clamp((v + Unit \div 2) \div Unit, 0, 255) * Unit
quantize(c) == <<byteOf(c[1]), byteOf(c[2]), byteOf(c[3])>>

(* What a colour of lightness m / 2 would be with c's hue and saturation   *)
(* (rgbToHsl and back): the channels keep their proportions about the      *)
(* middle, and spread as far as the distance to black or white allows.     *)
Lightness(c) == MaxOf(c) + MinOf(c)
Span(m) == IF m <= White THEN m ELSE 2 * White - m
WithLightness(c, m) ==
    LET own == Lightness(c)
        grey == MaxOf(c) = MinOf(c)
        middle == m * Span(own)
        spread == Span(m)
        Channel(v) == (middle + (2 * v - own) * spread) \div (2 * Span(own))
    IN  IF grey THEN <<m \div 2, m \div 2, m \div 2>>
        ELSE <<Channel(c[1]), Channel(c[2]), Channel(c[3])>>

(* The light of a channel, in 100,000ths: ((v + 0.055) / 1.055) ^ 2.4.     *)
ChannelLight == <<
    0, 30, 61, 91, 121, 152, 182, 212, 243, 273, 304, 335, 368, 402, 439, 478,
    518, 561, 605, 651, 700, 750, 802, 857, 913, 972, 1033, 1096, 1161, 1229,
    1298, 1370, 1444, 1521, 1600, 1681, 1764, 1850, 1938, 2029, 2122, 2217,
    2315, 2416, 2519, 2624, 2732, 2843, 2956, 3071, 3190, 3310, 3434, 3560,
    3689, 3820, 3955, 4092, 4231, 4374, 4519, 4667, 4817, 4971, 5127, 5286,
    5448, 5613, 5781, 5951, 6125, 6301, 6480, 6663, 6848, 7036, 7227, 7421,
    7619, 7819, 8022, 8228, 8438, 8650, 8866, 9084, 9306, 9531, 9759, 9990,
    10224, 10462, 10702, 10946, 11193, 11444, 11697, 11954, 12214, 12477,
    12744, 13014, 13287, 13563, 13843, 14126, 14413, 14703, 14996, 15293,
    15593, 15896, 16203, 16513, 16827, 17144, 17465, 17789, 18116, 18447,
    18782, 19120, 19462, 19807, 20156, 20508, 20864, 21223, 21586, 21953,
    22323, 22697, 23074, 23455, 23840, 24228, 24620, 25016, 25415, 25818,
    26225, 26636, 27050, 27468, 27889, 28315, 28744, 29177, 29614, 30054,
    30499, 30947, 31399, 31855, 32314, 32778, 33245, 33716, 34191, 34670,
    35153, 35640, 36131, 36625, 37124, 37626, 38133, 38643, 39157, 39676,
    40198, 40724, 41254, 41789, 42327, 42869, 43415, 43966, 44520, 45079,
    45641, 46208, 46778, 47353, 47932, 48515, 49102, 49693, 50289, 50888,
    51492, 52100, 52712, 53328, 53948, 54572, 55201, 55834, 56471, 57112,
    57758, 58408, 59062, 59720, 60383, 61050, 61721, 62396, 63076, 63760,
    64448, 65141, 65837, 66539, 67244, 67954, 68669, 69387, 70110, 70838,
    71569, 72306, 73046, 73791, 74540, 75294, 76052, 76815, 77582, 78354,
    79130, 79910, 80695, 81485, 82279, 83077, 83880, 84687, 85499, 86316,
    87137, 87962, 88792, 89627, 90466, 91310, 92158, 93011, 93869, 94731,
    95597, 96469, 97345, 98225, 99110, 100000, 100000 >>
Interpolated(low, high, part) == low + ((high - low) * part) \div Unit
Light(v) == Interpolated(ChannelLight[v \div Unit + 1], ChannelLight[v \div Unit + 2], v % Unit)
Weighed(lights) == (2126 * lights[1] + 7152 * lights[2] + 722 * lights[3]) \div 1000
luminance(c) == Weighed([i \in 1..3 |-> Light(c[i])])

Ratio(la, lb) == IF la > lb THEN (1000 * (la + 50000)) \div (lb + 50000)
                 ELSE (1000 * (lb + 50000)) \div (la + 50000)
contrast(a, b) == Ratio(luminance(a), luminance(b))

(* A film of 5 % over a colour.                                            *)
composite(film, base) ==
    <<(film[1] + 19 * base[1]) \div 20, (film[2] + 19 * base[2]) \div 20,
      (film[3] + 19 * base[3]) \div 20>>

(* The first of the steps of half a per cent away from the base that       *)
(* reaches the target, or the one that comes closest to it.                *)
Steps == 200
StepFrom(m, base, k) ==
    IF base < 500000 THEN m + (1632 * k) \div 10 ELSE m - (1632 * k) \div 10
RECURSIVE FirstStep(_, _, _, _, _)
FirstStep(c, m, base, target, k) ==
    IF k > Steps \/ StepFrom(m, base, k) \notin 0..(2 * White) THEN k
    ELSE IF Ratio(luminance(quantize(WithLightness(c, StepFrom(m, base, k)))), base) >= target THEN k
    ELSE FirstStep(c, m, base, target, k + 1)
liftToContrast(c, base, target) ==
    LET start == quantize(c)
        m == Lightness(start)
        light == luminance(base)
        Candidate(k) == quantize(WithLightness(start, StepFrom(m, light, k)))
        first == FirstStep(start, m, light, target, 1)
        tried == 1..(first - 1)
        last == first > Steps \/ StepFrom(m, light, first) \notin 0..(2 * White)
    IN  CASE contrast(start, base) >= target -> start
          [] contrast(start, base) < target /\ ~last -> Candidate(first)
          [] OTHER -> CHOOSE best \in {start} \cup {Candidate(k) : k \in tried} :
                          \A k \in tried : contrast(best, base) >= contrast(Candidate(k), base)

(* Halving ends where two lightnesses are neighbours.                      *)
RECURSIVE Halve(_, _, _, _, _)
Halve(c, limit, lo, hi, up) ==
    IF hi - lo <= 1 THEN WithLightness(c, IF up THEN hi ELSE lo)
    ELSE LET mid == (lo + hi) \div 2
             light == luminance(WithLightness(c, mid))
         IN  IF (IF up THEN light >= limit ELSE light > limit)
             THEN Halve(c, limit, lo, mid, up) ELSE Halve(c, limit, mid, hi, up)
capLuminance(c, max) ==
    IF luminance(c) <= max THEN c ELSE Halve(c, max, 0, Lightness(c), FALSE)
floorLuminance(c, min) ==
    IF luminance(c) >= min THEN c ELSE Halve(c, min, Lightness(c), 2 * White, TRUE)

-----------------------------------------------------------------------------
(* theme.ts: a theme is its scheme, mode, accent and one to three stops of *)
(* background; the angle has no part in the colours.                       *)
AA == 4500
RAMP == [
    dark  |-> [main |-> Hex(241, 245, 249), dim |-> Hex(148, 163, 184), faint |-> Hex(147, 159, 179),
               log |-> Hex(203, 213, 225), surface |-> Hex(255, 255, 255)],
    light |-> [main |-> Hex(15, 23, 42), dim |-> Hex(71, 85, 105), faint |-> Hex(75, 88, 110),
               log |-> Hex(51, 65, 85), surface |-> Hex(11, 16, 32)]]
SIGNAL_BASE == [
    success |-> Hex(34, 197, 94), warning |-> Hex(234, 179, 8), danger |-> Hex(244, 124, 124),
    debug |-> Hex(191, 129, 249), attention |-> Hex(245, 158, 11), down |-> Hex(16, 185, 129),
    up |-> Hex(197, 142, 252), component |-> Hex(245, 127, 189)]
Reported == {"success", "warning", "danger", "debug"}

backgroundLuminanceBound(scheme) ==
    LET faint == luminance(RAMP[scheme].faint) + 50000
    IN  IF scheme = "dark" THEN (faint * 10) \div 45 - 50000 ELSE (faint * 45) \div 10 - 50000

Filmed(scheme, stop) == composite(RAMP[scheme].surface, stop)
Excess(scheme, stop) ==
    LET light == luminance(Filmed(scheme, stop))
        bound == backgroundLuminanceBound(scheme)
    IN  IF scheme = "dark" THEN light - bound ELSE bound - light
RECURSIVE Constrained(_, _, _)
Constrained(scheme, stop, passes) ==
    LET excess == Excess(scheme, stop)
        own == luminance(stop)
    IN  IF passes = 0 \/ excess <= 500 THEN stop
        ELSE Constrained(scheme,
                 IF scheme = "dark" THEN capLuminance(stop, Clamp(own - excess, 0, 1000000))
                 ELSE floorLuminance(stop, Clamp(own + excess, 0, 1000000)),
                 passes - 1)
constrainStop(scheme, stop) ==
    IF Excess(scheme, stop) <= 0 THEN stop ELSE Constrained(scheme, stop, 6)

Moved(a, b) == LET d == Lightness(a) - Lightness(b) IN IF d < 0 THEN -d ELSE d
(* More than half a per cent of lightness is called an adjustment.         *)
Noticeable(a, b) == 10 * Moved(a, b) > 1632

(* Mutant: the brightest stop is the worst in either scheme.               *)
WorseBrightest(scheme, a, b) == IF luminance(a) > luminance(b) THEN a ELSE b
Worse(scheme, a, b) ==
    IF scheme = "dark" THEN (IF luminance(a) > luminance(b) THEN a ELSE b)
    ELSE IF luminance(a) < luminance(b) THEN a ELSE b
buildPalette(spec) ==
    LET count == Len(spec.stops)
        fixed == Tuple([i \in 1..count |-> constrainStop(spec.scheme, spec.stops[i])], count)
        filmed == Tuple([i \in 1..count |-> Filmed(spec.scheme, fixed[i])], count)
        worst == FoldLeft(LAMBDA a, b : Worse(spec.scheme, a, b), filmed[1], Tail(filmed))
    IN  [stops |-> fixed, worst |-> worst, accent |-> liftToContrast(spec.accent, worst, AA)]

(* The tokens with a colour that is read or read upon, as CSS has them.    *)
Text(hex, worst) == liftToContrast(hex, worst, AA)
deriveTokens(spec, palette) ==
    LET ramp == RAMP[spec.scheme]
        black == Hex(0, 0, 0)
        white == Hex(255, 255, 255)
    IN  [background |-> [i \in DOMAIN palette.stops |-> quantize(palette.stops[i])],
         accent |-> palette.accent,
         onAccent |-> IF contrast(black, palette.accent) >= contrast(white, palette.accent)
                      THEN black ELSE white,
         text |-> [role \in {"main", "dim", "faint", "log"} |-> Text(ramp[role], palette.worst)],
         signal |-> [role \in DOMAIN SIGNAL_BASE |-> Text(SIGNAL_BASE[role], palette.worst)]]

describeTheme(spec, palette, tokens) ==
    [passesAA |-> /\ \A role \in {"main", "dim", "faint"} :
                        contrast(tokens.text[role], palette.worst) >= AA - 5
                  /\ \A role \in Reported : contrast(tokens.signal[role], palette.worst) >= AA - 5
                  /\ contrast(palette.accent, palette.worst) >= AA - 5,
     backgroundAdjusted |-> \E i \in DOMAIN spec.stops : Noticeable(palette.stops[i], spec.stops[i]),
     accentAdjusted |-> Noticeable(palette.accent, spec.accent)]

-----------------------------------------------------------------------------
(* What is read of a theme, and every surface it may stand on: the stops   *)
(* as they are shown, under the film, and in a dark gradient all that lies *)
(* between two of them.                                                    *)
Between(a, b) == {[i \in 1..3 |-> (a[i] * (4 - k) + b[i] * k) \div 4] : k \in 1..3}
Gradient(background) ==
    UNION {Between(background[i], background[i + 1]) : i \in 1..(Len(background) - 1)}
Read(tokens) ==
    {tokens.accent} \cup {tokens.text[r] : r \in DOMAIN tokens.text}
    \cup {tokens.signal[r] : r \in DOMAIN tokens.signal}
Stands(tokens, surfaces, scheme) ==
    \A colour \in Read(tokens), surface \in surfaces :
        contrast(colour, Filmed(scheme, surface)) >= AA - 25

(* Whatever the user picks, every role is read at 4.5 : 1 on the shown     *)
(* background (0.025 is allowed for half a byte of the stop), the text  *)
(* on the accent too; a dark theme stays dark and a light one light; and   *)
(* the report says that the contrast is reached (check-theme.mjs).         *)
Legible(spec, palette, tokens) ==
    LET shown == Range(tokens.background)
    IN  /\ Stands(tokens, shown, spec.scheme)
        /\ spec.scheme = "dark" /\ spec.mode # "solid" =>
               Stands(tokens, Gradient(tokens.background), spec.scheme)
        /\ contrast(tokens.onAccent, tokens.accent) >= AA
        /\ \A stop \in shown :
               IF spec.scheme = "dark" THEN luminance(stop) <= 120000 ELSE luminance(stop) >= 500000
        /\ describeTheme(spec, palette, tokens).passesAA

(* A colour keeps its hue on the way: what was the strongest and the       *)
(* weakest channel stays so (theme.ts: only the lightness moves).          *)
HueKept(spec, palette) ==
    \A n \in DOMAIN spec.stops : \A i, j \in 1..3 :
        spec.stops[n][i] >= spec.stops[n][j] => palette.stops[n][i] >= palette.stops[n][j]

(* What the engine does not look at: a light gradient is darkest between   *)
(* its stops, where the text may fall below the bound.                     *)
LegibleBetween(spec, tokens) ==
    spec.mode # "solid" => Stands(tokens, Gradient(tokens.background), spec.scheme)

DEFAULT_THEME == [scheme |-> "dark", mode |-> "linear", accent |-> Hex(56, 189, 248),
                  stops |-> <<Hex(8, 9, 9), Hex(43, 13, 51), Hex(26, 23, 72)>>]
PRESETS == <<
    DEFAULT_THEME,
    [DEFAULT_THEME EXCEPT !.accent = Hex(96, 165, 250),
        !.stops = <<Hex(5, 7, 12), Hex(11, 18, 32), Hex(17, 28, 51)>>],
    [DEFAULT_THEME EXCEPT !.accent = Hex(52, 211, 153),
        !.stops = <<Hex(4, 16, 12), Hex(7, 35, 26), Hex(11, 51, 39)>>],
    [DEFAULT_THEME EXCEPT !.accent = Hex(251, 191, 36),
        !.stops = <<Hex(16, 10, 4), Hex(35, 21, 10), Hex(51, 32, 14)>>],
    [DEFAULT_THEME EXCEPT !.accent = Hex(251, 113, 133),
        !.stops = <<Hex(16, 4, 8), Hex(38, 11, 24), Hex(54, 15, 38)>>],
    [DEFAULT_THEME EXCEPT !.mode = "radial", !.accent = Hex(167, 139, 250),
        !.stops = <<Hex(11, 11, 12), Hex(21, 21, 23), Hex(31, 31, 34)>>],
    [DEFAULT_THEME EXCEPT !.scheme = "light", !.accent = Hex(3, 105, 161),
        !.stops = <<Hex(255, 255, 255), Hex(243, 244, 246), Hex(231, 233, 238)>>] >>

(* A theme that needs no help passes through as it is: the world out of    *)
(* the box with its texts, and the background of every preset.             *)
PresetsAreThemselves(spec, palette, tokens) ==
    /\ spec = DEFAULT_THEME =>
           /\ palette.accent = spec.accent
           /\ \A role \in DOMAIN tokens.text : tokens.text[role] = RAMP.dark[role]
    /\ spec \in Range(PRESETS) => palette.stops = spec.stops
=============================================================================
