----------------------------- MODULE BetPayouts -----------------------------
(***************************************************************************)
(* One bet, from the click on the screen to the cash it pays.              *)
(*                                                                         *)
(* The cashier of agent-web picks a bet on the roulette table              *)
(* (OddsTable, BettingGrid) or fills a Keno card (Keno, KenoGrid); the     *)
(* table lights the numbers a zone covers while the mouse is over it.  The *)
(* ticket-service settles the bet with tables of its own (rules.py,        *)
(* keno_rules.py), and four screens announce its largest gain with four    *)
(* more.  No table is shared: the properties say where they must agree.    *)
(*                                                                         *)
(* The target of a bet is a string in the code and the sequence of its     *)
(* parts here.  Keno multipliers are hundredths.  Keno numbers are         *)
(* interchangeable for a payout, so that a card is how many are ticked.    *)
(*                                                                         *)
(* BetInit, BetNext and BetSpec are named after the bet, so that one       *)
(* module can extend this one and the terminal of the cashier.             *)
(***************************************************************************)
EXTENDS Integers, Sequences, FiniteSets

CONSTANTS
  Games,   \* "roulette" and "keno", or one of them
  Enabled, \* ENABLED_BET_TYPES
  Stakes,  \* the stakes used, of those the pages offer
  MaxLine, \* how often the same bet is added to the slip: a bound of the model
  MaxGain  \* the largest gain of a line: a bound of the model

\* What the repository ships.
ENABLED_BET_TYPES == {"STRAIGHT", "MIRROR", "DOZEN", "COLOR", "EVEN_ODD", "HALF",
                      "HALF_COLOR", "SECTOR", "LINES"}

\* The types BettingGrid has a zone for; STREET and SIX_LINE need a mode that
\* OddsTable has no button for.
ZoneTypes == ENABLED_BET_TYPES \cup {"SPLIT", "CORNER", "COLUMN"}

\* What the stake selector of both pages, and the spots selector of the Keno page, offer.
STAKE_PRESETS == {100, 200, 500, 1000, 2000, 5000, 10000}
SPOTS_PRESETS == 1..11

ASSUME PayoutsAssumption ==
  /\ Games \subseteq {"roulette", "keno"}
  /\ Enabled \subseteq ZoneTypes
  /\ Stakes \subseteq STAKE_PRESETS
  /\ {MaxLine, MaxGain} \subseteq Nat \ {0}

VARIABLES
  game,
  open,     \* isBettingOpen
  mode,     \* betMode of the roulette page
  hovered,  \* the zone under the mouse
  maxSpots, \* of the Keno page
  picks,    \* how many numbers are ticked
  bet,      \* the line of the slip
  outcome   \* the winning number, or the matches of the card

betVars == <<game, open, mode, hovered, maxSpots, picks, bet, outcome>>

NoZone == [type |-> "none", target |-> <<>>]
NoBet == [type |-> "none", target |-> <<>>, spots |-> 0, amount |-> 0, sold |-> FALSE]
NotDrawn == -1

SeqRange(s) == {s[i] : i \in DOMAIN s}
-----------------------------------------------------------------------------
(* The settlement: rules.py and keno_rules.py.                             *)

RED_NUMBERS == {1, 3, 5, 7, 9, 12, 14, 16, 18, 19, 21, 23, 25, 27, 30, 32, 34, 36}
BLACK_NUMBERS == {2, 4, 6, 8, 10, 11, 13, 15, 17, 20, 22, 24, 26, 28, 29, 31, 33, 35}

SECTORS == <<{32, 15, 19, 4, 21, 2}, {25, 17, 34, 6, 27, 13}, {36, 11, 30, 8, 23, 10},
             {5, 24, 16, 33, 1, 20}, {14, 31, 9, 22, 18, 29}, {7, 28, 12, 35, 3, 26}>>

\* The two parts of "LOW_RED" and their kind; "RED" and "EVEN" alone likewise.
RED == 1
BLACK == 2
EVEN == 0
ODD == 1

\* EVEN_ODD: zero is neither.
Parity(p) == {n \in 1..36 : n % 2 = p}

\* The numbers a roulette bet wins on: the conditions of _calculate_payout_raw.
\* Zero belongs to no outside bet.
WinsOn(b) ==
  LET t == b.target IN
  CASE b.type \in {"STRAIGHT", "SPLIT", "CORNER"} -> SeqRange(t)
    [] b.type = "COLUMN" -> {n \in 1..36 : n % 3 = t[1] % 3}
    [] b.type = "DOZEN" -> (12 * t[1] - 11)..(12 * t[1])
    [] b.type = "COLOR" -> IF t[1] = RED THEN RED_NUMBERS ELSE BLACK_NUMBERS
    [] b.type = "EVEN_ODD" -> Parity(t[1])
    [] b.type \in {"HALF", "LINES"} -> t[1]..t[2]
    [] b.type = "SECTOR" -> SECTORS[t[1]]
    [] b.type = "HALF_COLOR" -> (IF t[1] = 1 THEN 1..18 ELSE 19..36)
                                \cap (IF t[2] = RED THEN RED_NUMBERS ELSE BLACK_NUMBERS)
    [] b.type = "MIRROR" -> IF t \in {<<1, 10>>, <<2, 20>>, <<3, 30>>, <<12, 21>>,
                                      <<13, 31>>, <<23, 32>>}
                            THEN SeqRange(t) ELSE {}

Factor == [STRAIGHT |-> 36, SPLIT |-> 18, CORNER |-> 9, COLUMN |-> 3, DOZEN |-> 3,
           COLOR |-> 2, EVEN_ODD |-> 2, HALF |-> 2, SECTOR |-> 6, HALF_COLOR |-> 4,
           LINES |-> 2, MIRROR |-> 18]

\* KENO_PAYTABLE of the server, by spots, then by matches from 0 on: what the
\* dictionary misses is 0.
ServerPaytable ==
  << <<0, 274>>,
     <<0, 101, 503>>,
     <<0, 0, 269, 2240>>,
     <<0, 0, 99, 396, 9900>>,
     <<0, 0, 0, 193, 1930, 45000>>,
     <<0, 0, 0, 99, 692, 4940, 160000>>,
     <<0, 0, 0, 97, 292, 1950, 9750, 500000>>,
     <<0, 0, 0, 0, 198, 992, 4960, 99200, 1500000>>,
     <<0, 0, 0, 0, 98, 490, 2450, 19600, 392400, 4000000>>,
     <<163, 0, 0, 0, 81, 163, 1630, 6500, 40600, 812600, 10000000>>,
     <<198, 0, 0, 0, 0, 99, 991, 4950, 24800, 148600, 1486300, 50000000>> >>

Multiplier(spots, matches) ==
  IF spots \in 1..11 /\ matches \in 0..spots
  THEN ServerPaytable[spots][matches + 1] ELSE 0

\* An amount times hundredths, rounded down, without leaving TLC's integers.
Times(amount, hundredths) ==
  (amount \div 100) * hundredths + ((amount % 100) * hundredths) \div 100

PAYOUT_DENOMINATION == 50

\* Mutant of RoundDown: payable in notes only.
RoundDownToNotes(amount) == (amount \div 100) * 100

\* _round_down_to_denomination: what a cashier can pay out in coins.
RoundDown(amount) == (amount \div PAYOUT_DENOMINATION) * PAYOUT_DENOMINATION

\* calculate_payout and calculate_keno_payout.
Payout(b, result) ==
  RoundDown(CASE b.type = "KENO" -> Times(b.amount, Multiplier(b.spots, result))
              [] OTHER -> IF result \in WinsOn(b) THEN b.amount * Factor[b.type] ELSE 0)
-----------------------------------------------------------------------------
(* The table on the screen.                                                *)

\* RouletteHelpers: columns 0..11 from the left, row 0 is the highest.
NumberAt(col, row) == (3 - row) + col * 3
ColOf(n) == (n - 1) \div 3
RowOf(n) == 2 - ((n - 1) % 3)

Zone(type, target) == [type |-> type, target |-> target]

\* The number cells and the zero.
Cells == {Zone("STRAIGHT", <<n>>) : n \in 0..36}

\* The handles between the cells, with the bet of handleSplitH, handleSplitV and
\* handleCorner.
Handles ==
  {Zone("SPLIT", <<n, NumberAt(ColOf(n) + 1, RowOf(n))>>) : n \in {m \in 1..36 : ColOf(m) < 11}}
  \cup {Zone("SPLIT", <<n, NumberAt(ColOf(n), RowOf(n) - 1)>>) : n \in {m \in 1..36 : RowOf(m) > 0}}
  \cup {Zone("CORNER", <<n, NumberAt(ColOf(n), RowOf(n) - 1), NumberAt(ColOf(n) + 1, RowOf(n)),
                         NumberAt(ColOf(n) + 1, RowOf(n) - 1)>>) :
          n \in {m \in 1..36 : ColOf(m) < 11 /\ RowOf(m) > 0}}

Halves == {<<1, 18>>, <<19, 36>>}
Bands == {<<1, 6>>, <<7, 12>>, <<13, 18>>, <<19, 24>>, <<25, 30>>, <<31, 36>>}
Mirrors == {<<1, 10>>, <<2, 20>>, <<3, 30>>, <<12, 21>>, <<13, 31>>, <<23, 32>>}

\* The buttons around the cells: OutBtn and the columns.
OutsideZones ==
  {Zone("COLUMN", <<c>>) : c \in 1..3} \cup {Zone("DOZEN", <<d>>) : d \in 1..3}
  \cup {Zone("COLOR", <<c>>) : c \in {RED, BLACK}}
  \cup {Zone("EVEN_ODD", <<p>>) : p \in {EVEN, ODD}}
  \cup {Zone("HALF", h) : h \in Halves}
  \cup {Zone("HALF_COLOR", <<h, c>>) : h \in 1..2, c \in {RED, BLACK}}
  \cup {Zone("MIRROR", m) : m \in Mirrors}
  \cup {Zone("SECTOR", <<s>>) : s \in 1..6}
  \cup {Zone("LINES", b) : b \in Bands}

\* Only SPLIT, CORNER and COLUMN are hidden when they are not enabled.
Zones == Cells \cup {z \in Handles \cup OutsideZones :
                       z.type \in {"SPLIT", "CORNER", "COLUMN"} => z.type \in Enabled}

\* allow and cellsClickable.
Allow(m, z) == m \in {"none", z.type}

\* RED_NUMBERS and WHEEL_SECTORS of agent-web.
RedOnScreen == {1, 3, 5, 7, 9, 12, 14, 16, 18, 19, 21, 23, 25, 27, 30, 32, 34, 36}
WHEEL_SECTORS == <<{32, 15, 19, 4, 21, 2}, {25, 17, 34, 6, 27, 13}, {36, 11, 30, 8, 23, 10},
                   {5, 24, 16, 33, 1, 20}, {14, 31, 9, 22, 18, 29}, {7, 28, 12, 35, 3, 26}>>

\* Mutant of Within: the last number of a band is left out.
WithinHalfOpen(band, n) == n >= band[1] /\ n < band[2]

\* The bands of the halves and of the lines.
Within(band, n) == n >= band[1] /\ n <= band[2]

\* inHoveredOutsideGroup, for a cell n of 1..36.
InHoveredGroup(z, n) ==
  CASE z.type \in {"HALF", "LINES"} -> Within(z.target, n)
    [] z.type = "EVEN_ODD" -> n % 2 = (IF z.target[1] = EVEN THEN 0 ELSE 1)
    [] z.type = "COLOR" -> (n \in RedOnScreen) <=> z.target[1] = RED
    [] z.type = "DOZEN" -> n > 12 * (z.target[1] - 1) /\ n <= 12 * z.target[1]
    [] z.type = "COLUMN" -> n % 3 = z.target[1] % 3
    [] z.type = "SECTOR" -> n \in WHEEL_SECTORS[z.target[1]]
    [] z.type = "MIRROR" -> n \in SeqRange(z.target)
    [] z.type = "HALF_COLOR" ->
         /\ IF z.target[1] = 1 THEN n <= 18 ELSE n >= 19
         /\ (n \in RedOnScreen) <=> z.target[2] = RED
    [] OTHER -> FALSE

\* The cells that light up (showHoverFx): those of the button under the mouse,
\* whatever the mode, or the cell itself when it can be clicked.
Lit(m, z) ==
  {n \in 1..36 : InHoveredGroup(z, n)}
  \cup (IF z \in Cells /\ Allow(m, z) THEN {z.target[1]} ELSE {})

\* GROUPS: the modes OddsTable has a button for.
Groups == {"STRAIGHT", "DOZEN", "COLOR", "EVEN_ODD", "HALF", "HALF_COLOR", "MIRROR",
           "SECTOR", "LINES"}
-----------------------------------------------------------------------------
(* What the screens announce as the largest gain.                          *)

BET_MODES == [STRAIGHT |-> 36, MIRROR |-> 18, SPLIT |-> 18, CORNER |-> 9, SECTOR |-> 6,
              HALF_COLOR |-> 4, COLUMN |-> 3, DOZEN |-> 3, COLOR |-> 2, EVEN_ODD |-> 2,
              HALF |-> 2, LINES |-> 2]

\* KENO_PAYTABLE of KenoGrid, dense: row s has s + 1 entries, or one for 0.
GridPaytable ==
  << <<0, 274>>, <<0, 101, 503>>, <<0, 0, 269, 2240>>, <<0, 0, 99, 396, 9900>>,
     <<0, 0, 0, 193, 1930, 45000>>, <<0, 0, 0, 99, 692, 4940, 160000>>,
     <<0, 0, 0, 97, 292, 1950, 9750, 500000>>,
     <<0, 0, 0, 0, 198, 992, 4960, 99200, 1500000>>,
     <<0, 0, 0, 0, 98, 490, 2450, 19600, 392400, 4000000>>,
     <<163, 0, 0, 0, 81, 163, 1630, 6500, 40600, 812600, 10000000>>,
     <<198, 0, 0, 0, 0, 99, 991, 4950, 24800, 148600, 1486300, 50000000>> >>

\* maxMultiplier: the last entry that is not 0.
MaxMultiplier(spots) ==
  LET row == GridPaytable[spots]
      last == CHOOSE i \in DOMAIN row : row[i] > 0 /\ \A j \in (i + 1)..Len(row) : row[j] = 0
  IN row[last]

KENO_MAX_MULTIPLIER == <<274, 503, 2240, 9900, 45000, 160000, 500000, 1500000, 4000000,
                         10000000, 50000000>>

\* The largest power of two up to n.
Binade[n \in Nat] == IF n <= 1 THEN 1 ELSE 2 * Binade[n \div 2]

\* Math.floor of a product of doubles.  The multipliers of the table are whole but for
\* 2.74 and 5.03, which are stored a little too high, and 22.4, of 3 spots, which is
\* stored 0.4 * 2^-48 too low.  A stake of q hundreds times the stored 22.4 falls short
\* of 2240 q by 40 q * 2^-48.  It is rounded to 2240 q if that is less than half the
\* distance of the doubles below 2240 q, 2^-52 times its binade; else the floor is one less.
FlooredShort(b) ==
  LET q == b.amount \div 100 IN
  b.type = "KENO" /\ b.spots = 3 /\ Binade[2240 * q] < 1280 * q

\* betMultiplier of the receipt of agent-web: its catalogue for the roulette has the
\* factors of BET_MODES; the standalone API sends no odds.
BetMultiplier(b) ==
  IF b.type = "KENO" THEN KENO_MAX_MULTIPLIER[b.spots] ELSE 100 * BET_MODES[b.type]

\* Mutant of ReceiptGain: the receipt reads the table of one spot less.
ReceiptGainOfLessSpots(b) ==
  IF b.type = "KENO"
  THEN Times(b.amount, KENO_MAX_MULTIPLIER[IF b.spots = 1 THEN 1 ELSE b.spots - 1])
  ELSE b.amount * BET_MODES[b.type]

\* maxGain of that receipt, for one line.
ReceiptGain(b) ==
  Times(b.amount, BetMultiplier(b)) - (IF FlooredShort(b) THEN 1 ELSE 0)

\* MULT of BetSlip and of the list of sales: what is missing counts once.
SlipGain(b) ==
  b.amount * (IF b.type \in {"KENO", "LINES", "MIRROR"} THEN 1 ELSE BET_MODES[b.type])

\* BET_MULTIPLIERS of the receipt of the back office.
AdminGain(b) ==
  b.amount * (IF b.type \in {"KENO", "LINES", "MIRROR", "SECTOR", "HALF_COLOR"} THEN 1
              ELSE BET_MODES[b.type])
-----------------------------------------------------------------------------
BetTypeOK ==
  /\ game \in Games
  /\ open \in BOOLEAN
  /\ mode \in {"none"} \cup Groups
  /\ hovered \in {NoZone} \cup Zones
  /\ maxSpots \in SPOTS_PRESETS
  /\ picks \in 0..maxSpots
  /\ bet.type \in {"none", "KENO"} \cup ZoneTypes
  /\ bet.amount \in Nat
  /\ outcome \in NotDrawn..36

BetInit ==
  /\ game \in Games
  /\ open \in BOOLEAN
  /\ mode = "none"
  /\ hovered = NoZone
  /\ maxSpots = 5
  /\ picks = 0
  /\ bet = NoBet
  /\ outcome = NotDrawn

\* The mouse and the mode can move at any time.  They matter to a click only, so
\* that the model keeps them still while a line is on the slip or sold.

\* A button of OddsTable: the mode it stands for, or none when it was active.
ChooseMode(m) ==
  /\ game = "roulette"
  /\ bet = NoBet
  /\ m \in Groups \cap Enabled
  /\ mode' = IF mode = m THEN "none" ELSE m
  /\ UNCHANGED <<game, open, hovered, maxSpots, picks, bet, outcome>>

ResetMode ==
  /\ mode # "none"
  /\ bet = NoBet
  /\ mode' = "none"
  /\ UNCHANGED <<game, open, hovered, maxSpots, picks, bet, outcome>>

\* onMouseEnter and onMouseLeave of a zone.
Point(z) ==
  /\ game = "roulette"
  /\ bet = NoBet
  /\ hovered' = IF hovered = z THEN NoZone ELSE z
  /\ UNCHANGED <<game, open, mode, maxSpots, picks, bet, outcome>>

\* addBet of the page: the same bet again adds to its amount.
Add(type, target, spots, stake) ==
  LET line == [type |-> type, target |-> target, spots |-> spots,
               amount |-> bet.amount + stake, sold |-> FALSE] IN
  /\ bet.amount < MaxLine * stake
  /\ line.amount \div 100 <= MaxGain \div BetMultiplier(line)
  /\ bet' = line

\* onClick of the zone under the mouse: a dimmed or disabled one does nothing.
ClickZone(stake) ==
  /\ game = "roulette"
  /\ open
  /\ hovered # NoZone
  /\ Allow(mode, hovered)
  /\ ~bet.sold
  /\ bet # NoBet => bet.type = hovered.type /\ bet.target = hovered.target
  /\ Add(hovered.type, hovered.target, 0, stake)
  /\ UNCHANGED <<game, open, mode, hovered, maxSpots, picks, outcome>>

\* handleClick of KenoGrid and handleToggle of the page: on a number that is not
\* ticked, and on one that is.
Tick ==
  /\ game = "keno"
  /\ open
  /\ picks < maxSpots
  /\ picks' = picks + 1
  /\ UNCHANGED <<game, open, mode, hovered, maxSpots, bet, outcome>>

Untick ==
  /\ game = "keno"
  /\ open
  /\ picks > 0
  /\ picks' = picks - 1
  /\ UNCHANGED <<game, open, mode, hovered, maxSpots, bet, outcome>>

\* handleSpotsChange: trims the picks.
ChangeSpots(s) ==
  /\ game = "keno"
  /\ maxSpots' = s
  /\ picks' = IF picks > s THEN s ELSE picks
  /\ UNCHANGED <<game, open, mode, hovered, bet, outcome>>

\* addToSlip.  A second card of other numbers would be a second line.
AddToSlip(stake) ==
  /\ game = "keno"
  /\ open
  /\ picks > 0
  /\ ~bet.sold
  /\ bet # NoBet => bet.spots = picks
  /\ Add("KENO", <<>>, picks, stake)
  /\ picks' = 0
  /\ UNCHANGED <<game, open, mode, hovered, maxSpots, outcome>>

\* The ticket is sold; the slip is empty again, what is left here is the ticket.
SellBet ==
  /\ open
  /\ bet # NoBet
  /\ ~bet.sold
  /\ bet' = [bet EXCEPT !.sold = TRUE]
  /\ UNCHANGED <<game, open, mode, hovered, maxSpots, picks, outcome>>

\* The page sees betting close, or open again.
Toggle ==
  /\ ~bet.sold
  /\ open' = ~open
  /\ UNCHANGED <<game, mode, hovered, maxSpots, picks, bet, outcome>>

Results == IF game = "keno" THEN 0..bet.spots ELSE 0..36

Draw(result) ==
  /\ bet.sold
  /\ outcome = NotDrawn
  /\ outcome' = result
  /\ open' = FALSE
  /\ UNCHANGED <<game, mode, hovered, maxSpots, picks, bet>>

NextTicket ==
  /\ outcome # NotDrawn
  /\ bet' = NoBet
  /\ outcome' = NotDrawn
  /\ open' = TRUE
  /\ UNCHANGED <<game, mode, hovered, maxSpots, picks>>

BetNext ==
  \/ \E m \in Groups : ChooseMode(m)
  \/ ResetMode
  \/ \E z \in Zones : Point(z)
  \/ \E stake \in Stakes : ClickZone(stake)
  \/ Tick
  \/ Untick
  \/ \E s \in SPOTS_PRESETS : ChangeSpots(s)
  \/ \E stake \in Stakes : AddToSlip(stake)
  \/ SellBet
  \/ Toggle
  \/ \E result \in Results : Draw(result)
  \/ NextTicket

BetSpec == BetInit /\ [][BetNext]_betVars
-----------------------------------------------------------------------------
\* What the cashier shows the player is what is settled: as long as a click on
\* the zone under the mouse would place a bet, the numbers that are lit (and the
\* zero, whose cell lights by itself) are those on which ticket-service pays it.
\* BettingGrid and rules.py share no table.
LitIsWhatPays ==
  (hovered # NoZone /\ hovered.type \notin {"SPLIT", "CORNER"} /\ Allow(mode, hovered))
    => Lit(mode, hovered)
         = {n \in 0..36 : Payout([type |-> hovered.type, target |-> hovered.target,
                                  amount |-> 100], n) > 0}

\* A settled line never pays more than the receipt announced, except for the franc the
\* receipt loses on some cards of 3 spots (FlooredShort; 55 hundreds are the first of
\* those to be paid it).  When everything on the line came out it pays that gain, short of
\* what cannot be paid in coins; and no other screen announces more than the receipt.
ReceiptGainIsPaid ==
  outcome # NotDrawn =>
    /\ \/ Payout(bet, outcome) <= ReceiptGain(bet)
       \/ FlooredShort(bet) /\ Payout(bet, outcome) = ReceiptGain(bet) + 1
    /\ (bet.type # "KENO" /\ outcome \in WinsOn(bet)) \/ (bet.type = "KENO" /\ outcome = bet.spots)
         => ReceiptGain(bet) - Payout(bet, outcome) < PAYOUT_DENOMINATION
    /\ {SlipGain(bet), AdminGain(bet)} \subseteq 0..ReceiptGain(bet)
    /\ bet.type = "KENO" =>
         Times(bet.amount, MaxMultiplier(bet.spots)) - ReceiptGain(bet)
           = IF FlooredShort(bet) THEN 1 ELSE 0

\* Rounding never turns a winning line into a lost ticket: whatever stake the pages
\* offer, a number that wins and a match count of the table pay something.
WinningLinePays ==
  outcome # NotDrawn =>
    ((IF bet.type = "KENO" THEN Multiplier(bet.spots, outcome) > 0 ELSE outcome \in WinsOn(bet))
       => Payout(bet, outcome) > 0)
=============================================================================
