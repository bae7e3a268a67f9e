------------------------------- MODULE KanaRules ----------------------------
(***************************************************************************)
(* The rule tables of example/ime.c, and what typing a rule's letters one   *)
(* by one makes of them: every rule is tried after every key, in the order  *)
(* of the table, so an earlier rule can take letters a later one waits for. *)
(* A kana is written in capitals between brackets, a word in kanji between  *)
(* braces.                                                                  *)
(***************************************************************************)
EXTENDS Integers, SequencesExt, FiniteSetsExt

CONSTANT Spellings    \* <<letters, i>>: what the i-th rule for kanji is typed with

VARIABLE word         \* the text so far, the letters left, and their rule

TheRomaji == <<
  <<"kya", "[KI][XYA]">>, <<"kyu", "[KI][XYU]">>, <<"kyo", "[KI][XYO]">>,
  <<"gya", "[GI][XYA]">>, <<"gyu", "[GI][XYU]">>, <<"gyo", "[GI][XYO]">>,
  <<"sha", "[SI][XYA]">>, <<"shu", "[SI][XYU]">>, <<"sho", "[SI][XYO]">>,
  <<"sya", "[SI][XYA]">>, <<"syu", "[SI][XYU]">>, <<"syo", "[SI][XYO]">>,
  <<"jya", "[ZI][XYA]">>, <<"jyu", "[ZI][XYU]">>, <<"jyo", "[ZI][XYO]">>,
  <<"ja", "[ZI][XYA]">>, <<"ju", "[ZI][XYU]">>, <<"jo", "[ZI][XYO]">>,
  <<"cha", "[TI][XYA]">>, <<"chu", "[TI][XYU]">>, <<"cho", "[TI][XYO]">>,
  <<"tya", "[TI][XYA]">>, <<"tyu", "[TI][XYU]">>, <<"tyo", "[TI][XYO]">>,
  <<"nya", "[NI][XYA]">>, <<"nyu", "[NI][XYU]">>, <<"nyo", "[NI][XYO]">>,
  <<"hya", "[HI][XYA]">>, <<"hyu", "[HI][XYU]">>, <<"hyo", "[HI][XYO]">>,
  <<"bya", "[BI][XYA]">>, <<"byu", "[BI][XYU]">>, <<"byo", "[BI][XYO]">>,
  <<"pya", "[PI][XYA]">>, <<"pyu", "[PI][XYU]">>, <<"pyo", "[PI][XYO]">>,
  <<"mya", "[MI][XYA]">>, <<"myu", "[MI][XYU]">>, <<"myo", "[MI][XYO]">>,
  <<"rya", "[RI][XYA]">>, <<"ryu", "[RI][XYU]">>, <<"ryo", "[RI][XYO]">>,
  <<"shi", "[SI]">>, <<"chi", "[TI]">>, <<"tsu", "[TU]">>, <<"fu", "[HU]">>,
  <<"xtsu", "[XTU]">>, <<"xtu", "[XTU]">>, <<"xya", "[XYA]">>,
  <<"xyu", "[XYU]">>, <<"xyo", "[XYO]">>, <<"xa", "[XA]">>, <<"xi", "[XI]">>,
  <<"xu", "[XU]">>, <<"xe", "[XE]">>, <<"xo", "[XO]">>, <<"kk", "[XTU]k">>,
  <<"ss", "[XTU]s">>, <<"tt", "[XTU]t">>, <<"cc", "[XTU]c">>, <<"pp", "[XTU]p">>,
  <<"bb", "[XTU]b">>, <<"dd", "[XTU]d">>, <<"gg", "[XTU]g">>, <<"nn", "[NN]">>,
  <<"ka", "[KA]">>, <<"ki", "[KI]">>, <<"ku", "[KU]">>, <<"ke", "[KE]">>,
  <<"ko", "[KO]">>, <<"ga", "[GA]">>, <<"gi", "[GI]">>, <<"gu", "[GU]">>,
  <<"ge", "[GE]">>, <<"go", "[GO]">>, <<"sa", "[SA]">>, <<"si", "[SI]">>,
  <<"su", "[SU]">>, <<"se", "[SE]">>, <<"so", "[SO]">>, <<"za", "[ZA]">>,
  <<"zi", "[ZI]">>, <<"zu", "[ZU]">>, <<"ze", "[ZE]">>, <<"zo", "[ZO]">>,
  <<"ta", "[TA]">>, <<"ti", "[TI]">>, <<"tu", "[TU]">>, <<"te", "[TE]">>,
  <<"to", "[TO]">>, <<"da", "[DA]">>, <<"di", "[DI]">>, <<"du", "[DU]">>,
  <<"de", "[DE]">>, <<"do", "[DO]">>, <<"na", "[NA]">>, <<"ni", "[NI]">>,
  <<"nu", "[NU]">>, <<"ne", "[NE]">>, <<"no", "[NO]">>, <<"ha", "[HA]">>,
  <<"hi", "[HI]">>, <<"hu", "[HU]">>, <<"he", "[HE]">>, <<"ho", "[HO]">>,
  <<"ba", "[BA]">>, <<"bi", "[BI]">>, <<"bu", "[BU]">>, <<"be", "[BE]">>,
  <<"bo", "[BO]">>, <<"pa", "[PA]">>, <<"pi", "[PI]">>, <<"pu", "[PU]">>,
  <<"pe", "[PE]">>, <<"po", "[PO]">>, <<"ma", "[MA]">>, <<"mi", "[MI]">>,
  <<"mu", "[MU]">>, <<"me", "[ME]">>, <<"mo", "[MO]">>, <<"ya", "[YA]">>,
  <<"yu", "[YU]">>, <<"yo", "[YO]">>, <<"ra", "[RA]">>, <<"ri", "[RI]">>,
  <<"ru", "[RU]">>, <<"re", "[RE]">>, <<"ro", "[RO]">>, <<"wa", "[WA]">>,
  <<"wo", "[WO]">>, <<"a", "[A]">>, <<"i", "[I]">>, <<"u", "[U]">>,
  <<"e", "[E]">>, <<"o", "[O]">> >>

TheKanji == <<
  <<"c[A]r", "{CAR}">>, <<"[TA][KE][SA][KO]", "{TAKESAKO}">>,
  <<"[KA][MI][YA][MA]", "{KAMIYAMA}">>, <<"[KO][U][SE][NN]", "{KOUSEN}">>,
  <<"[KO][NO][SA][KI]", "{KONOSAKI}">>, <<"[I][KI][NO][KO][RU]", "{IKINOKORU}">>,
  <<".", "{STOP}">>, <<"KMC", "{SCHOOL}">> >>

-----------------------------------------------------------------------------
\* The rule applied to the first place it fits in the text.
Rewrite(text, rule) ==
  LET n == Len(rule[1])
      hits == {i \in 1 .. Len(text) - n + 1 : SubSeq(text, i, i + n - 1) = rule[1]}
  IN  IF hits = {} THEN text
      ELSE SubSeq(text, 1, Min(hits) - 1) \o rule[2]
             \o SubSeq(text, Min(hits) + n, Len(text))

\* The rules from the i-th on, tried one after another; most change nothing.
RECURSIVE PassFrom(_, _, _)
PassFrom(text, rules, i) ==
  LET applied == {j \in i .. Len(rules) : Rewrite(text, rules[j]) # text}
  IN  IF applied = {} THEN text
      ELSE PassFrom(Rewrite(text, rules[Min(applied)]), rules, Min(applied) + 1)

\* Mutant: the table is tried from its end.
PassBack(text, rules) == PassFrom(text, Reverse(rules), 1)

Pass(text, rules) == PassFrom(text, rules, 1)

Waiting == [text |-> "", rest |-> "", rule |-> <<"", "">>]
Start(letters, to) == word' = [text |-> "", rest |-> letters, rule |-> <<letters, to>>]

KanaInit == word = Waiting
KanaStart == \/ \E i \in DOMAIN TheRomaji : Start(TheRomaji[i][1], TheRomaji[i][2])
             \/ \E w \in Spellings : Start(w[1], TheKanji[w[2]][2])

\* One more letter, and both tables over the text.
KanaKey ==
  /\ word.rest # ""
  /\ LET typed == word.text \o SubSeq(word.rest, 1, 1)
     IN  word' = [word EXCEPT !.text = Pass(Pass(typed, TheRomaji), TheKanji),
                              !.rest = SubSeq(@, 2, Len(@))]

-----------------------------------------------------------------------------
\* What a rule promises for its letters is what typing them gives; only xtsu is
\* never reached, because the rule for tsu comes before it.
RulesReached ==
  word.rest = "" =>
    word.text = IF word.rule[1] = "xtsu" THEN "x[TU]" ELSE word.rule[2]
=============================================================================
