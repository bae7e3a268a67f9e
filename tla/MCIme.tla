------------------------------- MODULE MCIme -------------------------------
(***************************************************************************)
(* Room for five bytes besides the cursor; rules that shorten, keep and     *)
(* lengthen the text, and a character each of one, three and four bytes;    *)
(* the real tables, whose rules are typed one at a time.                    *)
(***************************************************************************)
EXTENDS Ime, KanaRules

White == <<226, 150, 161>>
Black == <<226, 150, 160>>

k == <<107>>
a == <<97>>
KanaA == <<227, 129, 130>>
KanaKa == <<227, 129, 139>>
Small == <<227, 129, 163>>
Car == <<240, 159, 154, 151>>

RomajiRules == << << <<k, k>>, <<Small, k>> >>, << <<k, a>>, <<KanaKa>> >>,
                  << <<a>>, <<KanaA>> >> >>
KanjiRules == << << <<k, KanaA>>, <<Car>> >> >>

Words == {<<"car", 1>>, <<"takesako", 2>>, <<"kamiyama", 3>>, <<"kousenn", 4>>,
          <<"konosaki", 5>>, <<"ikinokoru", 6>>, <<".", 7>>, <<"KMC", 8>>}

MCInit == Init /\ KanaInit
MCNext == \/ word = Waiting /\ Next /\ UNCHANGED word
          \/ word = Waiting /\ s = White /\ key = "none" /\ KanaStart /\ UNCHANGED vars
          \/ KanaKey /\ UNCHANGED vars
MCSpec == MCInit /\ [][MCNext]_<<vars, word>>
=============================================================================
