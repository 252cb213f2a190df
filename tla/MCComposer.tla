----------------------------- MODULE MCComposer -----------------------------
EXTENDS Composer

l(name) == << "lower", name >>
k(name) == << "kana", name >>
one == << "digit", "1" >>
star == << "digit", "*" >>
stop == << "special", Stop >>
Rule(input, result, pending) ==
    [ input |-> input, result |-> result, pending |-> pending, attributes |-> {} ]

TheRules ==
    { Rule(<< l("a") >>, << k("a") >>, << >>),
      Rule(<< l("g"), l("a") >>, << k("ga") >>, << >>),
      Rule(<< l("g"), l("g") >>, << k("tsu") >>, << l("g") >>),
      Rule(<< l("n") >>, << k("n") >>, << >>),
      Rule(<< l("n"), l("n") >>, << k("n") >>, << >>),
      Rule(<< l("n"), l("a") >>, << k("na") >>, << >>),
      Rule(<< l("w"), l("w") >>, << k("tsu") >>, << l("w") >>),
      Rule(<< l("w"), l("w"), l("w") >>, << l("w") >>, << l("w"), l("w") >>),
      Rule(<< k("ka"), k("voiced") >>, << k("ga") >>, << >>),
      \* toggling on a keyboard of twelve keys
      [ Rule(<< one >>, << >>, << k("a") >>) EXCEPT
          !.attributes = {"NEW_CHUNK", "NO_TRANSLITERATION"} ],
      Rule(<< k("a"), one >>, << >>, << k("i") >>),
      Rule(<< k("i"), one >>, << >>, << k("a") >>),
      \* alone it shows nothing, as in 12keys-hiragana_intuitive.tsv
      Rule(<< star >>, << >>, << >>),
      Rule(<< k("a"), star >>, << >>, << k("xa") >>),
      Rule(<< k("a"), stop >>, << >>, << << "special", "*" >>, k("a") >>) }

TheVoiced == [ v \in {"ga"} |-> "ka" ]

Key(raw, conversion, is_asis) ==
    [ raw |-> << raw >>, conversion |-> conversion, is_asis |-> is_asis ]

Typed(name) == Key(l(name), << >>, FALSE)

TheKeyboards ==
    { { Typed("g"), Typed("a") },
      { Typed("w") },
      { Typed("n"), Key(<< "upper", "a" >>, << >>, FALSE) },
      { Key(l("t"), << k("ka") >>, FALSE), Key(l("q"), << k("voiced") >>, FALSE) },
      { Key(l("t"), << k("ka") >>, FALSE), Key(l("a"), << l("a") >>, TRUE) },
      { Key(one, << >>, FALSE), Key(star, << >>, FALSE) },
      { Key(<< "upper", "a" >>, << >>, FALSE), Key(<< "digit", "2" >>, << >>, FALSE) },
      { Key(<< "upper", "a" >>, << >>, FALSE), Key(k("ka"), << >>, FALSE) } }

TheTimeoutKeyboards ==
    { keys \in TheKeyboards :
        \E key \in keys : key.is_asis \/ key.raw = << one >> }

TheSwitching ==
    [ s \in { << l("g"), l("g") >>, << l("n"), l("n") >> } |->
        IF s[1] = l("g") THEN "HALF_ALPHANUMERIC" ELSE "REVERT_TO_PREVIOUS_MODE" ]
=============================================================================
