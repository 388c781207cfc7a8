SPECIFICATION ExchangeSpec
CONSTANTS
  Texts <- MCTexts
  Decimals = {0, 1, 2, 3}
  MaxSafe = 9998
INVARIANTS
  PlainTextIsRoundedDown
  ReadersAgree
  NeverReadsBackAsMore
  PageSignsWhatIsRead
  DisplayReadsBack
