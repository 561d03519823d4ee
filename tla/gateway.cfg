CONSTANTS
  Names <- MCNames
  LeftTrimmed <- MCLeft
  RightTrimmed <- MCTrimmed
  Unfit = {"nul"}
  Bags <- MCBags
  Queries <- MCQueries
  Unescaped <- MCUnescaped
  EndsIn <- MCEndsIn
  FormatsOf <- MCFormatsOf
  FormatLists <- MCFormatLists
  HtmlFormats = {"html"}
  Dir <- MCDir
  TooLong <- MCTooLong
SPECIFICATION Spec
INVARIANTS TypeOK PathStaysInside LinksLead ServedAsItIs
PROPERTY AnswersTheBag
