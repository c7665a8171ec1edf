SPECIFICATION Spec
CONSTANTS
  Char <- MCChar
  Word <- MCWord
  MentionSafe <- MCMentionSafe
  EmojiSafe <- MCEmojiSafe
  Typed <- MCTyped
  Offers <- MCOffers
  Inserted <- MCInserted
  Emoji <- MCEmoji
  Members <- MCMembers
  RoomId <- MCRoomId
  BuiltIn <- MCBuiltIn
  CustomEmoji <- MCCustomEmoji
  Glyphs <- MCEmoji
  NoQuery = NoQuery
  NoFrame = NoFrame
  MaxText = 3
CONSTRAINT Short
INVARIANTS
  AtMostOneDropdown
  QueryIsCurrent
  LineMarksToggle
  InlineMarksToggle
  ReferencesAgree
  CodeIsShownAsWritten
CHECK_DEADLOCK FALSE
