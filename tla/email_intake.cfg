SPECIFICATION FairSpec
CONSTANTS
    Mails = {m1, m2}
    Wanted = {m1}
    Budget <- Everything
    NoMail = NoMail
INVARIANTS ExtraCardsHaveACause TableHoldsTheMail
PROPERTIES MailMovesForward
