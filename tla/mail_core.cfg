\* Three pairs that match: one owner's address is rejected, another has none; three mails,
\* of which a crash may double one, drained one by one. The search returns one listing, so
\* that the newer may hide the older, and be withdrawn again.
CONSTANTS
    x1 = x1
    x2 = x2
    x3 = x3
    MaxMails = 3
    Subjects <- MCSubjects
    Unroutable = {x2}
    Batch = 1
    MaxAttempts = 2
    MaxTroubles = 1
    MaxSwitches = 4
    Listings = {1, 2}
    Limit = 1
    ListingOf <- MCListingOf
    NoMail = NoMail
    NoSubject = NoSubject
    Pairs = {x1, x2, x3}
    Reachable = {x1, x2}
    NoPair = NoPair
SPECIFICATION FairSpec
INVARIANTS MailsFailAtTheBound DeliveriesArePaid AlertsAreQueuedOnce
PROPERTIES SettledStands EveryMailSettles AlertArrives
\* The system is quiet once every mail is settled and every pair alerted.
CHECK_DEADLOCK FALSE
