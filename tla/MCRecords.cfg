SPECIFICATION RecordsSpec
CONSTANTS
    UserIDs = {u1}
    ClientIDs = {c1}
    Names = {n1}
    Passwords = {none}
    NoRow = NoRow
    Gone = Gone
    Null = Null
    Empty = Empty
    Account = Account
    Contact = Contact
    Id = Id
    Phone = Phone
    Owner = Owner
    Seen = Seen
    r1 = r1
    r2 = r2
    p1 = p1
    p2 = p2
    ObjectTypes = {Account, Contact}
    AccountType = Account
    FieldIDs = {Id, Phone, Owner, Seen}
    IdField = Id
    RecordIDs = {r1, r2}
    Texts = {p1, p2}
    Times = {0, 1}
    KindOf <- Kind
    LogicOf <- Logic
    CrmFields <- InCrm
    DefaultTypes <- BothTypes
    BaseFields <- Base
    FirstRecord <- OneContact
    Payloads <- SomeBodies
    Requests <- SomeRequests
    Handlers = {h1, h2}
    Calls = {k1}
    MaxInFlight = 2
    UserValues <- OtherPhone
    MaxChanges = 1
SYMMETRY Symmetry
INVARIANTS
    RecordsTypeOK
    TypeOK
    BaseAllOrNothing
    FieldsInv
    UneditedSaveKeepsRecord
    SearchCoversTypes
    RoutedRecordMatches
    RecordsInv
PROPERTIES
    CallsReplaceAtomically
    GetsTellTheRecord
    WritesReadBack
    FoundRecordsAreNamed
