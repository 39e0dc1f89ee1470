SPECIFICATION Spec
CONSTANTS
    schedule = schedule
    faq = faq
    form = form
    codelabs = codelabs
    day1 = day1
    day2 = day2
    cost = cost
    quote = quote
    None = None
    Page = {schedule, faq, form}
    Template = {schedule, faq}
    Subpages <- Sections
    DefaultSubpage <- Defaults
    Hash = {day1, day2, cost, quote}
    Selectable = {day1, day2, cost}
    Detail = {sid}
    Faq = faq
    Schedule = schedule
    Label = {schedule, faq, codelabs}
    MaxNavigations = 3
    MaxEntries = 2
CHECK_DEADLOCK FALSE
INVARIANTS
    TypeOK
    ViewAgrees
    TabsAgree
    TabsEnabled
    FocusFollows
